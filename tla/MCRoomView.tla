----------------------------- MODULE MCRoomView -----------------------------
(* Small instances of RoomView for TLC. *)
EXTENDS RoomView, TLC

\* Sessions and threads are interchangeable: sound for the safety runs only.
Symmetry == Permutations(Sessions) \cup Permutations(Threads)
=============================================================================
