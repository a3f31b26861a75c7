------------------------------- MODULE MCMesh -------------------------------
(* Small instances of Mesh for TLC. *)
EXTENDS Mesh

\* All descriptions and candidates of an instance.
MCBodies == (1 .. MaxVisits) \X (0 .. MaxVisits + MaxCandidates)
=============================================================================
