----------------------------- MODULE ChatBuffer -----------------------------
(***************************************************************************)
(* The buffer of server/chat.rs as operators on sequences, oldest message  *)
(* first: what InMemoryChat::append and InMemoryChat::history do to one    *)
(* room's VecDeque while they hold its mutex.                              *)
(***************************************************************************)
EXTENDS Integers, Sequences

CONSTANT MaxMessages    \* MAX_MESSAGES_PER_ROOM, 200 in the code

ASSUME MaxMessagesAssumption == MaxMessages \in Nat \ {0}

\* Mutant: the buffer is full one message too late.
ChatAppendLate(buf, msg) ==
    Append(IF Len(buf) > MaxMessages THEN Tail(buf) ELSE buf, msg)

\* append: a full buffer drops its oldest message, then the new one is pushed.
ChatAppend(buf, msg) ==
    Append(IF Len(buf) >= MaxMessages THEN Tail(buf) ELSE buf, msg)

\* Mutant: the first `limit` messages.
ChatHistoryHead(buf, limit) ==
    SubSeq(buf, 1, IF Len(buf) > limit THEN limit ELSE Len(buf))

\* Mutant: newest first.
ChatHistoryReversed(buf, limit) ==
    LET n == IF Len(buf) > limit THEN limit ELSE Len(buf)
    IN  [i \in 1 .. n |-> buf[Len(buf) + 1 - i]]

\* history: the last `limit` messages, or all of them when there are fewer.
ChatHistory(buf, limit) ==
    LET start == IF Len(buf) > limit THEN Len(buf) - limit ELSE 0
    IN  SubSeq(buf, start + 1, Len(buf))
=============================================================================
