----------------------------- MODULE FileStream -----------------------------
(***************************************************************************)
(* What a FoE read promises: the bytes of the file opened last, in order,  *)
(* each exactly once, in blocks of MaxBlock bytes of which only the last   *)
(* is shorter (possibly empty).  A byte is represented by its position.    *)
(***************************************************************************)
EXTENDS Integers, Sequences

CONSTANTS Sizes, MaxBlock

VARIABLES
  size,    \* the size of the file being read
  offset,  \* bytes delivered so far
  reply,   \* the last block delivered
  open     \* the transfer goes on: its blocks were all full

vars == <<size, offset, reply, open>>

BlockAt(at, n) == [k \in 1..n |-> at + k - 1]

\* One block of a file of s bytes, from position "at" on.
DeliverFrom(s, at) ==
  LET n == IF s - at < MaxBlock THEN s - at ELSE MaxBlock
  IN  /\ reply' = BlockAt(at, n)
      /\ offset' = at + n
      /\ open' = (n = MaxBlock)

Init == size = 0 /\ offset = 0 /\ reply = <<>> /\ open = FALSE

Open == \E s \in Sizes : size' = s /\ DeliverFrom(s, 0)

\* A file that cannot be opened ends what was being delivered.
Refuse == size' = 0 /\ offset' = 0 /\ reply' = <<>> /\ open' = FALSE

Deliver == open /\ DeliverFrom(size, offset) /\ UNCHANGED size

Next == Open \/ Refuse \/ Deliver

Spec == Init /\ [][Next]_vars
=============================================================================
