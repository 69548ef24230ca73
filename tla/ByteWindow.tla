----------------------------- MODULE ByteWindow -----------------------------
(***************************************************************************)
(* What an overwriting buffer promises: it holds the bytes written last,   *)
(* oldest first, up to its capacity; a read takes the oldest, and falls    *)
(* short only when there is nothing left.                                  *)
(***************************************************************************)
EXTENDS Integers, Sequences

CONSTANTS
  Bytes,
  Caps,     \* the capacities it may be set up with
  MaxCall   \* bound: bytes one call writes or asks for

VARIABLES
  cap,    \* its capacity
  held,   \* the bytes it holds
  todo,   \* bytes of the running write it has not taken yet
  want,   \* bytes the running read still asks for
  got     \* what the running or last read has taken

vars == <<cap, held, todo, want, got>>

Idle == todo = <<>> /\ want = 0

Init == cap \in Caps /\ held = <<>> /\ todo = <<>> /\ want = 0 /\ got = <<>>

SetUp(c) ==
  /\ Idle
  /\ cap' = c /\ held' = <<>>
  /\ UNCHANGED <<todo, want, got>>

Write(src) ==
  /\ Idle
  /\ todo' = src
  /\ UNCHANGED <<cap, held, want, got>>

Put ==
  /\ todo # <<>>
  /\ held' = Append(IF Len(held) < cap THEN held ELSE Tail(held), Head(todo))
  /\ todo' = Tail(todo)
  /\ UNCHANGED <<cap, want, got>>

Read(n) ==
  /\ Idle
  /\ want' = n /\ got' = <<>>
  /\ UNCHANGED <<cap, held, todo>>

Take ==
  /\ want > 0 /\ held # <<>>
  /\ got' = Append(got, Head(held))
  /\ held' = Tail(held)
  /\ want' = want - 1
  /\ UNCHANGED <<cap, todo>>

FallShort ==
  /\ want > 0 /\ held = <<>>
  /\ want' = 0
  /\ UNCHANGED <<cap, held, todo, got>>

Next ==
  \/ \E c \in Caps : SetUp(c)
  \/ \E n \in 1..MaxCall : Read(n) \/ \E src \in [1..n -> Bytes] : Write(src)
  \/ Put
  \/ Take
  \/ FallShort

Spec == Init /\ [][Next]_vars
=============================================================================
