-------------------------------- MODULE Fifo --------------------------------
(***************************************************************************)
(* fifoa.c as a state machine: one call at a time, one turn of its loop    *)
(* per step.  It implements ByteWindow.                                    *)
(***************************************************************************)
EXTENDS Ring

CONSTANTS
  Bytes,     \* what a cell can hold
  Size,      \* bytes of memory behind the buffer
  Lens,      \* the lengths FIFOA_Initial is called with
  MaxCall    \* bound: bytes one call writes or asks for

\* "when define buff, the buff size should be max element+1"
ASSUME FifoAssumption ==
  /\ Size \in Nat
  /\ Lens # {} /\ \A l \in Lens : l \in Nat /\ l >= 2 /\ l <= Size
  /\ MaxCall \in Nat

VARIABLES
  ring,   \* the FIFOA_Buff_t and its memory
  todo,   \* bytes the running FIFOA_ForceWrite has left to write
  full,   \* its fullFlag
  want,   \* bytes the running FIFOA_Read still asks for
  got     \* dstBuff: what it has read

vars == <<ring, todo, full, want, got>>

Memory == [0..(Size - 1) -> Bytes]
NoCall == todo = <<>> /\ want = 0

Init ==
  /\ \E m \in Memory, l \in Lens : ring = Initial(m, l)
  /\ todo = <<>> /\ full = FALSE
  /\ want = 0 /\ got = <<>>

\* FIFOA_Initial, also of a buffer in use.
SetUp(l) ==
  /\ NoCall
  /\ ring' = Initial(ring.mem, l)
  /\ UNCHANGED <<todo, full, want, got>>

StartWriteFlagKept(src) ==   \* mutant: the flag of the last call is not cleared
  NoCall /\ todo' = src /\ UNCHANGED <<ring, full, want, got>>

\* FIFOA_ForceWrite is called.
StartWrite(src) ==
  /\ NoCall
  /\ todo' = src
  /\ full' = FALSE
  /\ UNCHANGED <<ring, want, got>>

\* One turn of its loop.
WriteByte ==
  /\ todo # <<>>
  /\ full' = (full \/ IsFull(ring))
  /\ ring' = PutByte(ring, full', Head(todo))
  /\ todo' = Tail(todo)
  /\ UNCHANGED <<want, got>>

\* FIFOA_Read is called.
StartRead(n) ==
  /\ NoCall
  /\ want' = n
  /\ got' = <<>>
  /\ UNCHANGED <<ring, todo, full>>

\* One turn of its loop, or its end when nothing is left to read.
ReadByte ==
  /\ want > 0
  /\ IF ring.rd # ring.wr
     THEN /\ got' = Append(got, ring.mem[ring.rd])
          /\ ring' = [ring EXCEPT !.rd = CellAfter(ring, @)]
          /\ want' = want - 1
     ELSE want' = 0 /\ UNCHANGED <<ring, got>>
  /\ UNCHANGED <<todo, full>>

Next ==
  \/ \E l \in Lens : SetUp(l)
  \/ \E n \in 1..MaxCall : StartRead(n) \/ \E src \in [1..n -> Bytes] : StartWrite(src)
  \/ WriteByte
  \/ ReadByte

Spec == Init /\ [][Next]_vars

-----------------------------------------------------------------------------
\* The bytes from the read pointer to the write pointer, round the end.
CellAt(r, k) == IF r.rd + k < r.len THEN r.rd + k ELSE r.rd + k - r.len
Length(r) == IF r.wr >= r.rd THEN r.wr - r.rd ELSE r.wr + r.len - r.rd
Held(r) == [k \in 1..Length(r) |-> r.mem[CellAt(r, k - 1)]]

TypeOK ==
  /\ ring \in [mem : Memory, len : Lens, rd : 0..(Size - 1), wr : 0..(Size - 1)]
  /\ ring.rd < ring.len /\ ring.wr < ring.len
  /\ todo \in Seq(Bytes) /\ got \in Seq(Bytes)
  /\ full \in BOOLEAN
  /\ want \in 0..MaxCall

\* fullFlag is set once per call and never cleared, although the buffer
\* moves on: it is right as long as the call writes.
FlagTrue == todo # <<>> /\ full => IsFull(ring)

\* FIFOA_GetDataSector and FIFOA_GetCurLength describe what the buffer holds,
\* at any time.
SectorsHold ==
  /\ BothRuns(ring.mem, DataSectors(ring)) = Held(ring)
  /\ CurLength(ring) = Length(ring)

\* What a call of FIFOA_ForceWrite comes to is known from its start: the loop
\* with its flag does the same as ForceWrite does at once, from any turn on.
CallsAddUp ==
  [][todo # <<>> => ForceWrite(ring', todo') = ForceWrite(ring, todo)]_vars

\* The buffer holds the bytes written last, in the order they were written.
Window == INSTANCE ByteWindow
            WITH cap <- ring.len - 1, held <- Held(ring),
                 Caps <- {l - 1 : l \in Lens}
HoldsLastBytes == Window!Spec
=============================================================================
