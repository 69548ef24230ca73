----------------------------- MODULE FifoProofs -----------------------------
(***************************************************************************)
(* Proofs about Fifo, for every memory, length and alphabet: its flag is   *)
(* never stale, and it implements ByteWindow.                              *)
(***************************************************************************)
EXTENDS Fifo, SequenceTheorems, TLAPS

\* A buffer in use: both pointers inside its length.
Buffer(r) ==
  /\ r \in [mem : Memory, len : Lens, rd : 0..(Size - 1), wr : 0..(Size - 1)]
  /\ r.rd < r.len /\ r.wr < r.len

OneCall == todo = <<>> \/ want = 0

Inv == TypeOK /\ OneCall /\ FlagTrue

-----------------------------------------------------------------------------
(***************************************************************************)
(* Arithmetic of the two pointers.                                         *)
(***************************************************************************)
\* Lengths and pointers are naturals in their ranges.
LEMMA BufferNumbers ==
  ASSUME NEW r, Buffer(r)
  PROVE  /\ r.len \in Nat /\ r.len >= 2 /\ r.len <= Size
         /\ r.rd \in Nat /\ r.rd < r.len /\ r.wr \in Nat /\ r.wr < r.len
         /\ r.mem \in Memory
  BY FifoAssumption DEF Buffer

\* A pointer that moves on stays inside the buffer.
LEMMA CellAfterRange ==
  ASSUME NEW r, Buffer(r), NEW c \in Nat, c < r.len
  PROVE  CellAfter(r, c) \in Nat /\ CellAfter(r, c) < r.len
  BY BufferNumbers DEF CellAfter

\* What is held is a sequence of bytes, of a length that spares one cell.
LEMMA HeldType ==
  ASSUME NEW r, Buffer(r)
  PROVE  /\ Length(r) \in Nat /\ Length(r) <= r.len - 1
         /\ Held(r) \in Seq(Bytes) /\ Len(Held(r)) = Length(r)
         /\ \A k \in 1..Length(r) : Held(r)[k] = r.mem[CellAt(r, k - 1)]
<1>1. Length(r) \in Nat /\ Length(r) <= r.len - 1
  BY BufferNumbers DEF Length
<1>2. ASSUME NEW k \in 1..Length(r)
      PROVE  r.mem[CellAt(r, k - 1)] \in Bytes
  <2>1. k \in Int /\ 1 <= k /\ k <= r.len - 1
    BY <1>1, BufferNumbers
  <2>2. CellAt(r, k - 1) \in 0..(Size - 1)
    <3>1. /\ CellAt(r, k - 1) \in Int
          /\ 0 <= CellAt(r, k - 1) /\ CellAt(r, k - 1) < r.len
      BY <2>1, BufferNumbers DEF CellAt
    <3>. QED BY <3>1, BufferNumbers, FifoAssumption
  <2>3. r.mem \in [0..(Size - 1) -> Bytes]
    BY BufferNumbers DEF Memory
  <2>. QED BY <2>2, <2>3
<1>. QED BY <1>1, <1>2 DEF Held

\* fullFlag is raised exactly when only the spare cell is left.
LEMMA FullLength ==
  ASSUME NEW r, Buffer(r)
  PROVE  IsFull(r) <=> Length(r) = r.len - 1
  BY BufferNumbers DEF IsFull, Length

\* A byte put in a buffer leaves a buffer, which is full if it was.
LEMMA PutBuffer ==
  ASSUME NEW r, Buffer(r), NEW x \in Bytes, NEW f \in BOOLEAN, f <=> IsFull(r)
  PROVE  LET s == PutByte(r, f, x)
         IN  /\ Buffer(s) /\ s.len = r.len
             /\ s.mem = [r.mem EXCEPT ![r.wr] = x]
             /\ s.wr = CellAfter(r, r.wr)
             /\ s.rd = IF f THEN CellAfter(r, r.rd) ELSE r.rd
             /\ Length(s) = IF f THEN Length(r) ELSE Length(r) + 1
             /\ f => IsFull(s)
<1> DEFINE s == PutByte(r, f, x)
<1>0. /\ r.len \in Nat /\ r.len >= 2 /\ r.len <= Size /\ r.len \in Lens
      /\ r.rd \in Nat /\ r.rd < r.len /\ r.wr \in Nat /\ r.wr < r.len
      /\ r.mem \in Memory
  BY BufferNumbers DEF Buffer
<1>1. /\ s.mem = [r.mem EXCEPT ![r.wr] = x] /\ s.len = r.len
      /\ s.rd = IF f THEN CellAfter(r, r.rd) ELSE r.rd
      /\ s.wr = CellAfter(r, r.wr)
      /\ s = [mem |-> s.mem, len |-> s.len, rd |-> s.rd, wr |-> s.wr]
  BY DEF PutByte
<1>2. s.mem \in Memory
  BY <1>0, <1>1 DEF Memory
<1> HIDE DEF s
<1>3. /\ s.rd \in Nat /\ s.rd < r.len /\ s.wr \in Nat /\ s.wr < r.len
  <2>1. CASE f
    BY <2>1, <1>1, <1>0, CellAfterRange
  <2>2. CASE ~f
    BY <2>2, <1>1, <1>0, CellAfterRange
  <2>. QED BY <2>1, <2>2
<1>4. s.rd \in 0..(Size - 1) /\ s.wr \in 0..(Size - 1)
  BY <1>3, <1>0, FifoAssumption
<1>5. Buffer(s)
  BY <1>0, <1>1, <1>2, <1>3, <1>4 DEF Buffer
<1>6. f <=> Length(r) = r.len - 1
  BY FullLength
<1>7. Length(s) = IF f THEN Length(r) ELSE Length(r) + 1
  <2>1. CASE f
    BY <2>1, <1>0, <1>1, <1>6 DEF Length, CellAfter
  <2>2. CASE ~f
    BY <2>2, <1>0, <1>1, <1>6 DEF Length, CellAfter
  <2>. QED BY <2>1, <2>2
<1>8. f => IsFull(s)
  BY <1>1, <1>5, <1>6, <1>7, FullLength
<1>. QED BY <1>1, <1>5, <1>7, <1>8 DEF s

\* A byte put in a buffer is behind the others; if it was full the oldest is gone.
LEMMA PutHeld ==
  ASSUME NEW r, Buffer(r), NEW x \in Bytes, NEW f \in BOOLEAN, f <=> IsFull(r)
  PROVE  Held(PutByte(r, f, x)) =
           Append(IF Len(Held(r)) < r.len - 1 THEN Held(r) ELSE Tail(Held(r)), x)
<1> DEFINE s == PutByte(r, f, x)
           kept == IF Len(Held(r)) < r.len - 1 THEN Held(r) ELSE Tail(Held(r))
           n == Length(s)
<1>1. /\ Buffer(s) /\ s.len = r.len
      /\ s.mem = [r.mem EXCEPT ![r.wr] = x]
      /\ s.wr = CellAfter(r, r.wr)
      /\ s.rd = IF f THEN CellAfter(r, r.rd) ELSE r.rd
      /\ n = IF f THEN Length(r) ELSE Length(r) + 1
  BY PutBuffer
<1>0. /\ r.len \in Nat /\ r.len >= 2 /\ r.len <= Size
      /\ r.rd \in Nat /\ r.rd < r.len /\ r.wr \in Nat /\ r.wr < r.len
      /\ r.mem \in Memory
  BY BufferNumbers
<1> HIDE DEF s
<1>2. /\ Len(Held(r)) = Length(r) /\ Held(r) \in Seq(Bytes)
      /\ Length(r) \in Nat /\ Length(r) <= r.len - 1
  BY HeldType
<1>3. f <=> Length(r) = r.len - 1
  BY FullLength
<1>4. /\ kept \in Seq(Bytes) /\ Len(kept) = n - 1
      /\ \A k \in 1..(n - 1) : kept[k] = IF f THEN Held(r)[k + 1] ELSE Held(r)[k]
  <2>1. CASE f
    <3>1. Held(r) # <<>> /\ Len(Held(r)) = n /\ kept = Tail(Held(r))
      BY <2>1, <1>1, <1>2, <1>3, BufferNumbers
    <3>. QED BY <2>1, <3>1, <1>2, HeadTailProperties
  <2>2. CASE ~f
    BY <2>2, <1>1, <1>2, <1>3, BufferNumbers
  <2>. QED BY <2>1, <2>2
<1>5. n \in Nat /\ n >= 1 /\ n <= r.len - 1
  BY <1>1, <1>2, <1>3, BufferNumbers
<1> HIDE DEF kept
<1>6. ASSUME NEW k \in 1..n
      PROVE  Held(s)[k] = Append(kept, x)[k]
  <2>1. Held(s)[k] = s.mem[CellAt(s, k - 1)]
    BY <1>1, HeldType
  <2>2. k \in Nat /\ 1 <= k /\ k <= n
    BY <1>5
  <2>3. CASE k = n
    <3>1. CellAt(s, n - 1) = r.wr
      BY <1>1, <1>3, <1>5, <1>0 DEF CellAt, CellAfter, Length
    <3>2. s.mem[r.wr] = x
      <4>1. r.wr \in 0..(Size - 1)
        BY <1>0, FifoAssumption
      <4>. QED BY <4>1, <1>1, <1>0 DEF Memory
    <3>3. Append(kept, x)[n] = x
      BY <1>4, <1>5
    <3>. QED BY <2>1, <2>3, <3>1, <3>2, <3>3
  <2>4. CASE k < n
    <3>1. PICK j \in Nat : j = IF f THEN k + 1 ELSE k
      BY <2>2
    <3>2. j \in 1..Length(r)
      BY <2>2, <2>4, <3>1, <1>1, <1>2, <1>3
    <3>3. CellAt(s, k - 1) = CellAt(r, j - 1)
      <4>1. CASE f
        <5>1. j = k + 1 /\ s.rd = CellAfter(r, r.rd)
          BY <4>1, <3>1, <1>1
        <5>2. k < r.len /\ k \in Nat
          BY <2>2, <1>5, <1>0
        <5>. QED BY <5>1, <5>2, <1>0, <1>1 DEF CellAt, CellAfter
      <4>2. CASE ~f
        BY <4>2, <3>1, <1>1 DEF CellAt
      <4>. QED BY <4>1, <4>2
    <3>4. CellAt(r, j - 1) # r.wr
      BY <3>2, <1>0 DEF CellAt, Length
    <3>5. CellAt(r, j - 1) \in 0..(Size - 1)
      <4>1. CellAt(r, j - 1) \in Nat /\ CellAt(r, j - 1) < r.len
        BY <3>2, <1>0, <1>2 DEF CellAt
      <4>. QED BY <4>1, <1>0, FifoAssumption
    <3>6. s.mem[CellAt(r, j - 1)] = r.mem[CellAt(r, j - 1)]
      BY <3>4, <3>5, <1>1, <1>0 DEF Memory
    <3>7. Held(r)[j] = r.mem[CellAt(r, j - 1)]
      BY <3>2, HeldType
    <3>8. Append(kept, x)[k] = Held(r)[j]
      <4>1. k \in 1..(n - 1) /\ k \in 1..Len(kept)
        BY <2>2, <2>4, <1>4, <1>5
      <4>2. Append(kept, x)[k] = kept[k]
        BY <4>1, <1>4, AppendProperties
      <4>3. kept[k] = IF f THEN Held(r)[k + 1] ELSE Held(r)[k]
        BY <4>1, <1>4
      <4>. QED BY <4>2, <4>3, <3>1
    <3>. QED BY <2>1, <3>3, <3>6, <3>7, <3>8
  <2>5. k = n \/ k < n
    BY <2>2, <1>5
  <2>. QED BY <2>3, <2>4, <2>5
<1>7. Held(s) \in Seq(Bytes) /\ Len(Held(s)) = n
  BY <1>1, HeldType
<1>8. Append(kept, x) \in Seq(Bytes) /\ Len(Append(kept, x)) = n
  BY <1>4, <1>5
<1>9. Held(s) = Append(kept, x)
  BY <1>6, <1>7, <1>8, SeqEqual
<1>. QED BY <1>9 DEF s, kept

\* A read takes the oldest byte and leaves the others.
LEMMA TakeHeld ==
  ASSUME NEW r, Buffer(r), r.rd # r.wr
  PROVE  LET s == [r EXCEPT !.rd = CellAfter(r, @)]
         IN  /\ Buffer(s) /\ s.len = r.len
             /\ Held(r) \in Seq(Bytes) /\ Held(r) # <<>>
             /\ Head(Held(r)) = r.mem[r.rd] /\ r.mem[r.rd] \in Bytes
             /\ Held(s) = Tail(Held(r))
<1> DEFINE s == [r EXCEPT !.rd = CellAfter(r, @)]
<1>0. /\ r.len \in Nat /\ r.len >= 2 /\ r.len <= Size /\ r.len \in Lens
      /\ r.rd \in Nat /\ r.rd < r.len /\ r.wr \in Nat /\ r.wr < r.len
      /\ r.mem \in Memory
  BY BufferNumbers DEF Buffer
<1>1. /\ s.mem = r.mem /\ s.len = r.len /\ s.wr = r.wr
      /\ s.rd = CellAfter(r, r.rd)
      /\ s = [mem |-> s.mem, len |-> s.len, rd |-> s.rd, wr |-> s.wr]
  BY DEF Buffer
<1> HIDE DEF s
<1>2. s.rd \in Nat /\ s.rd < r.len
  BY <1>0, <1>1, CellAfterRange
<1>3. Buffer(s)
  <2>1. s.rd \in 0..(Size - 1) /\ s.wr \in 0..(Size - 1)
    BY <1>0, <1>1, <1>2, FifoAssumption
  <2>. QED BY <2>1, <1>0, <1>1, <1>2 DEF Buffer
<1>4. Length(r) \in Nat /\ Length(r) >= 1 /\ Length(s) = Length(r) - 1
  BY <1>0, <1>1 DEF Length, CellAfter
<1>5. /\ Held(r) \in Seq(Bytes) /\ Len(Held(r)) = Length(r)
      /\ \A k \in 1..Length(r) : Held(r)[k] = r.mem[CellAt(r, k - 1)]
  BY HeldType
<1>6. /\ Held(s) \in Seq(Bytes) /\ Len(Held(s)) = Length(s)
      /\ \A k \in 1..Length(s) : Held(s)[k] = r.mem[CellAt(s, k - 1)]
  BY <1>1, <1>3, HeldType
<1>7. Held(r) # <<>> /\ Head(Held(r)) = Held(r)[1]
  BY <1>4, <1>5
<1>8. Held(r)[1] = r.mem[r.rd] /\ Held(r)[1] \in Bytes
  <2>1. CellAt(r, 1 - 1) = r.rd
    BY <1>0 DEF CellAt
  <2>. QED BY <2>1, <1>4, <1>5
<1>9. /\ Tail(Held(r)) \in Seq(Bytes) /\ Len(Tail(Held(r))) = Length(s)
      /\ \A k \in 1..Length(s) : Tail(Held(r))[k] = Held(r)[k + 1]
  BY <1>4, <1>5, <1>7, HeadTailProperties
<1>10. ASSUME NEW k \in 1..Length(s)
       PROVE  Held(s)[k] = Tail(Held(r))[k]
  <2>1. k \in Nat /\ 1 <= k /\ k + 1 <= Length(r) /\ k + 1 \in 1..Length(r)
    BY <1>4
  <2>2. Length(r) <= r.len - 1
    BY HeldType
  <2>3. CellAt(s, k - 1) = CellAt(r, (k + 1) - 1)
    <3>1. s.len = r.len /\ s.rd = CellAfter(r, r.rd) /\ k < r.len - 1
          /\ (k + 1) - 1 = k
      BY <2>1, <2>2, <1>0, <1>1, <1>4
    <3>2. CASE r.rd = r.len - 1
      BY <3>1, <3>2, <2>1, <1>0 DEF CellAt, CellAfter
    <3>3. CASE r.rd # r.len - 1
      <4>1. s.rd = r.rd + 1 /\ s.rd + (k - 1) = r.rd + k
        BY <3>1, <3>3, <2>1, <1>0 DEF CellAfter
      <4>. QED BY <4>1, <3>1, <2>1, <1>0 DEF CellAt
    <3>. QED BY <3>2, <3>3
  <2>. QED BY <2>1, <2>3, <1>5, <1>6, <1>9
<1>11. Held(s) = Tail(Held(r))
  BY <1>6, <1>9, <1>10, SeqEqual
<1>. QED BY <1>1, <1>3, <1>5, <1>7, <1>8, <1>11 DEF s

\* FIFOA_Initial leaves an empty buffer.
LEMMA InitialHeld ==
  ASSUME NEW m \in Memory, NEW l \in Lens
  PROVE  Buffer(Initial(m, l)) /\ Held(Initial(m, l)) = <<>>
         /\ Initial(m, l).len = l
<1>1. l \in Nat /\ l >= 2 /\ l <= Size
  BY FifoAssumption
<1>2. Buffer(Initial(m, l))
  BY <1>1, FifoAssumption DEF Initial, Buffer
<1>3. Length(Initial(m, l)) = 0
  BY DEF Initial, Length
<1>4. Held(Initial(m, l)) \in Seq(Bytes) /\ Len(Held(Initial(m, l))) = 0
  BY <1>2, <1>3, HeldType
<1>. QED BY <1>2, <1>4 DEF Initial

-----------------------------------------------------------------------------
(***************************************************************************)
(* The invariant.  The flag of a running write is not only never stale:    *)
(* PutByte preserves what is held only because of it.                      *)
(***************************************************************************)
\* A turn of the write loop: the flag it uses says whether the buffer is full.
LEMMA TurnFlag ==
  ASSUME Inv, WriteByte
  PROVE  /\ Buffer(ring) /\ full' \in BOOLEAN /\ (full' <=> IsFull(ring))
         /\ ring' = PutByte(ring, full', Head(todo))
         /\ todo \in Seq(Bytes) /\ todo # <<>> /\ Head(todo) \in Bytes
         /\ todo' = Tail(todo) /\ todo' \in Seq(Bytes)
         /\ UNCHANGED <<want, got>>
<1>1. Buffer(ring) /\ todo \in Seq(Bytes) /\ todo # <<>>
  BY DEF Inv, TypeOK, Buffer, WriteByte
<1>2. IsFull(ring) \in BOOLEAN /\ full \in BOOLEAN
  BY DEF Inv, TypeOK, IsFull
<1>3. full' = (full \/ IsFull(ring)) /\ (full => IsFull(ring))
  BY <1>1, Zenon DEF Inv, FlagTrue, WriteByte
<1>4. full' \in BOOLEAN /\ (full' <=> IsFull(ring))
  BY <1>2, <1>3
<1>5. Head(todo) \in Bytes /\ Tail(todo) \in Seq(Bytes)
  BY <1>1, HeadTailProperties
<1>. QED BY <1>1, <1>4, <1>5 DEF WriteByte

\* The invariant holds at first.
LEMMA InitInv == Init => Inv
<1>1. ASSUME Init PROVE Inv
  <2>1. PICK m \in Memory, l \in Lens : ring = Initial(m, l)
    BY <1>1 DEF Init
  <2>2. Buffer(ring)
    BY <2>1, InitialHeld
  <2>3. /\ todo = <<>> /\ full = FALSE /\ want = 0 /\ got = <<>>
        /\ todo \in Seq(Bytes) /\ got \in Seq(Bytes) /\ want \in 0..MaxCall
    BY <1>1, FifoAssumption, EmptySeq DEF Init
  <2>. QED BY <2>2, <2>3 DEF Inv, OneCall, TypeOK, FlagTrue, Buffer
<1>. QED BY <1>1

\* Every step preserves the invariant.
LEMMA NextInv == Inv /\ [Next]_vars => Inv'
<1> SUFFICES ASSUME Inv, [Next]_vars PROVE Inv'
  OBVIOUS
<1>0. Buffer(ring)
  BY DEF Inv, TypeOK, Buffer
<1>1. ASSUME NEW l \in Lens, SetUp(l) PROVE Inv'
  <2>1. Buffer(ring')
    BY <1>1, <1>0, BufferNumbers, InitialHeld DEF SetUp
  <2>2. todo' = <<>>
    BY <1>1 DEF SetUp, NoCall
  <2>. QED BY <1>1, <2>1, <2>2 DEF SetUp, NoCall, Inv, OneCall, TypeOK, FlagTrue, Buffer
<1>2. ASSUME NEW n \in 1..MaxCall, StartRead(n) PROVE Inv'
  BY <1>2, FifoAssumption DEF StartRead, Inv, OneCall, TypeOK, FlagTrue, NoCall
<1>3. ASSUME NEW n \in 1..MaxCall, NEW src \in [1..n -> Bytes], StartWrite(src)
      PROVE  Inv'
  <2>1. src \in Seq(Bytes)
    BY FifoAssumption, SeqDef
  <2>. QED BY <1>3, <2>1 DEF StartWrite, NoCall, Inv, OneCall, TypeOK, FlagTrue
<1>4. CASE WriteByte
  <2>1. Buffer(ring') /\ (full' => IsFull(ring'))
    <3>1. /\ full' \in BOOLEAN /\ (full' <=> IsFull(ring)) /\ Head(todo) \in Bytes
          /\ ring' = PutByte(ring, full', Head(todo))
      BY <1>4, TurnFlag
    <3> DEFINE s == PutByte(ring, full', Head(todo))
    <3>2. Buffer(s) /\ (full' => IsFull(s))
      BY <3>1, <1>0, PutBuffer
    <3>. QED BY <3>1, <3>2
  <2>2. want' = want /\ got' = got /\ todo' \in Seq(Bytes) /\ full' \in BOOLEAN
    BY <1>4, TurnFlag
  <2>4. want = 0
    BY <1>4 DEF WriteByte, Inv, OneCall
  <2>3. IsFull(ring') <=> IsFull(ring)'
    BY DEF IsFull
  <2>. QED BY <2>1, <2>2, <2>3, <2>4 DEF Inv, OneCall, TypeOK, FlagTrue, Buffer
<1>5. CASE ReadByte
  <2>1. Buffer(ring') /\ got' \in Seq(Bytes)
    <3>1. CASE ring.rd # ring.wr
      <4> DEFINE s == [ring EXCEPT !.rd = CellAfter(ring, @)]
      <4>1. Buffer(s) /\ ring.mem[ring.rd] \in Bytes
        BY <3>1, <1>0, TakeHeld
      <4>2. ring' = s /\ got' = Append(got, ring.mem[ring.rd]) /\ got \in Seq(Bytes)
        BY <1>5, <3>1 DEF ReadByte, Inv, TypeOK
      <4> HIDE DEF s
      <4>. QED BY <4>1, <4>2, AppendProperties
    <3>2. CASE ring.rd = ring.wr
      BY <1>5, <3>2, <1>0 DEF ReadByte, Inv, TypeOK
    <3>. QED BY <3>1, <3>2
  <2>2. want' \in 0..MaxCall
    BY <1>5, FifoAssumption DEF ReadByte, Inv, TypeOK
  <2>3. todo = <<>> /\ todo' = <<>>
    BY <1>5 DEF ReadByte, Inv, OneCall, TypeOK
  <2>. QED BY <1>5, <2>1, <2>2, <2>3 DEF ReadByte, Inv, OneCall, TypeOK, FlagTrue, Buffer
<1>6. CASE UNCHANGED vars
  BY <1>6 DEF vars, Inv, OneCall, TypeOK, FlagTrue, IsFull
<1>. QED BY <1>1, <1>2, <1>3, <1>4, <1>5, <1>6 DEF Next

\* The invariant holds in every reachable state.
THEOREM FifoInvariant == Spec => []Inv
<1>. QED BY InitInv, NextInv, PTL DEF Spec

\* fullFlag of fifoa.c, set once per call and never cleared, is never set
\* while there is room: no write throws away a byte it had room for.
THEOREM FlagNeverStale == Spec => []FlagTrue
<1>1. Inv => FlagTrue
  BY DEF Inv
<1>. QED BY <1>1, FifoInvariant, PTL

\* The memory, the flag and the sequences have their types.
THEOREM FifoTypeCorrect == Spec => []TypeOK
<1>1. Inv => TypeOK
  BY DEF Inv
<1>. QED BY <1>1, FifoInvariant, PTL

-----------------------------------------------------------------------------
(***************************************************************************)
(* What the runs of cells and the length computed with % say.              *)
(***************************************************************************)
\* A number below twice the modulus loses it at most once.
LEMMA ModOnce ==
  ASSUME NEW n \in Nat \ {0}, NEW x \in Nat, x < n
  PROVE  x % n = x /\ (x + n) % n = x
  BY SMT

\* FIFOA_GetDataSector and FIFOA_GetCurLength describe what a buffer holds.
LEMMA BufferSectors ==
  ASSUME NEW r, Buffer(r)
  PROVE  /\ BothRuns(r.mem, DataSectors(r)) = Held(r)
         /\ CurLength(r) = Length(r)
<1>0. /\ r.len \in Nat /\ r.len >= 2
      /\ r.rd \in Nat /\ r.rd < r.len /\ r.wr \in Nat /\ r.wr < r.len
  BY BufferNumbers
<1>1. /\ Length(r) \in Nat /\ Held(r) \in Seq(Bytes) /\ Len(Held(r)) = Length(r)
      /\ \A k \in 1..Length(r) : Held(r)[k] = r.mem[CellAt(r, k - 1)]
  BY HeldType
<1> DEFINE d == DataSectors(r)
           run1 == Run(r.mem, d.at1, d.len1)
           run2 == Run(r.mem, d.at2, d.len2)
<1>2. /\ d.at1 = r.rd /\ d.len1 \in Nat /\ d.len2 \in Nat
      /\ d.len1 + d.len2 = Length(r)
      /\ \A k \in 1..d.len1 : CellAt(r, k - 1) = d.at1 + k - 1
      /\ \A k \in 1..d.len2 : CellAt(r, d.len1 + k - 1) = d.at2 + k - 1
  <2>1. CASE r.wr >= r.rd
    BY <2>1, <1>0 DEF DataSectors, Length, CellAt
  <2>2. CASE r.wr < r.rd
    BY <2>2, <1>0 DEF DataSectors, Length, CellAt
  <2>. QED BY <2>1, <2>2, <1>0
<1> HIDE DEF d
<1>3. /\ run1 \in Seq(Bytes) /\ Len(run1) = d.len1
      /\ \A k \in 1..d.len1 : run1[k] = Held(r)[k]
  <2>1. \A k \in 1..d.len1 : r.mem[d.at1 + k - 1] = Held(r)[k]
                             /\ Held(r)[k] \in Bytes
    BY <1>1, <1>2
  <2>2. \A k \in 1..d.len1 : r.mem[d.at1 + k - 1] \in Bytes
    BY <2>1
  <2>3. d.len1 \in Nat
    BY <1>2
  <2>4. /\ Run(r.mem, d.at1, d.len1) \in Seq(Bytes)
        /\ Len(Run(r.mem, d.at1, d.len1)) = d.len1
        /\ \A k \in 1..d.len1 : Run(r.mem, d.at1, d.len1)[k] = r.mem[d.at1 + k - 1]
    BY <2>2, <2>3 DEF Run
  <2>. QED BY <2>1, <2>4
<1>4. /\ run2 \in Seq(Bytes) /\ Len(run2) = d.len2
      /\ \A k \in 1..d.len2 : run2[k] = Held(r)[d.len1 + k]
  <2>1. ASSUME NEW k \in 1..d.len2
        PROVE  r.mem[d.at2 + k - 1] = Held(r)[d.len1 + k]
               /\ Held(r)[d.len1 + k] \in Bytes
    <3>1. d.len1 + k \in 1..Length(r)
      BY <1>1, <1>2
    <3>. QED BY <3>1, <1>1, <1>2
  <2>2. \A k \in 1..d.len2 : r.mem[d.at2 + k - 1] \in Bytes
    BY <2>1
  <2>3. d.len2 \in Nat
    BY <1>2
  <2>4. /\ Run(r.mem, d.at2, d.len2) \in Seq(Bytes)
        /\ Len(Run(r.mem, d.at2, d.len2)) = d.len2
        /\ \A k \in 1..d.len2 : Run(r.mem, d.at2, d.len2)[k] = r.mem[d.at2 + k - 1]
    BY <2>2, <2>3 DEF Run
  <2>. QED BY <2>1, <2>4
<1> HIDE DEF run1, run2
<1>5. run1 \o run2 = Held(r)
  <2>1. run1 \o run2 \in Seq(Bytes) /\ Len(run1 \o run2) = Length(r)
    BY <1>2, <1>3, <1>4, ConcatProperties
  <2>2. ASSUME NEW k \in 1..Length(r) PROVE (run1 \o run2)[k] = Held(r)[k]
    <3>1. (run1 \o run2)[k] = IF k <= d.len1 THEN run1[k] ELSE run2[k - d.len1]
      BY <1>2, <1>3, <1>4, ConcatProperties
    <3>2. CASE k <= d.len1
      <4>1. k \in 1..d.len1
        BY <3>2, <1>1, <1>2
      <4>2. run1[k] = Held(r)[k]
        BY <4>1, <1>3
      <4>. QED BY <3>1, <3>2, <4>2
    <3>3. CASE k > d.len1
      <4>1. k - d.len1 \in 1..d.len2 /\ d.len1 + (k - d.len1) = k
        BY <3>3, <1>1, <1>2
      <4>. QED BY <4>1, <3>1, <3>3, <1>2, <1>4
    <3>4. k <= d.len1 \/ k > d.len1
      BY <1>1, <1>2
    <3>. QED BY <3>2, <3>3, <3>4
  <2> DEFINE s == run1 \o run2
             h == Held(r)
  <2>3. /\ s \in Seq(Bytes) /\ Len(s) = Length(r)
        /\ \A k \in 1..Length(r) : s[k] = h[k]
    BY <2>1, <2>2
  <2>4. h \in Seq(Bytes) /\ Len(h) = Length(r)
    BY <1>1
  <2> HIDE DEF s, h
  <2>5. s = h
    BY <2>3, <2>4, SeqEqual
  <2>. QED BY <2>5 DEF s, h
<1>6. CurLength(r) = Length(r)
  <2>1. CASE r.wr >= r.rd
    <3>1. r.wr + r.len - r.rd = (r.wr - r.rd) + r.len
          /\ r.wr - r.rd \in Nat /\ r.wr - r.rd < r.len
      BY <2>1, <1>0
    <3>. QED BY <3>1, <2>1, <1>0, ModOnce DEF CurLength, Length
  <2>2. CASE r.wr < r.rd
    <3>1. r.wr + r.len - r.rd \in Nat /\ r.wr + r.len - r.rd < r.len
      BY <2>2, <1>0
    <3>. QED BY <3>1, <2>2, <1>0, ModOnce DEF CurLength, Length
  <2>. QED BY <2>1, <2>2, <1>0
<1>. QED BY <1>5, <1>6 DEF BothRuns, run1, run2, d

\* The two sectors and the length that trace.c works with are what the buffer
\* holds, oldest byte first, in every reachable state.
THEOREM SectorsAlwaysHold == Spec => []SectorsHold
<1>1. Inv => SectorsHold
  BY BufferSectors DEF Inv, TypeOK, Buffer, SectorsHold
<1>. QED BY <1>1, FifoInvariant, PTL

-----------------------------------------------------------------------------
(***************************************************************************)
(* The loop of FIFOA_ForceWrite and the closed form of a whole call.       *)
(***************************************************************************)
\* The number of the cell c in the order of writing, and the number of the last
\* of n bytes that falls on it (below 0 if none does).
Off(L, w, c) == (c + L - w) % L
Last(L, w, n, c) == Off(L, w, c) + ((n - 1 - Off(L, w, c)) \div L) * L

\* The cell the write pointer moves on to.
After(L, w) == IF w = L - 1 THEN 0 ELSE w + 1

\* A cell's number is the distance from the write pointer.
LEMMA OffIs ==
  ASSUME NEW L \in Nat, L >= 2, NEW w \in Nat, w < L, NEW c \in Nat, c < L
  PROVE  Off(L, w, c) = IF c >= w THEN c - w ELSE c + L - w
<1>1. CASE c >= w
  <2>1. c + L - w = (c - w) + L /\ c - w \in Nat /\ c - w < L
    BY <1>1
  <2> QED
    BY <1>1, <2>1, ModOnce DEF Off
<1>2. CASE c < w
  <2>1. c + L - w \in Nat /\ c + L - w < L
    BY <1>2
  <2> QED
    BY <1>2, <2>1, ModOnce DEF Off
<1> QED
  BY <1>1, <1>2

\* What div and mod of a natural are.
LEMMA QuotientOf ==
  ASSUME NEW L \in Nat, L >= 2, NEW y \in Nat
  PROVE  \E q \in Int, o \in Nat : y = q * L + o /\ o < L
<1>1. y = (y \div L) * L + (y % L)
  BY Z3T(20)
<1>2. y \div L \in Int /\ y % L \in Nat /\ y % L < L
  OBVIOUS
<1> QED
  BY <1>1, <1>2

LEMMA RemainderIs ==
  ASSUME NEW L \in Nat, L >= 2, NEW y \in Int, NEW q \in Int, NEW o \in Nat, o < L,
         y = q * L + o
  PROVE  y % L = o
BY SMTT(30)

LEMMA TurnMore ==
  ASSUME NEW L \in Nat, NEW q \in Int
  PROVE  q * L \in Int /\ (q + 1) * L = q * L + L
BY SMTT(30)

\* A remainder does not see a turn more.
LEMMA ModTurn ==
  ASSUME NEW L \in Nat, L >= 2, NEW y \in Nat
  PROVE  /\ (y + L) % L = y % L
         /\ y < L => y % L = y
<1>1. PICK q \in Int, o \in Nat : y = q * L + o /\ o < L
  BY QuotientOf
<1>2. y + L = (q + 1) * L + o
  <2>1. q * L \in Int /\ (q + 1) * L = q * L + L
    BY <1>1, TurnMore
  <2> QED
    BY <1>1, <2>1
<1>3. y % L = o
  BY <1>1, RemainderIs
<1>4. (y + L) % L = o
  <2>1. PICK t \in Int, p \in Int : t = y + L /\ p = q + 1 /\ t = p * L + o
    BY <1>1, <1>2
  <2>2. t % L = o
    BY <1>1, <2>1, RemainderIs
  <2> QED
    BY <2>1, <2>2
<1>5. y < L => y % L = y
  BY ModOnce
<1> QED
  BY <1>3, <1>4, <1>5

\* A turn less in the quotient.
LEMMA QuotientLess ==
  ASSUME NEW L \in Nat, L >= 2, NEW x \in Nat
  PROVE  /\ x \div L \in Nat
         /\ (x - L) \div L = (x \div L) - 1
BY SMTT(30)

\* A product with one turn less.
LEMMA TurnLess ==
  ASSUME NEW L \in Nat, NEW q \in Int
  PROVE  q * L \in Int /\ (q - 1) * L = q * L - L
BY SMTT(30)

\* Only a multiple of L below L is 0.
LEMMA NoMultiple ==
  ASSUME NEW L \in Nat, L >= 2, NEW q \in Int, NEW o \in Nat, o < L, o + q * L = 0
  PROVE  o = 0
BY SMTT(30)

\* After a turn every cell is one number nearer, and so is the last byte on it.
Turning(L, w, n, c) ==
  /\ L \in Nat /\ L >= 2 /\ w \in Nat /\ w < L
  /\ c \in Nat /\ c < L /\ n \in Nat /\ n >= 1

LEMMA LastTurn ==
  ASSUME NEW L, NEW w, NEW n, NEW c, Turning(L, w, n, c)
  PROVE  /\ Last(L, w, n, c) \in Int
         /\ Last(L, After(L, w), n - 1, c) = Last(L, w, n, c) - 1
         /\ c = w => Last(L, w, n, c) >= 0
         /\ Last(L, w, n, c) = 0 => c = w
<1>9. /\ L \in Nat /\ L >= 2 /\ w \in Nat /\ w < L
      /\ c \in Nat /\ c < L /\ n \in Nat /\ n >= 1
  BY DEF Turning
<1> USE <1>9
<1>0. PICK v \in Nat : v = After(L, w) /\ v = (IF w = L - 1 THEN 0 ELSE w + 1) /\ v < L
  BY DEF After
<1>1. PICK o \in Nat : o = Off(L, w, c) /\ o < L /\ (o = 0 <=> c = w)
  BY OffIs
<1>2. Off(L, v, c) = IF o = 0 THEN L - 1 ELSE o - 1
  BY <1>0, <1>1, OffIs
<1>3. PICK x \in Int : x = n - 1 - o
  BY <1>1
<1>4. PICK q \in Int : q = x \div L
  BY <1>3
<1>5. Last(L, w, n, c) = o + q * L /\ q * L \in Int
  BY <1>1, <1>3, <1>4, TurnLess DEF Last
<1>6. Last(L, v, n - 1, c) = o + q * L - 1
  <2>1. CASE o = 0
    <3>1. x \in Nat /\ (n - 1) - 1 - (L - 1) = x - L
      BY <1>3, <2>1
    <3>2. (x - L) \div L = q - 1
      BY <3>1, <1>4, QuotientLess
    <3>3. Last(L, v, n - 1, c) = (L - 1) + (q - 1) * L
      BY <1>2, <2>1, <3>1, <3>2 DEF Last
    <3> QED
      BY <2>1, <3>3, TurnLess
  <2>2. CASE o # 0
    <3>1. (n - 1) - 1 - (o - 1) = x
      BY <1>1, <1>3
    <3>2. Last(L, v, n - 1, c) = (o - 1) + q * L
      BY <1>2, <2>2, <3>1, <1>4 DEF Last
    <3> QED
      BY <3>2, <1>1, <1>5
  <2> QED
    BY <2>1, <2>2
<1>7. ASSUME c = w PROVE Last(L, w, n, c) >= 0
  <2>1. o = 0 /\ x \in Nat
    BY <1>1, <1>3, <1>7
  <2>2. q \in Nat
    BY <2>1, <1>4, QuotientLess
  <2>3. q * L \in Nat
    BY <2>2
  <2> QED
    BY <2>1, <2>3, <1>5
<1>8. ASSUME Last(L, w, n, c) = 0 PROVE c = w
  BY <1>1, <1>5, <1>8, NoMultiple
<1> QED
  BY <1>0, <1>1, <1>5, <1>6, <1>7, <1>8

\* A quotient is not too large.
LEMMA QuotientBelow ==
  ASSUME NEW L \in Nat, L >= 2, NEW x \in Int, NEW q \in Int, q = x \div L
  PROVE  q * L <= x
BY SMTT(30)

\* The last byte on a cell is one of the n.
LEMMA LastInside ==
  ASSUME NEW L \in Nat, L >= 2, NEW w \in Nat, w < L, NEW c \in Nat, c < L, NEW n \in Nat
  PROVE  Last(L, w, n, c) <= n - 1
<1>1. PICK o \in Nat : o = Off(L, w, c)
  BY OffIs
<1>2. PICK x \in Int : x = n - 1 - o
  BY <1>1
<1>3. PICK q \in Int : q = x \div L
  BY <1>2
<1>4. q * L <= x /\ q * L \in Int
  BY <1>2, <1>3, QuotientBelow, TurnLess
<1>5. Last(L, w, n, c) = o + q * L
  BY <1>1, <1>2, <1>3 DEF Last
<1> QED
  BY <1>1, <1>2, <1>4, <1>5

\* A turn of the loop and what the rest comes to is what the whole comes to.
LEMMA TurnAddsUp ==
  ASSUME NEW r, Buffer(r), NEW src \in Seq(Bytes), src # <<>>,
         NEW f \in BOOLEAN, f <=> IsFull(r)
  PROVE  ForceWrite(PutByte(r, f, Head(src)), Tail(src)) = ForceWrite(r, src)
<1>0. PICK x \in Bytes : x = Head(src)
  BY HeadTailProperties
<1>1. PICK s : s = PutByte(r, f, x)
  OBVIOUS
<1>2. PICK rest : rest = Tail(src)
  OBVIOUS
<1>3. PICK L, w, n, v \in Nat :
        /\ L = r.len /\ w = r.wr /\ n = Len(src) /\ v = CellAfter(r, r.wr)
        /\ L >= 2 /\ w < L /\ n >= 1 /\ v = (IF w = L - 1 THEN 0 ELSE w + 1)
  BY BufferNumbers DEF CellAfter
<1>13. L >= 2 /\ w < L /\ n >= 1 /\ v = (IF w = L - 1 THEN 0 ELSE w + 1)
  BY <1>3
<1>4. /\ x = src[1]
      /\ rest \in Seq(Bytes) /\ Len(rest) = n - 1
      /\ \A k \in 1..(n - 1) : rest[k] = src[k + 1]
  BY <1>0, <1>2, <1>3, HeadTailProperties
<1>5. /\ Buffer(s) /\ s.len = L /\ s.wr = v
      /\ s.mem = [r.mem EXCEPT ![w] = x]
      /\ s.rd = IF f THEN CellAfter(r, r.rd) ELSE r.rd
      /\ Length(s) = IF f THEN Length(r) ELSE Length(r) + 1
  <2> DEFINE t == PutByte(r, f, x)
  <2>1. /\ Buffer(t) /\ t.len = r.len /\ t.mem = [r.mem EXCEPT ![r.wr] = x]
        /\ t.wr = CellAfter(r, r.wr) /\ t.rd = IF f THEN CellAfter(r, r.rd) ELSE r.rd
        /\ Length(t) = IF f THEN Length(r) ELSE Length(r) + 1
    BY PutBuffer
  <2> HIDE DEF t
  <2>2. s = t
    BY <1>1 DEF t
  <2> QED
    BY <1>3, <2>1, <2>2, Zenon
<1>6. CurLength(s) = Length(s) /\ CurLength(r) = Length(r) /\ Length(r) \in Nat
  BY <1>5, BufferSectors, HeldType
<1>7. (v + (n - 1)) % L = (w + n) % L
  <2>1. CASE w = L - 1
    <3>1. v + (n - 1) = n - 1 /\ w + n = (n - 1) + L /\ n - 1 \in Nat
      BY <1>13, <2>1
    <3>2. ((n - 1) + L) % L = (n - 1) % L
      <4>1. PICK y \in Nat : y = n - 1
        BY <3>1
      <4> QED
        BY <4>1, <1>13, ModTurn
    <3> QED
      BY <3>1, <3>2
  <2>2. CASE w # L - 1
    <3>1. v + (n - 1) = w + n
      BY <1>13, <2>2
    <3> QED
      BY <3>1
  <2> QED
    BY <2>1, <2>2
<1>8. PICK z : z = (w + n) % L
  OBVIOUS
<1>12. ForceWrite(PutByte(r, f, Head(src)), Tail(src)) = ForceWrite(s, rest)
  BY <1>0, <1>1, <1>2
<1> DEFINE cells(m, u, k, q) ==
             [c \in DOMAIN m |-> IF c < L /\ Last(L, u, k, c) >= 0
                                 THEN q[Last(L, u, k, c) + 1] ELSE m[c]]
<1>9. /\ ForceWrite(r, src) =
           [mem |-> cells(r.mem, w, n, src), len |-> L,
            rd |-> IF CurLength(r) + n < L THEN r.rd ELSE (z + 1) % L, wr |-> z]
      /\ ForceWrite(s, rest) =
           [mem |-> cells(s.mem, v, n - 1, rest), len |-> L,
            rd |-> IF CurLength(s) + (n - 1) < L THEN s.rd ELSE (z + 1) % L, wr |-> z]
  <2>1. /\ ForceWrite(r, src) =
             [mem |-> cells(r.mem, w, n, src), len |-> L,
              rd |-> IF CurLength(r) + n < L THEN r.rd ELSE (((w + n) % L) + 1) % L,
              wr |-> (w + n) % L]
    BY <1>3, Zenon DEF ForceWrite, Last, Off
  <2>2. /\ ForceWrite(s, rest) =
             [mem |-> cells(s.mem, v, n - 1, rest), len |-> L,
              rd |-> IF CurLength(s) + (n - 1) < L THEN s.rd ELSE (((v + (n - 1)) % L) + 1) % L,
              wr |-> (v + (n - 1)) % L]
    BY <1>4, <1>5, Zenon DEF ForceWrite, Last, Off
  <2> HIDE DEF cells
  <2> QED
    BY <2>1, <2>2, <1>7, <1>8, Zenon
<1>10. cells(s.mem, v, n - 1, rest) = cells(r.mem, w, n, src)
  <2>1. /\ r.mem \in [0..(Size - 1) -> Bytes] /\ DOMAIN s.mem = DOMAIN r.mem
        /\ DOMAIN r.mem = 0..(Size - 1) /\ Size \in Nat
    BY <1>5, BufferNumbers, FifoAssumption DEF Memory
  <2>2. ASSUME NEW c \in DOMAIN r.mem
        PROVE  cells(s.mem, v, n - 1, rest)[c] = cells(r.mem, w, n, src)[c]
    <3>1. c \in Nat /\ w \in DOMAIN r.mem
      BY <2>1, <1>3, BufferNumbers
    <3>2. s.mem[c] = IF c = w THEN src[1] ELSE r.mem[c]
      BY <1>4, <1>5, <2>1, <3>1
    <3>3. CASE c >= L
      BY <3>3, <3>1, <3>2, <2>1, <1>3
    <3>4. CASE c < L
      <4>0. Turning(L, w, n, c) /\ v = After(L, w)
        BY <1>3, <3>1, <3>4 DEF After, Turning
      <4>1. PICK t \in Int : t = Last(L, w, n, c)
        BY <4>0, LastTurn
      <4>2. /\ Last(L, v, n - 1, c) = t - 1
            /\ (c = w => t >= 0) /\ (t = 0 => c = w)
        <5> HIDE DEF cells
        <5>2. /\ Last(L, After(L, w), n - 1, c) = Last(L, w, n, c) - 1
              /\ (c = w => Last(L, w, n, c) >= 0) /\ (Last(L, w, n, c) = 0 => c = w)
          BY <4>0, LastTurn
        <5> QED
          BY <4>0, <5>2, <4>1
      <4>3. /\ cells(s.mem, v, n - 1, rest)[c] = IF t - 1 >= 0 THEN rest[(t - 1) + 1] ELSE s.mem[c]
            /\ cells(r.mem, w, n, src)[c] = IF t >= 0 THEN src[t + 1] ELSE r.mem[c]
        BY <2>1, <3>1, <3>4, <4>1, <4>2
      <4>4. t <= n - 1
        BY <1>13, <3>1, <3>4, <4>1, LastInside
      <4>5. CASE t >= 1
        <5>1. t \in 1..(n - 1) /\ (t - 1) + 1 = t /\ t - 1 >= 0
          BY <4>4, <4>5
        <5>2. rest[t] = src[t + 1]
          BY <5>1, <1>4
        <5> HIDE DEF cells
        <5> QED
          BY <4>3, <4>5, <5>1, <5>2
      <4>6. CASE t = 0
        BY <4>2, <4>3, <4>6, <3>2
      <4>7. CASE t < 0
        BY <4>1, <4>2, <4>3, <4>7, <3>2
      <4> QED
        BY <4>1, <4>5, <4>6, <4>7
    <3> QED
      BY <3>1, <3>3, <3>4, <1>3
  <2> QED
    BY <2>1, <2>2
<1>11. (IF CurLength(s) + (n - 1) < L THEN s.rd ELSE (z + 1) % L)
         = (IF CurLength(r) + n < L THEN r.rd ELSE (z + 1) % L)
  <2>1. f <=> Length(r) = L - 1
    BY <1>3, FullLength
  <2>5. PICK i \in Nat : i = CurLength(r) /\ (f <=> i = L - 1)
    BY <2>1, <1>6
  <2>6. CurLength(s) = IF f THEN i ELSE i + 1
    BY <2>5, <1>5, <1>6
  <2>2. CASE ~f
    <3>1. s.rd = r.rd /\ CurLength(s) = i + 1 /\ (i + 1) + (n - 1) = i + n
      BY <2>2, <2>6, <1>5
    <3> QED
      BY <2>5, <3>1
  <2>3. CASE f /\ n > 1
    <3>1. CurLength(s) = L - 1 /\ i = L - 1 /\ ~((L - 1) + (n - 1) < L) /\ ~((L - 1) + n < L)
      BY <2>3, <2>5, <2>6
    <3> QED
      BY <2>5, <3>1
  <2>4. CASE f /\ n = 1
    <3>1. s.rd = CellAfter(r, r.rd) /\ CurLength(s) + (n - 1) = L - 1
          /\ ~(CurLength(r) + n < L)
      BY <2>4, <2>5, <2>6, <1>5, <1>13
    <3>2. /\ r.rd \in Nat /\ r.rd < L
          /\ r.rd = IF w = L - 1 THEN 0 ELSE w + 1
      BY <2>4, <1>3, BufferNumbers DEF IsFull
    <3>3. z = r.rd
      <4>1. CASE w = L - 1
        <5>1. w + n = 0 + L
          BY <4>1, <2>4, <1>3
        <5>2. (0 + L) % L = 0
          BY <1>13, ModTurn
        <5> QED
          BY <5>1, <5>2, <4>1, <3>2, <1>8
      <4>2. CASE w # L - 1
        <5>1. w + n = r.rd /\ r.rd < L /\ r.rd \in Nat
          BY <4>2, <2>4, <3>2, <1>3
        <5>2. r.rd % L = r.rd
          BY <5>1, <1>3, ModTurn
        <5> QED
          BY <5>1, <5>2, <1>8
      <4> QED
        BY <4>1, <4>2
    <3>4. (z + 1) % L = CellAfter(r, r.rd)
      <4>0. CellAfter(r, r.rd) = IF r.rd = L - 1 THEN 0 ELSE r.rd + 1
        BY <1>3 DEF CellAfter
      <4>1. CASE r.rd = L - 1
        <5>1. z + 1 = 0 + L
          BY <3>3, <4>1
        <5>2. (0 + L) % L = 0
          BY <1>13, ModTurn
        <5> QED
          BY <4>0, <5>1, <5>2, <4>1
      <4>2. CASE r.rd # L - 1
        <5>1. PICK y \in Nat : y = r.rd + 1 /\ y < L
          BY <3>2, <4>2
        <5>2. y % L = y
          BY <5>1, <1>13, ModTurn
        <5> QED
          BY <4>0, <5>1, <5>2, <3>3, <4>2
      <4> QED
        BY <4>1, <4>2
    <3> QED
      BY <3>1, <3>4, <1>3
  <2> QED
    BY <2>2, <2>3, <2>4, <1>3
<1> HIDE DEF cells
<1> QED
  BY <1>9, <1>10, <1>11, <1>12

\* At every turn of its loop, the call comes to what ForceWrite says of its
\* start, the flag that is never cleared included.
THEOREM LoopIsForceWrite == Spec => CallsAddUp
<1> DEFINE Kept == todo # <<>> => ForceWrite(ring', todo') = ForceWrite(ring, todo)
<1>1. Inv /\ [Next]_vars => [Kept]_vars
  <2> SUFFICES ASSUME Inv, Next, todo # <<>>
               PROVE  ForceWrite(ring', todo') = ForceWrite(ring, todo)
    BY DEF vars
  <2>1. WriteByte
    BY DEF Next, SetUp, StartRead, StartWrite, ReadByte, NoCall, Inv, OneCall
  <2>2. /\ Buffer(ring) /\ full' \in BOOLEAN /\ (full' <=> IsFull(ring))
        /\ ring' = PutByte(ring, full', Head(todo))
        /\ todo \in Seq(Bytes) /\ todo # <<>> /\ todo' = Tail(todo)
    BY <2>1, TurnFlag
  <2> QED
    BY <2>2, TurnAddsUp
<1> QED
  BY <1>1, FifoInvariant, PTL DEF Spec, CallsAddUp

-----------------------------------------------------------------------------
(***************************************************************************)
(* The refinement of ByteWindow.                                           *)
(***************************************************************************)
\* The buffer starts as an empty window.
LEMMA InitWindow == Init => Window!Init
<1> SUFFICES ASSUME Init PROVE Window!Init
  OBVIOUS
<1>1. PICK m \in Memory, l \in Lens : ring = Initial(m, l)
  BY DEF Init
<1>2. Held(ring) = <<>> /\ ring.len = l
  BY <1>1, InitialHeld
<1>. QED BY <1>2 DEF Init, Window!Init

\* Every step of the calls is the same step of the window.
LEMMA StepWindow == Inv /\ [Next]_vars => [Window!Next]_(Window!vars)
<1> SUFFICES ASSUME Inv, [Next]_vars PROVE [Window!Next]_(Window!vars)
  OBVIOUS
<1>0. Buffer(ring)
  BY DEF Inv, TypeOK, Buffer
<1>1. ASSUME NEW l \in Lens, SetUp(l) PROVE Window!Next
  <2>1. Held(ring') = <<>> /\ ring'.len = l
    BY <1>1, <1>0, BufferNumbers, InitialHeld DEF SetUp
  <2>2. Window!SetUp(l - 1)
    BY <1>1, <2>1 DEF SetUp, NoCall, Window!SetUp, Window!Idle, Held, Length, CellAt
  <2>. QED BY <2>2 DEF Window!Next
<1>2. ASSUME NEW n \in 1..MaxCall, StartRead(n) PROVE Window!Next
  <2>1. Window!Read(n)
    BY <1>2 DEF StartRead, NoCall, Window!Read, Window!Idle, Held, Length, CellAt
  <2>. QED BY <2>1 DEF Window!Next
<1>3. ASSUME NEW n \in 1..MaxCall, NEW src \in [1..n -> Bytes], StartWrite(src)
      PROVE  Window!Next
  <2>1. Window!Write(src)
    BY <1>3 DEF StartWrite, NoCall, Window!Write, Window!Idle, Held, Length, CellAt
  <2>. QED BY <2>1 DEF Window!Next
<1>4. CASE WriteByte
  <2>1. /\ full' \in BOOLEAN /\ (full' <=> IsFull(ring)) /\ Head(todo) \in Bytes
        /\ ring' = PutByte(ring, full', Head(todo))
        /\ todo # <<>> /\ todo' = Tail(todo) /\ want' = want /\ got' = got
    BY <1>4, TurnFlag
  <2>2. Held(ring') =
          Append(IF Len(Held(ring)) < ring.len - 1 THEN Held(ring)
                 ELSE Tail(Held(ring)), Head(todo))
    BY <2>1, <1>0, PutHeld
  <2>3. ring'.len = ring.len
    BY <2>1 DEF PutByte
  <2>4. Window!Put
    BY <2>1, <2>2, <2>3 DEF Window!Put, Held, Length, CellAt
  <2>. QED BY <2>4 DEF Window!Next
<1>5. CASE ReadByte
  <2>1. CASE ring.rd # ring.wr
    <3> DEFINE s == [ring EXCEPT !.rd = CellAfter(ring, @)]
    <3>1. /\ s.len = ring.len /\ Held(ring) # <<>>
          /\ Head(Held(ring)) = ring.mem[ring.rd] /\ Held(s) = Tail(Held(ring))
      BY <2>1, <1>0, TakeHeld
    <3>2. /\ ring' = s /\ got' = Append(got, ring.mem[ring.rd])
          /\ want > 0 /\ want' = want - 1 /\ todo' = todo
      BY <1>5, <2>1 DEF ReadByte
    <3> HIDE DEF s
    <3>3. Window!Take
      BY <3>1, <3>2 DEF Window!Take, Held, Length, CellAt
    <3>. QED BY <3>3 DEF Window!Next
  <2>2. CASE ring.rd = ring.wr
    <3>1. Held(ring) = <<>>
      <4>1. Length(ring) = 0
        BY <2>2, <1>0, BufferNumbers DEF Length
      <4>. QED BY <4>1, <1>0, HeldType
    <3>2. want > 0 /\ want' = 0 /\ ring' = ring /\ got' = got /\ todo' = todo
      BY <1>5, <2>2 DEF ReadByte
    <3>3. Window!FallShort
      BY <3>1, <3>2 DEF Window!FallShort, Held, Length, CellAt
    <3>. QED BY <3>3 DEF Window!Next
  <2>. QED BY <2>1, <2>2
<1>6. CASE UNCHANGED vars
  BY <1>6 DEF vars, Window!vars, Held, Length, CellAt
<1>. QED BY <1>1, <1>2, <1>3, <1>4, <1>5, <1>6 DEF Next

\* Whatever is written, read and set up, the buffer holds the bytes written
\* last, in order, up to one less than its length, and reads take the oldest.
THEOREM FifoIsWindow == Spec => HoldsLastBytes
<1>. QED BY InitWindow, StepWindow, FifoInvariant, PTL
         DEF Spec, HoldsLastBytes, Window!Spec
=============================================================================
