---------------------------- MODULE FoEReadProofs ----------------------------
(***************************************************************************)
(* Proofs about FoERead, for every set of file sizes, sector size, buffer  *)
(* slack and block size that satisfies ReadAssumption: the read window is  *)
(* always consistent, and the reader implements FileStream.                *)
(***************************************************************************)
EXTENDS FoERead, TLAPS

\* The inductive invariant: NoEarlyEnd needs the arithmetic of the window,
\* and the refinement needs both.
Inv == TypeOK /\ WindowOK /\ NoEarlyEnd /\ (open => size > 0)

\* What ReadFlash leaves in a cell.
LEMMA ReadFlashCells ==
  ASSUME NEW w, NEW at, NEW from, NEW n, NEW c \in Cells
  PROVE  ReadFlash(w, at, from, n)[c] =
            IF c >= at /\ c < at + n THEN from + c - at ELSE w[c]
  BY DEF ReadFlash

\* A read of the flash leaves a window of bytes of the file.
LEMMA ReadFlashType ==
  ASSUME NEW w \in [Cells -> Nat \cup {Clear}], NEW at \in Nat, NEW from \in Nat,
         NEW n \in Nat
  PROVE  ReadFlash(w, at, from, n) \in [Cells -> Nat \cup {Clear}]
  BY ReadAssumption DEF ReadFlash, Cells, BuffSize

\* The amount read on a refill: some of the file, no more than is left, no
\* more than fits behind the cells kept, and all of it or a whole sector.
LEMMA RefillBounds ==
  ASSUME remainder \in Nat, remainder > 0,
         NEW left \in Nat, left <= MaxBlock
  PROVE  /\ RefillSize(left) \in Nat
         /\ 0 < RefillSize(left)
         /\ RefillSize(left) <= remainder
         /\ left + RefillSize(left) <= BuffSize
         /\ RefillSize(left) = remainder \/ RefillSize(left) > MaxBlock
  BY ReadAssumption DEF RefillSize, BuffSize

\* The invariant holds before the first read.
LEMMA InitInv == Init => Inv
<1> SUFFICES ASSUME Init PROVE Inv
  OBVIOUS
<1> USE ReadAssumption DEF Init
<1>1. TypeOK
  <2>1. window \in [Cells -> Nat \cup {Clear}]
    OBVIOUS
  <2>2. size \in Nat /\ readSize \in Nat /\ remainder \in Nat
    OBVIOUS
  <2>3. address \in Nat /\ prevOffset \in Nat /\ offset \in Nat
    OBVIOUS
  <2>4. open \in BOOLEAN
    OBVIOUS
  <2>5. opens \in 0..MaxOpens
    OBVIOUS
  <2>. QED BY <2>1, <2>2, <2>3, <2>4, <2>5 DEF TypeOK
<1>2. WindowOK
  BY DEF WindowOK
<1>3. NoEarlyEnd
  BY DEF NoEarlyEnd
<1>. QED BY <1>1, <1>2, <1>3 DEF Inv

\* Opening a file, FoE_Read, establishes the invariant for it.
LEMMA FirstBlockInv ==
  ASSUME Inv, NEW s \in Sizes, FirstBlock(s)
  PROVE  Inv'
<1> DEFINE n == Least(s, Sector)
<1> USE ReadAssumption
<1>1. s \in Nat /\ n \in Nat /\ n <= s /\ n <= Sector /\ (n = s \/ n > MaxBlock)
  BY DEF Least
<1>2. /\ window' = ReadFlash(window, 0, 0, n)
      /\ readSize' = n /\ remainder' = s - n /\ address' = n
      /\ prevOffset' = 0 /\ size' = s
      /\ offset' = Least(n, MaxBlock)
      /\ open' = (Least(n, MaxBlock) = MaxBlock)
      /\ opens < MaxOpens /\ opens' = opens + 1
  BY <1>1 DEF FirstBlock, Answer, Least
<1>3. TypeOK'
  BY <1>1, <1>2, ReadFlashType DEF Inv, TypeOK, Least
<1>4. WindowOK'
  <2>1. ASSUME NEW p \in 0..(n - 1) PROVE ReadFlash(window, 0, 0, n)[p] = p
    BY <1>1, ReadFlashCells DEF Cells, BuffSize
  <2>. QED BY <1>1, <1>2, <2>1 DEF WindowOK, BuffSize, Least
<1>5. NoEarlyEnd'
  BY <1>1, <1>2 DEF NoEarlyEnd, Least
<1>6. open' => size' > 0
  <2>1. s = 0 => Least(n, MaxBlock) # MaxBlock
    BY <1>1 DEF Least
  <2>2. s # 0 => s > 0
    BY <1>1
  <2>. QED BY <1>2, <2>1, <2>2
<1>. QED BY <1>3, <1>4, <1>5, <1>6 DEF Inv

\* A refill keeps the unread rest and puts the next bytes right behind it.
LEMMA RefillInv ==
  ASSUME Inv, BlockAfterRefill
  PROVE  Inv'
<1> DEFINE left == readSize - offset
           more == RefillSize(left)
           moved == MoveToFront(window, offset - prevOffset, left)
<1> USE ReadAssumption
<1>0. open /\ size > 0
  BY DEF BlockAfterRefill, Inv
<1>1. /\ left \in Nat /\ 0 < left /\ left <= MaxBlock
      /\ remainder \in Nat /\ remainder > 0
  BY DEF Inv, TypeOK, WindowOK, BlockAfterRefill
<1>2. /\ more \in Nat /\ 0 < more /\ more <= remainder
      /\ left + more <= BuffSize
      /\ more = remainder \/ more > MaxBlock
  BY <1>1, RefillBounds
<1> HIDE DEF more
<1>3. /\ window' = ReadFlash(moved, left, address, more)
      /\ remainder' = remainder - more
      /\ readSize' = readSize + more
      /\ address' = address + more
      /\ prevOffset' = offset
      /\ offset' = offset + Least(left + more, MaxBlock)
      /\ open' = (Least(left + more, MaxBlock) = MaxBlock)
      /\ size' = size /\ opens' = opens
  BY DEF BlockAfterRefill, Answer, more
<1>4. /\ moved \in [Cells -> Nat \cup {Clear}]
      /\ \A c \in 0..(left - 1) : moved[c] = offset + c
  <2>0. ASSUME NEW p \in prevOffset..(readSize - 1)
        PROVE  window[p - prevOffset] = p
    BY <1>0 DEF Inv, WindowOK
  <2>1. ASSUME NEW c \in Cells, c < left
        PROVE  /\ offset - prevOffset + c \in Cells
               /\ window[offset - prevOffset + c] = offset + c
    <3>1. offset + c \in prevOffset..(readSize - 1)
      BY <1>0, <1>1, <2>1 DEF Inv, TypeOK, WindowOK, Cells, BuffSize
    <3>2. PICK p \in prevOffset..(readSize - 1) : p = offset + c
      BY <3>1
    <3>3. window[p - prevOffset] = p
      BY <2>0
    <3>5. p - prevOffset = offset - prevOffset + c
      BY <2>1, <3>2 DEF Inv, TypeOK, Cells, BuffSize
    <3>4. offset - prevOffset + c \in Cells
      BY <1>0, <3>1, <2>1 DEF Inv, TypeOK, WindowOK, Cells, BuffSize
    <3>. QED BY <3>2, <3>3, <3>4, <3>5
  <2>2. \A c \in Cells : moved[c] = IF c < left THEN offset + c ELSE Clear
    BY <2>1 DEF MoveToFront
  <2>3. moved \in [Cells -> Nat \cup {Clear}]
    BY <2>1, <1>1 DEF MoveToFront, Inv, TypeOK, Cells, BuffSize
  <2>4. \A c \in 0..(left - 1) : c \in Cells
    BY <1>1, <1>2 DEF Cells, BuffSize
  <2>. QED BY <1>1, <2>2, <2>3, <2>4
<1> HIDE DEF moved
<1>5. TypeOK'
  BY <1>1, <1>2, <1>3, <1>4, ReadFlashType DEF Inv, TypeOK, Least
<1>6. WindowOK'
  <2>1. ASSUME NEW p \in offset..(readSize + more - 1)
        PROVE  window'[p - offset] = p
    <3>1. p - offset \in Cells
      BY <1>1, <1>2, <2>1 DEF Inv, TypeOK, Cells, BuffSize
    <3>2. window'[p - offset] = IF p - offset >= left /\ p - offset < left + more
                                THEN address + (p - offset) - left
                                ELSE moved[p - offset]
      BY <1>3, <3>1, ReadFlashCells
    <3>3. CASE p < readSize
      BY <1>1, <1>4, <2>1, <3>2, <3>3 DEF Inv, TypeOK
    <3>4. CASE p >= readSize
      BY <1>0, <1>1, <1>2, <2>1, <3>2, <3>4 DEF Inv, TypeOK, WindowOK
    <3>. QED BY <2>1, <3>3, <3>4, <1>2 DEF Inv, TypeOK
  <2>. QED BY <1>0, <1>1, <1>2, <1>3, <2>1 DEF Inv, TypeOK, WindowOK, Least
<1>7. NoEarlyEnd'
  BY <1>1, <1>2, <1>3 DEF Inv, TypeOK, NoEarlyEnd, Least
<1>. QED BY <1>0, <1>3, <1>5, <1>6, <1>7 DEF Inv

\* Every step preserves the invariant.
LEMMA NextInv == Inv /\ [Next]_vars => Inv'
<1> SUFFICES ASSUME Inv, [Next]_vars PROVE Inv'
  OBVIOUS
<1> USE ReadAssumption
<1>1. ASSUME NEW s \in Sizes, FirstBlock(s) PROVE Inv'
  BY <1>1, FirstBlockInv
<1>2. CASE EndOfFile
  BY <1>2 DEF EndOfFile, Answer, Inv, TypeOK, WindowOK, NoEarlyEnd
<1>3. CASE BlockFromWindow
  BY <1>3 DEF BlockFromWindow, Answer, Least, Inv, TypeOK, WindowOK, NoEarlyEnd
<1>4. CASE BlockAfterRefill
  BY <1>4, RefillInv
<1>5. CASE RefusedOpen
  <2>1. TypeOK'
    <3>1. /\ opens' \in 0..MaxOpens /\ window' \in [Cells -> Nat \cup {Clear}]
          /\ readSize' \in Nat
      BY <1>5 DEF RefusedOpen, Inv, TypeOK
    <3>2. /\ size' \in Nat /\ remainder' \in Nat /\ address' \in Nat
          /\ prevOffset' \in Nat /\ offset' \in Nat
      BY <1>5 DEF RefusedOpen
    <3>3. open' \in BOOLEAN
      BY <1>5 DEF RefusedOpen
    <3>. QED BY <3>1, <3>2, <3>3 DEF TypeOK
  <2>2. size' = 0 /\ ~open'
    BY <1>5 DEF RefusedOpen
  <2>. QED BY <2>1, <2>2 DEF Inv, WindowOK, NoEarlyEnd
<1>6. CASE UNCHANGED vars
  BY <1>6 DEF vars, Inv, TypeOK, WindowOK, NoEarlyEnd
<1>. QED BY <1>1, <1>2, <1>3, <1>4, <1>5, <1>6 DEF Next, NextBlock

\* The window of a read always holds the bytes from prevReadOffset to readSize.
THEOREM ReadWindowCorrect == Spec => []WindowOK
<1>1. Inv => WindowOK
  BY DEF Inv
<1>. QED BY InitInv, NextInv, <1>1, PTL DEF Spec

\* The end of the window is never mistaken for the end of the file.
THEOREM EndNeverMistaken == Spec => []NoEarlyEnd
<1>1. Inv => NoEarlyEnd
  BY DEF Inv
<1>. QED BY InitInv, NextInv, <1>1, PTL DEF Spec

\* The reader's state is always well typed.
THEOREM ReadTypeCorrect == Spec => []TypeOK
<1>1. Inv => TypeOK
  BY DEF Inv
<1>. QED BY InitInv, NextInv, <1>1, PTL DEF Spec

-----------------------------------------------------------------------------
\* The first block is the one FileStream delivers on opening the file.
LEMMA FirstBlockDelivers ==
  ASSUME Inv, NEW s \in Sizes, FirstBlock(s)
  PROVE  Stream!Open
<1> DEFINE n == Least(s, Sector)
           m == Least(n, MaxBlock)
           w == ReadFlash(window, 0, 0, n)
<1> USE ReadAssumption
<1>1. /\ s \in Nat /\ n \in Nat /\ m \in Nat /\ m <= n /\ n <= Sector
      /\ m = IF s - 0 < MaxBlock THEN s - 0 ELSE MaxBlock
  BY DEF Least
<1>2. \A k \in 1..m : w[0 + k - 1] = 0 + k - 1
  <2> SUFFICES ASSUME NEW k \in 1..m PROVE w[k - 1] = k - 1
    BY <1>1
  <2>1. k - 1 \in Cells /\ k - 1 >= 0 /\ k - 1 < 0 + n
    BY <1>1 DEF Cells, BuffSize
  <2>. QED BY <2>1, <1>1, ReadFlashCells
<1>5. /\ size' = s /\ reply' = CopyOut(w, 0, m) /\ offset' = 0 + m
      /\ open' = (m = MaxBlock)
  BY DEF FirstBlock, Answer
<1> HIDE DEF m, w
<1>3. CopyOut(w, 0, m) = Stream!BlockAt(0, m)
  BY <1>2 DEF CopyOut, Stream!BlockAt
<1>. QED BY <1>1, <1>3, <1>5 DEF Stream!Open, Stream!DeliverFrom

\* Every further block is the next one of FileStream.
LEMMA NextBlockDelivers ==
  ASSUME Inv, NextBlock
  PROVE  Stream!Deliver
<1> USE ReadAssumption
<1> SUFFICES ASSUME NEW n \in Nat,
                    reply' = Stream!BlockAt(offset, n),
                    offset' = offset + n, open' = (n = MaxBlock),
                    open, size' = size,
                    n = IF size - offset < MaxBlock THEN size - offset ELSE MaxBlock
             PROVE  Stream!Deliver
  <2>1. CASE EndOfFile
    <3>1. /\ open /\ size' = size /\ reply' = <<>>
          /\ offset' = offset + 0 /\ open' = (0 = MaxBlock) /\ size - offset = 0
      BY <2>1 DEF EndOfFile, Answer, Inv, TypeOK, WindowOK, NoEarlyEnd
    <3>2. Stream!BlockAt(offset, 0) = <<>>
      BY DEF Stream!BlockAt
    <3>. QED BY <3>1, <3>2
  <2>2. CASE BlockFromWindow
    <3> DEFINE left == readSize - offset
               n == Least(left, MaxBlock)
               cell == offset - prevOffset
    <3>1. /\ left \in Nat /\ n \in Nat /\ cell \in Nat /\ offset \in Nat /\ n <= left
          /\ n = IF size - offset < MaxBlock THEN size - offset ELSE MaxBlock
      BY <2>2 DEF BlockFromWindow, Inv, TypeOK, WindowOK, Least
    <3>2. \A k \in 1..n : window[cell + k - 1] = offset + k - 1
      <4> SUFFICES ASSUME NEW k \in 1..n PROVE window[cell + k - 1] = offset + k - 1
        OBVIOUS
      <4>1. PICK p \in prevOffset..(readSize - 1) : p = offset + k - 1
        BY <2>2, <3>1 DEF BlockFromWindow, Inv, TypeOK, WindowOK
      <4>2. window[p - prevOffset] = p
        BY <2>2 DEF BlockFromWindow, Inv, WindowOK
      <4>3. p - prevOffset = cell + k - 1
        BY <4>1, <3>1 DEF Inv, TypeOK
      <4>. QED BY <4>1, <4>2, <4>3
    <3>4. /\ open /\ size' = size /\ reply' = CopyOut(window, cell, n)
          /\ offset' = offset + n /\ open' = (n = MaxBlock)
      BY <2>2 DEF BlockFromWindow, Answer
    <3> HIDE DEF n, cell
    <3>3. CopyOut(window, cell, n) = Stream!BlockAt(offset, n)
      BY <3>2 DEF CopyOut, Stream!BlockAt
    <3>. QED BY <3>1, <3>3, <3>4
  <2>3. CASE BlockAfterRefill
    <3> DEFINE left == readSize - offset
               more == RefillSize(left)
               n == Least(left + more, MaxBlock)
    <3>1. /\ left \in Nat /\ left <= MaxBlock /\ remainder \in Nat /\ remainder > 0
          /\ offset \in Nat /\ size - offset = left + remainder
      BY <2>3 DEF BlockAfterRefill, Inv, TypeOK, WindowOK
    <3>2. /\ more \in Nat /\ more <= remainder /\ left + more <= BuffSize
          /\ more = remainder \/ more > MaxBlock
      BY <3>1, RefillBounds
    <3> HIDE DEF more
    <3>3. /\ n \in Nat /\ n <= left + more
          /\ n = IF size - offset < MaxBlock THEN size - offset ELSE MaxBlock
      BY <3>1, <3>2 DEF Least
    <3>4. /\ open /\ size' = size /\ reply' = CopyOut(window', 0, n)
          /\ offset' = offset + n /\ open' = (n = MaxBlock)
          /\ prevOffset' = offset /\ readSize' = readSize + more
      BY <2>3 DEF BlockAfterRefill, Answer, more
    <3>5. ASSUME NEW p \in offset..(readSize + more - 1)
          PROVE  window'[p - offset] = p
      <4>1. WindowOK'
        BY <2>3, RefillInv DEF Inv
      <4>2. \A q \in prevOffset'..(readSize' - 1) : window'[q - prevOffset'] = q
        BY <2>3, <4>1 DEF BlockAfterRefill, WindowOK, Inv
      <4>5. prevOffset' = offset /\ readSize' = readSize + more
        BY <3>4
      <4>3. p \in prevOffset'..(readSize' - 1)
        BY <4>5, <3>1, <3>2 DEF Inv, TypeOK
      <4>4. window'[p - prevOffset'] = p
        BY <4>2, <4>3
      <4>. QED BY <4>4, <4>5
    <3>6. \A k \in 1..n : window'[0 + k - 1] = offset + k - 1
      <4> SUFFICES ASSUME NEW k \in 1..n PROVE window'[0 + k - 1] = offset + k - 1
        OBVIOUS
      <4>1. PICK p \in offset..(readSize + more - 1) : p = offset + k - 1
        BY <3>1, <3>2, <3>3 DEF Inv, TypeOK
      <4>2. window'[p - offset] = p
        BY <3>5
      <4>3. p - offset = 0 + k - 1
        BY <4>1, <3>1, <3>3
      <4>. QED BY <4>1, <4>2, <4>3
    <3> HIDE DEF n
    <3>7. CopyOut(window', 0, n) = Stream!BlockAt(offset, n)
      BY <3>6 DEF CopyOut, Stream!BlockAt
    <3>. QED BY <3>3, <3>4, <3>7
  <2>. QED BY <2>1, <2>2, <2>3 DEF NextBlock
<1>. QED BY DEF Stream!Deliver, Stream!DeliverFrom

\* A read over FoE delivers exactly the stream of the file's bytes: each
\* behaviour of the reader is one of FileStream.
THEOREM ReadImplementsStream == Spec => DeliversFile
<1>1. Init => Stream!Init
  BY DEF Init, Stream!Init
<1>2. Inv /\ [Next]_vars => [Stream!Next]_Stream!vars
  <2> SUFFICES ASSUME Inv, [Next]_vars PROVE [Stream!Next]_Stream!vars
    OBVIOUS
  <2>1. CASE UNCHANGED vars
    BY <2>1 DEF vars, Stream!vars
  <2>2. CASE NextBlock
    BY <2>2, NextBlockDelivers DEF Stream!Next
  <2>3. ASSUME NEW s \in Sizes, FirstBlock(s) PROVE Stream!Next
    BY <2>3, FirstBlockDelivers DEF Stream!Next
  <2>4. CASE RefusedOpen
    BY <2>4 DEF RefusedOpen, Stream!Next, Stream!Refuse
  <2>. QED BY <2>1, <2>2, <2>3, <2>4 DEF Next
<1>. QED BY InitInv, NextInv, <1>1, <1>2, PTL DEF Spec, DeliversFile, Stream!Spec
=============================================================================
