---------------------------- MODULE DebugPProofs ----------------------------
(***************************************************************************)
(* Proofs about DebugP, for any memory, values, ids and any number of      *)
(* requests, copies and lost answers: on a good line no command is made up *)
(* from parts of frames, and what the client was told is true.             *)
(***************************************************************************)
EXTENDS DebugP, SequenceTheorems, TLAPS

Byte8 == 0..255

-----------------------------------------------------------------------------
(***************************************************************************)
(* Types.                                                                  *)
(***************************************************************************)
LineOK == line \in Seq(Byte8) /\ Len(line) <= MaxLine

ScanOK ==
  /\ scan \in [status : {"init", "head1", "head2", "len", "body"},
               len : 0..(Capacity + 3), bytes : Seq(Byte8)]
  /\ scan.status = "body" => scan.len > 2

RxOK == rx \in [id : Nat, len : 0..Capacity, buff : [1..Capacity -> Byte8]]

MemOK == mem \in [Addresses -> Byte8] /\ expected \in [Addresses -> Values]

\* The client has a request from the first one on.
ClientOK ==
  /\ client \in [phase : {"idle", "waiting"}, number : 0..MaxRequests,
                 body : Bodies \cup {<<>>}, before : Bodies \cup {<<>>},
                 check : Checks \cup {0}, value : Byte8]
  /\ client.phase = "waiting" => client.number > 0
  /\ client.number > 0 => client.body \in Bodies /\ client.check \in Checks
  /\ client.number = 0 => client.body = <<>>

FlagsOK ==
  got \in BOOLEAN /\ overrun \in BOOLEAN /\ faults \in [count : 0..MaxFaults, damaged : BOOLEAN]

TInv == LineOK /\ ScanOK /\ RxOK /\ MemOK /\ ClientOK /\ FlagsOK

\* A body is a command, an address and, for a write, a value.
LEMMA BodyIs ==
  ASSUME NEW body \in Bodies
  PROVE  /\ body \in Seq(Byte8) /\ body # <<>>
         /\ Len(body) \in {2, 3} /\ body[1] \in {RamRead, RamWrite} /\ body[2] \in Addresses
         /\ body[1] = RamWrite => Len(body) = 3
         /\ Len(body) = 3 => body[1] = RamWrite /\ body[3] \in Values
<1> DEFINE Is(b) == /\ b \in Seq(Byte8) /\ b # <<>>
                    /\ Len(b) \in {2, 3} /\ b[1] \in {RamRead, RamWrite} /\ b[2] \in Addresses
                    /\ b[1] = RamWrite => Len(b) = 3
                    /\ Len(b) = 3 => b[1] = RamWrite /\ b[3] \in Values
<1>1. ASSUME NEW a \in Addresses
      PROVE  Is(<<RamRead, a>>)
  BY DebugPAssumption DEF RamRead, RamWrite, Byte8
<1>2. ASSUME NEW a \in Addresses, NEW v \in Values
      PROVE  Is(<<RamWrite, a, v>>)
  BY DebugPAssumption DEF RamRead, RamWrite, Byte8
<1>3. \/ \E a \in Addresses : body = <<RamRead, a>>
      \/ \E a \in Addresses, v \in Values : body = <<RamWrite, a, v>>
  BY DEF Bodies
<1> HIDE DEF Is
<1>4. Is(body)
  BY <1>1, <1>2, <1>3
<1> QED
  BY <1>4 DEF Is

\* The bytes of a frame, one for each place.
LEMMA FrameIsSeq ==
  ASSUME NEW n \in Nat, NEW body \in Bodies, NEW check \in Checks
  PROVE  LET f == FrameOf(n, body, check)
         IN  /\ f \in Seq(Byte8) /\ Len(f) = Len(body) + 6
             /\ f[1] = Head1 /\ f[2] = Head2 /\ f[3] = Len(body) + 3
             /\ f[4] = Ids[n % 2] /\ f[5] = 0
             /\ \A p \in 6..(Len(body) + 5) : f[p] = body[p - 5]
             /\ f[Len(body) + 6] = check
<1>1. Ids[n % 2] \in Byte8 /\ check \in Byte8
  BY DebugPAssumption DEF Byte8
<1>2. body \in Seq(Byte8) /\ Len(body) \in {2, 3} /\ Len(body) + 3 \in Byte8
  <2>1. body \in Seq(Byte8) /\ Len(body) \in {2, 3}
    BY BodyIs
  <2>2. PICK k : k = Len(body)
    OBVIOUS
  <2>3. k = 2 \/ k = 3
    BY <2>1, <2>2
  <2>4. k + 3 \in Byte8
    BY <2>3 DEF Byte8
  <2> QED
    BY <2>1, <2>2, <2>4
<1>3. PICK h : h = <<Head1, Head2, Len(body) + 3, Ids[n % 2], 0>>
  OBVIOUS
<1>4. /\ h \in Seq(Byte8) /\ Len(h) = 5
      /\ h[1] = Head1 /\ h[2] = Head2 /\ h[3] = Len(body) + 3 /\ h[4] = Ids[n % 2] /\ h[5] = 0
  BY <1>1, <1>2, <1>3 DEF Head1, Head2, Byte8
<1>5. PICK c : c = <<check>>
  OBVIOUS
<1>6. c \in Seq(Byte8) /\ Len(c) = 1 /\ c[1] = check
  BY <1>1, <1>5
<1>7. PICK g : g = h \o body
  OBVIOUS
<1>8. /\ g \in Seq(Byte8) /\ Len(g) = 5 + Len(body)
      /\ \A p \in 1..(5 + Len(body)) : g[p] = IF p <= 5 THEN h[p] ELSE body[p - 5]
  <2>1. h \in Seq(Byte8) /\ body \in Seq(Byte8) /\ Len(h) = 5
    BY <1>2, <1>4
  <2>2. /\ h \o body \in Seq(Byte8) /\ Len(h \o body) = Len(h) + Len(body)
        /\ \A p \in 1..(Len(h) + Len(body)) :
             (h \o body)[p] = IF p <= Len(h) THEN h[p] ELSE body[p - Len(h)]
    BY <2>1, ConcatProperties
  <2> QED
    BY <2>1, <2>2, <1>7
<1>9. PICK f : f = g \o c
  OBVIOUS
<1>10. /\ f \in Seq(Byte8) /\ Len(f) = (5 + Len(body)) + 1
       /\ \A p \in 1..((5 + Len(body)) + 1) :
            f[p] = IF p <= 5 + Len(body) THEN g[p] ELSE c[p - (5 + Len(body))]
  BY <1>6, <1>8, <1>9, ConcatProperties
<1>11. f = FrameOf(n, body, check)
  BY <1>3, <1>5, <1>7, <1>9 DEF FrameOf
<1>12. f[Len(body) + 6] = check
  <2>1. Len(body) + 6 \in 1..((5 + Len(body)) + 1) /\ ~(Len(body) + 6 <= 5 + Len(body))
        /\ (Len(body) + 6) - (5 + Len(body)) = 1
    BY <1>2
  <2> QED
    BY <2>1, <1>6, <1>10
<1>13. ASSUME NEW p \in 1..(5 + Len(body))
       PROVE  f[p] = IF p <= 5 THEN h[p] ELSE body[p - 5]
  <2>1. p \in 1..((5 + Len(body)) + 1) /\ p <= 5 + Len(body)
    BY <1>2
  <2> QED
    BY <2>1, <1>8, <1>10
<1>14. /\ f[1] = h[1] /\ f[2] = h[2] /\ f[3] = h[3] /\ f[4] = h[4] /\ f[5] = h[5]
       /\ \A p \in 6..(Len(body) + 5) : f[p] = body[p - 5]
  BY <1>2, <1>13
<1> QED
  BY <1>2, <1>4, <1>10, <1>11, <1>12, <1>14

\* A line with a byte lost or damaged is a line.
LEMMA DamagedLine ==
  ASSUME NEW l \in Seq(Byte8), NEW k \in 1..Len(l), NEW b \in Byte8
  PROVE  /\ RemoveAt(l, k) \in Seq(Byte8) /\ Len(RemoveAt(l, k)) <= Len(l)
         /\ ReplaceAt(l, k, b) \in Seq(Byte8) /\ Len(ReplaceAt(l, k, b)) = Len(l)
<1>1. k \in Nat /\ k >= 1 /\ k <= Len(l) /\ Len(l) \in Nat
  BY LenProperties
<1>2. \A i \in 1..(k - 1) : l[i] \in Byte8
  BY <1>1, ElementOfSeq
<1>3. \A i \in (k + 1)..Len(l) : l[i] \in Byte8
  BY <1>1, ElementOfSeq
<1>4. /\ SubSeq(l, 1, k - 1) \in Seq(Byte8) /\ Len(SubSeq(l, 1, k - 1)) = k - 1
  BY <1>1, <1>2, SubSeqProperties
<1>5. /\ SubSeq(l, k + 1, Len(l)) \in Seq(Byte8)
      /\ Len(SubSeq(l, k + 1, Len(l))) = Len(l) - k
  BY <1>1, <1>3, SubSeqProperties
<1>6. RemoveAt(l, k) \in Seq(Byte8) /\ Len(RemoveAt(l, k)) = (k - 1) + (Len(l) - k)
  BY <1>4, <1>5, ConcatProperties DEF RemoveAt
<1>7. ReplaceAt(l, k, b) \in Seq(Byte8) /\ Len(ReplaceAt(l, k, b)) = Len(l)
  BY ExceptSeq DEF ReplaceAt
<1> QED
  BY <1>1, <1>6, <1>7

\* The head of the line is a byte, and the rest of it a line.
LEMMA ScanLine ==
  ASSUME TInv, ScanByte
  PROVE  /\ line # <<>> /\ ~overrun /\ Head(line) \in Byte8 /\ Tail(line) \in Seq(Byte8)
         /\ Len(Tail(line)) = Len(line) - 1 /\ LineOK'
<1>1. line # <<>> /\ ~overrun
  BY DEF ScanByte, ScanInit, ScanHead1, ScanHead2, ScanLen, ScanBody, FrameComplete, Awaiting
<1>2. line \in Seq(Byte8) /\ Len(line) <= MaxLine /\ Len(line) \in Nat
  BY LenProperties DEF TInv, LineOK
<1>3. Head(line) \in Byte8 /\ Tail(line) \in Seq(Byte8) /\ Len(Tail(line)) = Len(line) - 1
  BY <1>1, <1>2, HeadTailProperties
<1>4. line' = Tail(line)
  BY DEF ScanByte
<1>5. Len(Tail(line)) <= MaxLine
  BY <1>2, <1>3, DebugPAssumption
<1> QED
  BY <1>1, <1>3, <1>4, <1>5 DEF LineOK

\* A frame that is complete is copied byte by byte.
LEMMA UnpackIs ==
  ASSUME TInv, FrameComplete, ScanByte
  PROVE  \E bytes \in Seq(Byte8) :
           /\ bytes = Append(scan.bytes, Head(line)) /\ Len(bytes) = Len(scan.bytes) + 1
           /\ Len(bytes) >= scan.len /\ scan.len \in 3..(Capacity + 3)
           /\ rx' \in [id : Nat, len : 0..Capacity, buff : [1..Capacity -> Byte8]]
           /\ rx'.id = bytes[1] + 256 * bytes[2] /\ rx'.len = scan.len - 3
           /\ \A i \in 1..Capacity : i <= scan.len - 3 => rx'.buff[i] = bytes[i + 2]
<1>1. scan.bytes \in Seq(Byte8) /\ scan.len \in 0..(Capacity + 3) /\ scan.len > 2
  BY DEF TInv, ScanOK, FrameComplete, Awaiting
<1>2. Head(line) \in Byte8
  BY ScanLine
<1>3. PICK bytes : bytes = Append(scan.bytes, Head(line))
  OBVIOUS
<1>4. bytes \in Seq(Byte8) /\ Len(bytes) = Len(scan.bytes) + 1
  BY <1>1, <1>2, <1>3, AppendProperties
<1>5. PICK n : n = scan.len
  OBVIOUS
<1>6. n \in 3..(Capacity + 3) /\ Len(bytes) \in Nat /\ Len(bytes) >= n /\ Capacity \in Nat
  <2>1. Len(scan.bytes) + 1 >= n
    BY <1>5 DEF FrameComplete
  <2> QED
    BY <2>1, <1>1, <1>4, <1>5, DebugPAssumption, LenProperties
<1>7. ASSUME NEW k \in 1..n
      PROVE  bytes[k] \in Byte8
  <2>1. k \in 1..Len(bytes)
    BY <1>6
  <2> QED
    BY <2>1, <1>4, ElementOfSeq
<1>8. rx' = [id |-> bytes[1] + 256 * bytes[2], len |-> n - 3,
             buff |-> [i \in 1..Capacity |-> IF i <= n - 3 THEN bytes[i + 2] ELSE rx.buff[i]]]
  BY <1>3, <1>5 DEF FrameComplete, Unpack
<1>9. bytes[1] + 256 * bytes[2] \in Nat
  <2>1. bytes[1] \in Byte8 /\ bytes[2] \in Byte8
    BY <1>6, <1>7
  <2>2. \A x, y \in Byte8 : x + 256 * y \in Nat
    BY DEF Byte8
  <2> QED
    BY <2>1, <2>2
<1>10. ASSUME NEW i \in 1..Capacity
       PROVE  (IF i <= n - 3 THEN bytes[i + 2] ELSE rx.buff[i]) \in Byte8
  <2>1. rx.buff[i] \in Byte8
    BY DEF TInv, RxOK
  <2>2. i <= n - 3 => i + 2 \in 1..n
    BY <1>6
  <2> QED
    BY <2>1, <2>2, <1>7
<1>11. n - 3 \in 0..Capacity
  BY <1>6
<1>12. rx' \in [id : Nat, len : 0..Capacity, buff : [1..Capacity -> Byte8]]
  BY <1>8, <1>9, <1>10, <1>11
<1> QED
  BY <1>3, <1>4, <1>5, <1>6, <1>8, <1>12

\* Every turn of the parser keeps its state a state.
LEMMA ScanTypes ==
  ASSUME TInv, ScanByte
  PROVE  TInv'
<1>1. LineOK'
  BY ScanLine
<1>2. MemOK' /\ ClientOK'
  BY DEF TInv, MemOK, ClientOK, ScanByte
<1>3. /\ scan = [status |-> scan.status, len |-> scan.len, bytes |-> scan.bytes]
      /\ scan.len \in 0..(Capacity + 3) /\ scan.bytes \in Seq(Byte8)
      /\ Capacity \in Nat /\ Head(line) \in Byte8
  BY ScanLine, DebugPAssumption DEF TInv, ScanOK
<1>4. ScanOK'
  <2>1. CASE ScanInit \/ ScanHead1
    <3>1. PICK s \in {"head1", "head2"} : scan' = [scan EXCEPT !.status = s]
      BY <2>1 DEF ScanInit, ScanHead1, ScanTo
    <3> QED
      BY <3>1, <1>3 DEF ScanOK
  <2>2. CASE ScanHead2
    <3>1. \/ scan' = [status |-> "len", len |-> 0, bytes |-> <<>>]
          \/ scan' = [scan EXCEPT !.status = "head1"]
      BY <2>2 DEF ScanHead2, ScanTo, AfterHead2
    <3>2. <<>> \in Seq(Byte8) /\ 0 \in 0..(Capacity + 3)
      BY <1>3, EmptySeq
    <3>3. CASE scan' = [status |-> "len", len |-> 0, bytes |-> <<>>]
      BY <3>2, <3>3 DEF ScanOK
    <3>4. CASE scan' = [scan EXCEPT !.status = "head1"]
      BY <3>4, <1>3 DEF ScanOK
    <3> QED
      BY <3>1, <3>3, <3>4
  <2>3. CASE ScanLen
    <3>1. \/ scan' = [scan EXCEPT !.status = "head1"]
          \/ scan' = scan /\ scan.status = "len"
          \/ /\ Head(line) > 2 /\ Head(line) <= Capacity + 3
             /\ scan' = [scan EXCEPT !.status = "body", !.len = Head(line)]
      BY <2>3 DEF ScanLen, ScanTo, LegalLength, Awaiting
    <3>2. \A h \in Byte8 : h > 2 /\ h <= Capacity + 3 => h \in 0..(Capacity + 3)
      BY DebugPAssumption DEF Byte8
    <3>3. CASE scan' = [scan EXCEPT !.status = "head1"]
      BY <3>3, <1>3 DEF ScanOK
    <3>4. CASE scan' = scan /\ scan.status = "len"
      <4>1. scan.status # "body" /\ ScanOK
        BY <3>4 DEF TInv
      <4> QED
        BY <3>4, <4>1 DEF ScanOK
    <3>5. CASE /\ Head(line) > 2 /\ Head(line) <= Capacity + 3
               /\ scan' = [scan EXCEPT !.status = "body", !.len = Head(line)]
      <4>1. scan' = [status |-> "body", len |-> Head(line), bytes |-> scan.bytes]
        BY <3>5, <1>3
      <4> QED
        <5>1. Head(line) \in 0..(Capacity + 3)
          BY <3>2, <3>5, <1>3
        <5> QED
          BY <4>1, <5>1, <3>5, <1>3 DEF ScanOK
    <3> QED
      BY <3>1, <3>3, <3>4, <3>5
  <2>4. CASE ScanBody
    <3>1. scan' = [status |-> "body", len |-> scan.len, bytes |-> Append(scan.bytes, Head(line))]
      BY <2>4, <1>3 DEF ScanBody, ScanTo, Awaiting
    <3>2. Append(scan.bytes, Head(line)) \in Seq(Byte8) /\ scan.len > 2
      BY <2>4, <1>3, AppendProperties DEF ScanBody, Awaiting, TInv, ScanOK
    <3> QED
      BY <3>1, <3>2, <1>3 DEF ScanOK
  <2>5. CASE FrameComplete
    <3>1. scan' = [status |-> "head1", len |-> 0, bytes |-> scan.bytes]
      BY <2>5, <1>3 DEF FrameComplete
    <3> QED
      BY <3>1, <1>3 DEF ScanOK
  <2> QED
    BY <2>1, <2>2, <2>3, <2>4, <2>5 DEF ScanByte
<1>5. RxOK' /\ FlagsOK'
  <2>1. CASE FrameComplete
    <3>1. RxOK'
      BY <2>1, UnpackIs DEF RxOK
    <3> QED
      BY <3>1, <2>1 DEF FrameComplete, ScanByte, TInv, FlagsOK
  <2>2. CASE ~FrameComplete
    <3>1. rx' = rx /\ got' = got /\ overrun' \in {overrun, TRUE} /\ faults' = faults
      BY <2>2 DEF ScanByte, ScanInit, ScanHead1, ScanHead2, ScanLen, ScanBody, ScanTo
    <3> QED
      BY <3>1 DEF TInv, RxOK, FlagsOK
  <2> QED
    BY <2>1, <2>2
<1> QED
  BY <1>1, <1>2, <1>4, <1>5 DEF TInv

\* A frame of the client put on the line.
LEMMA SendTypes ==
  ASSUME LineOK, NEW n \in Nat, NEW body \in Bodies, NEW check \in Checks,
         Len(line) + Len(FrameOf(n, body, check)) <= MaxLine,
         line' = line \o FrameOf(n, body, check)
  PROVE  LineOK'
<1>1. PICK f : f = FrameOf(n, body, check)
  OBVIOUS
<1>2. f \in Seq(Byte8) /\ line \in Seq(Byte8)
  BY <1>1, FrameIsSeq DEF LineOK
<1>3. line \o f \in Seq(Byte8) /\ Len(line \o f) = Len(line) + Len(f)
  BY <1>2, ConcatProperties
<1> QED
  BY <1>1, <1>3 DEF LineOK

LEMMA DamageTypes ==
  ASSUME LineOK, Damage
  PROVE  LineOK'
<1>1. PICK k \in 1..Len(line) :
        line' \in {RemoveAt(line, k)} \cup {ReplaceAt(line, k, b) : b \in Noise}
  BY DEF Damage
<1>2. line \in Seq(Byte8) /\ Len(line) <= MaxLine /\ Len(line) \in Nat /\ MaxLine \in Nat
  BY LenProperties, DebugPAssumption DEF LineOK
<1>3. \A b \in Noise : b \in Byte8
  BY DebugPAssumption DEF Byte8
<1>4. 0 \in Byte8
  BY DEF Byte8
<1>5. \/ line' = RemoveAt(line, k)
      \/ \E b \in Noise : line' = ReplaceAt(line, k, b)
  BY <1>1
<1>6. CASE line' = RemoveAt(line, k)
  <2>1. /\ RemoveAt(line, k) \in Seq(Byte8) /\ Len(RemoveAt(line, k)) <= Len(line)
        /\ Len(RemoveAt(line, k)) \in Nat
    BY <1>2, <1>4, DamagedLine, LenProperties
  <2> QED
    BY <1>2, <1>6, <2>1 DEF LineOK
<1>7. ASSUME NEW b \in Noise, line' = ReplaceAt(line, k, b)
      PROVE  LineOK'
  <2>1. ReplaceAt(line, k, b) \in Seq(Byte8) /\ Len(ReplaceAt(line, k, b)) = Len(line)
    BY <1>2, <1>3, DamagedLine
  <2> QED
    BY <1>2, <1>7, <2>1 DEF LineOK
<1> QED
  BY <1>5, <1>6, <1>7

\* What the handled frame does to the memory, and the answer to the client.
LEMMA HandleTypes ==
  ASSUME TInv, HandleFrame
  PROVE  TInv'
<1>1. /\ rx.buff \in [1..Capacity -> Byte8] /\ rx.buff[2] \in Byte8 /\ rx.buff[3] \in Byte8
  BY DebugPAssumption DEF TInv, RxOK
<1>2. mem' \in [Addresses -> Byte8]
  BY <1>1 DEF HandleFrame, Execute, TInv, MemOK
<1>3. Byte(rx.buff[2]) \in Byte8
  <2>1. 0 \in Byte8
    BY DEF Byte8
  <2> QED
    BY <2>1 DEF Byte, TInv, MemOK
<1>4. ASSUME Receive
      PROVE  expected' \in [Addresses -> Values] /\ ClientOK'
  <2>1. CASE Answered
    <3>1. /\ client' = [client EXCEPT !.phase = "idle", !.value = Byte(rx.buff[2])]
          /\ expected' = IF client.body[1] = RamWrite
                         THEN [expected EXCEPT ![client.body[2]] = client.body[3]]
                         ELSE expected
      BY <1>4, <2>1 DEF Receive
    <3>2. client.body \in Bodies
      BY <2>1 DEF Answered, TInv, ClientOK
    <3>3. client.body[2] \in Addresses /\ (client.body[1] = RamWrite => client.body[3] \in Values)
      BY <3>2, BodyIs
    <3>4. expected' \in [Addresses -> Values]
      BY <3>1, <3>3 DEF TInv, MemOK
    <3>5. client' = [phase |-> "idle", number |-> client.number, body |-> client.body,
                     before |-> client.before, check |-> client.check, value |-> Byte(rx.buff[2])]
      BY <3>1 DEF TInv, ClientOK
    <3>6. ClientOK'
      BY <1>3, <3>5 DEF TInv, ClientOK
    <3> QED
      BY <3>4, <3>6
  <2>2. CASE ~Answered
    BY <1>4, <2>2 DEF Receive, TInv, MemOK, ClientOK
  <2> QED
    BY <2>1, <2>2
<1>5. ASSUME UNCHANGED <<client, expected>>
      PROVE  expected' \in [Addresses -> Values] /\ ClientOK'
  BY <1>5 DEF TInv, MemOK, ClientOK
<1>6. expected' \in [Addresses -> Values] /\ ClientOK'
  BY <1>4, <1>5 DEF HandleFrame, TInv, MemOK
<1>7. FlagsOK'
  <2>1. faults' = faults \/ (/\ faults.count < MaxFaults
                             /\ faults' = [faults EXCEPT !.count = @ + 1])
    BY DEF HandleFrame
  <2>2. faults' \in [count : 0..MaxFaults, damaged : BOOLEAN]
    BY <2>1, DebugPAssumption DEF TInv, FlagsOK
  <2> QED
    BY <2>2 DEF TInv, FlagsOK, HandleFrame
<1>8. LineOK' /\ ScanOK' /\ RxOK'
  BY DEF HandleFrame, TInv, LineOK, ScanOK, RxOK
<1> QED
  BY <1>2, <1>6, <1>7, <1>8 DEF TInv, MemOK

LEMMA TInvStep ==
  ASSUME TInv, [Next]_vars
  PROVE  TInv'
<1>1. CASE Request
  <2>1. PICK body \in Bodies, check \in Checks :
          /\ Len(line) + Len(FrameOf(client.number + 1, body, check)) <= MaxLine
          /\ line' = line \o FrameOf(client.number + 1, body, check)
          /\ client' = [client EXCEPT !.phase = "waiting", !.number = @ + 1, !.body = body,
                                      !.before = client.body, !.check = check]
    BY <1>1 DEF Request
  <2>2. /\ client.number + 1 \in Nat /\ client.number + 1 \in 0..MaxRequests
        /\ client.number + 1 > 0
    BY <1>1, DebugPAssumption DEF Request, TInv, ClientOK
  <2>3. LineOK'
    BY <2>1, <2>2, SendTypes DEF TInv
  <2>4. client' = [phase |-> "waiting", number |-> client.number + 1, body |-> body,
                   before |-> client.body, check |-> check, value |-> client.value]
    BY <2>1 DEF TInv, ClientOK
  <2>5. ClientOK'
    BY <2>2, <2>4 DEF TInv, ClientOK
  <2>6. ScanOK' /\ RxOK' /\ MemOK' /\ FlagsOK'
    BY <1>1 DEF Request, TInv, ScanOK, RxOK, MemOK, FlagsOK
  <2> QED
    BY <2>3, <2>5, <2>6 DEF TInv
<1>2. CASE Resend
  <2>1. client.number \in Nat /\ client.body \in Bodies /\ client.check \in Checks
    BY <1>2 DEF Resend, TInv, ClientOK
  <2>2. LineOK'
    BY <1>2, <2>1, SendTypes DEF Resend, TInv
  <2>3. ScanOK' /\ RxOK' /\ MemOK' /\ ClientOK' /\ FlagsOK'
    BY <1>2 DEF Resend, TInv, ScanOK, RxOK, MemOK, ClientOK, FlagsOK
  <2> QED
    BY <2>2, <2>3 DEF TInv
<1>3. CASE Damage
  <2>1. LineOK'
    BY <1>3, DamageTypes DEF TInv
  <2>2. faults' \in [count : 0..MaxFaults, damaged : BOOLEAN]
    BY <1>3, DebugPAssumption DEF Damage, TInv, FlagsOK
  <2>3. ScanOK' /\ RxOK' /\ MemOK' /\ ClientOK'
    BY <1>3 DEF Damage, TInv, ScanOK, RxOK, MemOK, ClientOK
  <2>4. FlagsOK'
    BY <1>3, <2>2 DEF Damage, TInv, FlagsOK
  <2> QED
    BY <2>1, <2>3, <2>4 DEF TInv
<1>4. CASE UNCHANGED vars
  BY <1>4 DEF vars, TInv, LineOK, ScanOK, RxOK, MemOK, ClientOK, FlagsOK
<1> QED
  BY <1>1, <1>2, <1>3, <1>4, ScanTypes, HandleTypes DEF Next

LEMMA TInvInit ==
  ASSUME Init
  PROVE  TInv
<1>1. LineOK
  BY EmptySeq, DebugPAssumption DEF Init, LineOK
<1>2. ScanOK
  <2>1. <<>> \in Seq(Byte8) /\ 0 \in 0..(Capacity + 3)
    BY EmptySeq, DebugPAssumption
  <2> QED
    BY <2>1 DEF Init, Blank, ScanOK
<1>3. 0 \in Byte8
  BY DEF Byte8
<1>4. RxOK /\ MemOK /\ FlagsOK
  <2>1. 0 \in Nat /\ 0 \in 0..Capacity /\ 0 \in 0..MaxFaults /\ 0 \in Values
    BY DebugPAssumption
  <2>2. RxOK
    BY <1>3, <2>1 DEF Init, RxOK
  <2>3. MemOK
    BY <1>3, <2>1 DEF Init, MemOK
  <2>4. FlagsOK
    BY <2>1 DEF Init, FlagsOK
  <2> QED
    BY <2>2, <2>3, <2>4
<1>5. ClientOK
  BY <1>3, DebugPAssumption DEF Init, ClientOK
<1> QED
  BY <1>1, <1>2, <1>4, <1>5 DEF TInv

\* The variables keep their types, whatever is lost or damaged.
THEOREM DebugPTypeCorrect == Spec => []TypeOK
<1>1. Init => TInv
  BY TInvInit
<1>2. TInv /\ [Next]_vars => TInv'
  BY TInvStep
<1>3. TInv => TypeOK
  BY DEF TInv, LineOK, ScanOK, RxOK, MemOK, ClientOK, FlagsOK, TypeOK, Byte8
<1> QED
  BY <1>1, <1>2, <1>3, PTL DEF Spec

-----------------------------------------------------------------------------
(***************************************************************************)
(* What is on a good line: the frames of the client's request and, before  *)
(* them, of the request before it.  R has the two of them, at 1 and 0;     *)
(* byte i of the line l is at place pos[i] of a frame of R[who[i]].        *)
(***************************************************************************)
Size(r) == Len(r.body) + 6

\* Byte b is the one of request r at place p.
Fits(r, p, b) ==
  /\ p = 1 => b = Head1
  /\ p = 2 => b = Head2
  /\ p = 3 => b = Len(r.body) + 3
  /\ p = 4 => b = r.id
  /\ p = 5 => b = 0
  /\ p \in 6..(Len(r.body) + 5) => b = r.body[p - 5]
  /\ p = Size(r) => b \in Checks

Placed(r, p, b) == r.body \in Bodies /\ p \in 1..Size(r) /\ Fits(r, p, b)

\* After a byte that is not the last of its frame comes the next of it.
GoesOn(n, R, who, pos, i) ==
  IF pos[i] < Size(R[who[i]])
  THEN i < n /\ who[i + 1] = who[i] /\ pos[i + 1] = pos[i] + 1
  ELSE i < n => pos[i + 1] = 1

Laid(l, R, who, pos) ==
  /\ \A i \in 1..Len(l) : /\ who[i] \in {0, 1} /\ Placed(R[who[i]], pos[i], l[i])
                          /\ GoesOn(Len(l), R, who, pos, i)
  /\ \A i, j \in 1..Len(l) : i <= j => who[i] <= who[j]

\* Where the parser is in the frame, from the second byte of its head on.
Synced(l, s, R, who, pos) ==
  /\ s.status = "head2" /\ l # <<>> => (l[1] = Head2 => pos[1] = 2)
  /\ s.status = "len" => l # <<>> /\ pos[1] = 3 /\ s.bytes = <<>>
  /\ s.status = "body" =>
       /\ l # <<>> /\ pos[1] = 4 + Len(s.bytes) /\ s.len = Len(R[who[1]].body) + 3
       /\ \A k \in 1..Len(s.bytes) : Fits(R[who[1]], k + 3, s.bytes[k])

\* The bytes a frame begins with are in none of them next to each other.  The
\* protocol does not escape them: a parser that has missed a beginning takes
\* those for one.
HeadNotInside ==
  /\ ~(Head1 \in Addresses /\ Head2 \in Values \cup Checks)
  /\ ~(Head1 \in Values /\ Head2 \in Checks)

LEMMA NoHead ==
  ASSUME HeadNotInside, NEW r, NEW p,
         Placed(r, p, Head1), Placed(r, p + 1, Head2)
  PROVE  p = 1
<1>1. /\ r.body \in Bodies /\ p \in 1..Size(r) /\ p + 1 \in 1..Size(r)
      /\ Fits(r, p, Head1) /\ Fits(r, p + 1, Head2)
  BY DEF Placed
<1>2. PICK n : n = Len(r.body)
  OBVIOUS
<1>3. /\ n = 2 \/ n = 3
      /\ r.body[1] \in {0, 1} /\ r.body[2] \in Addresses /\ (n = 3 => r.body[3] \in Values)
  BY <1>1, <1>2, BodyIs DEF RamRead, RamWrite
<1>4. p \in 1..(n + 6) /\ p + 1 \in 1..(n + 6)
  BY <1>1, <1>2 DEF Size
<1>5. /\ p = 2 => Head1 = Head2
      /\ p = 3 => Head1 = n + 3
      /\ p + 1 = 5 => Head2 = 0
      /\ p = 5 => Head1 = 0
      /\ p \in 6..(n + 5) => Head1 = r.body[p - 5]
      /\ p + 1 \in 6..(n + 5) => Head2 = r.body[(p + 1) - 5]
      /\ p + 1 = n + 6 => Head2 \in Checks
  BY <1>1, <1>2 DEF Fits, Size
<1>6. p # 2 /\ p # 3 /\ p # 4 /\ p # 5
  BY <1>3, <1>5 DEF Head1, Head2
<1>7. p # 6
  <2>1. p = 6 => Head1 = r.body[1]
    BY <1>3, <1>5
  <2> QED
    BY <2>1, <1>3 DEF Head1
<1>8. p # 7
  <2>1. p = 7 => Head1 = r.body[2]
    BY <1>3, <1>5
  <2>2. p = 7 /\ n = 3 => Head2 = r.body[3]
    BY <1>5
  <2>3. p = 7 /\ n = 2 => Head2 \in Checks
    BY <1>5
  <2> QED
    BY <2>1, <2>2, <2>3, <1>3 DEF HeadNotInside
<1>9. p # 8
  <2>1. p = 8 => n = 3
    BY <1>3, <1>4
  <2>2. p = 8 /\ n = 3 => Head1 = r.body[3] /\ Head2 \in Checks
    BY <1>5
  <2> QED
    BY <2>1, <2>2, <1>3 DEF HeadNotInside
<1> QED
  BY <1>3, <1>4, <1>6, <1>7, <1>8, <1>9

\* One byte is read: all others move up.
Later(f, n) == [i \in 1..(n - 1) |-> f[i + 1]]

LEMMA TailLaid ==
  ASSUME NEW l \in Seq(Byte8), l # <<>>, NEW R, NEW who, NEW pos, Laid(l, R, who, pos)
  PROVE  Laid(Tail(l), R, Later(who, Len(l)), Later(pos, Len(l)))
<1>1. PICK n : n = Len(l)
  OBVIOUS
<1>2. PICK t : t = Tail(l)
  OBVIOUS
<1>3. PICK who2, pos2 : who2 = Later(who, Len(l)) /\ pos2 = Later(pos, Len(l))
  OBVIOUS
<1>4. n \in Nat /\ n >= 1 /\ Len(t) = n - 1
  BY <1>1, <1>2, EmptySeq, HeadTailProperties
<1>5. ASSUME NEW i \in 1..(n - 1)
      PROVE  /\ i \in Nat /\ i + 1 \in 1..n /\ who2[i] = who[i + 1] /\ pos2[i] = pos[i + 1]
             /\ t[i] = l[i + 1]
  <2>1. who2[i] = who[i + 1] /\ pos2[i] = pos[i + 1]
    BY <1>1, <1>3 DEF Later
  <2>2. t[i] = l[i + 1]
    BY <1>2, <1>4, HeadTailProperties
  <2> QED
    BY <1>4, <2>1, <2>2
<1>6. ASSUME NEW i \in 1..n
      PROVE  who[i] \in {0, 1} /\ Placed(R[who[i]], pos[i], l[i]) /\ GoesOn(n, R, who, pos, i)
  BY <1>1 DEF Laid
<1>7. ASSUME NEW i \in 1..n, NEW j \in 1..n, i <= j
      PROVE  who[i] <= who[j]
  BY <1>1, <1>7 DEF Laid
<1>8. ASSUME NEW i \in 1..(n - 1)
      PROVE  /\ who2[i] \in {0, 1} /\ Placed(R[who2[i]], pos2[i], t[i])
             /\ GoesOn(n - 1, R, who2, pos2, i)
  <2>1. who2[i] \in {0, 1} /\ Placed(R[who2[i]], pos2[i], t[i])
    BY <1>5, <1>6
  <2>2. GoesOn(n, R, who, pos, i + 1) /\ i \in Nat
    BY <1>5, <1>6
  <2>3. i + 1 < n <=> i < n - 1
    BY <2>2, <1>4
  <2>4. i < n - 1 => i + 1 \in 1..(n - 1)
    BY <2>2, <1>4
  <2>5. i < n - 1 => who2[i + 1] = who[(i + 1) + 1] /\ pos2[i + 1] = pos[(i + 1) + 1]
    BY <2>4, <1>5
  <2>6. GoesOn(n - 1, R, who2, pos2, i)
    BY <2>2, <2>3, <2>5, <1>5, Zenon DEF GoesOn
  <2> QED
    BY <2>1, <2>6
<1>9. ASSUME NEW i \in 1..(n - 1), NEW j \in 1..(n - 1), i <= j
      PROVE  who2[i] <= who2[j]
  <2>1. i + 1 <= j + 1
    BY <1>5, <1>9
  <2> QED
    BY <2>1, <1>5, <1>7
<1>10. Laid(t, R, who2, pos2)
  BY <1>4, <1>8, <1>9, Zenon DEF Laid
<1> QED
  BY <1>2, <1>3, <1>10

\* The bytes of a frame the client sends are those of its request.
LEMMA FrameFits ==
  ASSUME NEW n \in Nat, NEW r, r.body \in Bodies, r.id = Ids[n % 2], NEW check \in Checks
  PROVE  LET f == FrameOf(n, r.body, check)
         IN  /\ f \in Seq(Byte8) /\ Len(f) = Size(r) /\ f[1] = Head1
             /\ \A p \in 1..Size(r) : Placed(r, p, f[p])
<1>1. PICK f : f = FrameOf(n, r.body, check)
  OBVIOUS
<1>2. /\ f \in Seq(Byte8) /\ Len(f) = Len(r.body) + 6
      /\ f[1] = Head1 /\ f[2] = Head2 /\ f[3] = Len(r.body) + 3
      /\ f[4] = Ids[n % 2] /\ f[5] = 0
      /\ \A p \in 6..(Len(r.body) + 5) : f[p] = r.body[p - 5]
      /\ f[Len(r.body) + 6] = check
  BY <1>1, FrameIsSeq
<1>3. ASSUME NEW p \in 1..Size(r)
      PROVE  Fits(r, p, f[p])
  BY <1>2 DEF Fits, Size
<1> QED
  BY <1>1, <1>2, <1>3 DEF Placed, Size

\* A frame of the newer request is put on the line.
LEMMA SendLaid ==
  ASSUME NEW l \in Seq(Byte8), NEW f \in Seq(Byte8), NEW R, NEW who, NEW pos,
         NEW s, Laid(l, R, who, pos), Synced(l, s, R, who, pos),
         R[1].body \in Bodies, Len(f) = Size(R[1]), f[1] = Head1,
         \A p \in 1..Size(R[1]) : Placed(R[1], p, f[p])
  PROVE  \E who2, pos2 :
           /\ Laid(l \o f, R, who2, pos2) /\ Synced(l \o f, s, R, who2, pos2)
           /\ \A i \in 1..Len(l \o f) : who2[i] = 1 \/ (i \in 1..Len(l) /\ who2[i] = who[i])
<1>1. PICK n, m, l2 : n = Len(l) /\ m = Len(f) /\ l2 = l \o f
  OBVIOUS
<1>2. /\ n \in Nat /\ m \in Nat /\ m >= 8 /\ l2 \in Seq(Byte8) /\ Len(l2) = n + m
      /\ \A i \in 1..(n + m) : l2[i] = IF i <= n THEN l[i] ELSE f[i - n]
  <2>1. m >= 8
    <3>1. PICK k : k = Len(R[1].body)
      OBVIOUS
    <3>2. k = 2 \/ k = 3
      BY <3>1, BodyIs
    <3>3. m = k + 6
      BY <1>1, <3>1 DEF Size
    <3> QED
      BY <3>2, <3>3
  <2> QED
    BY <1>1, <2>1, LenProperties, ConcatProperties
<1>3. PICK who2 : who2 = [i \in 1..(n + m) |-> IF i <= n THEN who[i] ELSE 1]
  OBVIOUS
<1>4. PICK pos2 : pos2 = [i \in 1..(n + m) |-> IF i <= n THEN pos[i] ELSE i - n]
  OBVIOUS
<1>5. ASSUME NEW i \in 1..n
      PROVE  /\ i \in Nat /\ i \in 1..(n + m) /\ who2[i] = who[i] /\ pos2[i] = pos[i]
             /\ l2[i] = l[i]
  <2>1. i \in Nat /\ i \in 1..(n + m) /\ i <= n
    BY <1>2
  <2> QED
    BY <2>1, <1>2, <1>3, <1>4
<1>6. ASSUME NEW i \in (n + 1)..(n + m)
      PROVE  /\ i \in Nat /\ i \in 1..(n + m) /\ who2[i] = 1 /\ pos2[i] = i - n
             /\ l2[i] = f[i - n] /\ i - n \in 1..m
  <2>1. i \in Nat /\ i \in 1..(n + m) /\ ~(i <= n) /\ i - n \in 1..m
    BY <1>2
  <2> QED
    BY <2>1, <1>2, <1>3, <1>4
<1>7. \A i \in 1..(n + m) : i \in 1..n \/ i \in (n + 1)..(n + m)
  BY <1>2
<1>8. ASSUME NEW i \in 1..n
      PROVE  who[i] \in {0, 1} /\ Placed(R[who[i]], pos[i], l[i]) /\ GoesOn(n, R, who, pos, i)
  BY <1>1 DEF Laid
<1>9. ASSUME NEW i \in 1..n, NEW j \in 1..n, i <= j
      PROVE  who[i] <= who[j]
  BY <1>1, <1>9 DEF Laid
<1>10. ASSUME NEW i \in 1..(n + m)
       PROVE  /\ who2[i] \in {0, 1} /\ Placed(R[who2[i]], pos2[i], l2[i])
              /\ GoesOn(n + m, R, who2, pos2, i)
  <2>1. CASE i \in 1..n
    <3>1. who2[i] \in {0, 1} /\ Placed(R[who2[i]], pos2[i], l2[i])
      BY <2>1, <1>5, <1>8
    <3>2. GoesOn(n, R, who, pos, i)
      BY <2>1, <1>8
    <3>3. CASE i < n
      <4>1. i + 1 \in 1..n /\ i < n + m
        BY <2>1, <3>3, <1>2
      <4>2. who2[i + 1] = who[i + 1] /\ pos2[i + 1] = pos[i + 1]
        BY <4>1, <1>5
      <4>3. who2[i] = who[i] /\ pos2[i] = pos[i]
        BY <2>1, <1>5
      <4>4. GoesOn(n + m, R, who2, pos2, i)
        BY <3>2, <3>3, <4>1, <4>2, <4>3, Zenon DEF GoesOn
      <4> QED
        BY <3>1, <4>4
    <3>4. CASE ~(i < n)
      <4>1. i + 1 \in (n + 1)..(n + m) /\ (i + 1) - n = 1
        BY <2>1, <3>4, <1>2
      <4>2. pos2[i + 1] = 1
        BY <4>1, <1>6
      <4>3. who2[i] = who[i] /\ pos2[i] = pos[i]
        BY <2>1, <1>5
      <4>4. GoesOn(n + m, R, who2, pos2, i)
        BY <3>2, <3>4, <4>2, <4>3, Zenon DEF GoesOn
      <4> QED
        BY <3>1, <4>4
    <3> QED
      BY <3>3, <3>4
  <2>2. CASE i \in (n + 1)..(n + m)
    <3>1. /\ who2[i] = 1 /\ pos2[i] = i - n /\ l2[i] = f[i - n] /\ i - n \in 1..m /\ i \in Nat
      BY <2>2, <1>6
    <3>2. Placed(R[who2[i]], pos2[i], l2[i])
      BY <3>1, <1>1
    <3>3. CASE i < n + m
      <4>1. i + 1 \in (n + 1)..(n + m) /\ (i + 1) - n = (i - n) + 1
        BY <2>2, <3>3, <1>2
      <4>2. who2[i + 1] = 1 /\ pos2[i + 1] = (i + 1) - n
        BY <4>1, <1>6
      <4>3. ~(pos2[i] < Size(R[who2[i]])) => ~(i < n + m)
        BY <3>1, <1>1, <1>2
      <4>4. GoesOn(n + m, R, who2, pos2, i)
        BY <3>1, <3>3, <4>1, <4>2, <4>3, Zenon DEF GoesOn
      <4> QED
        BY <3>1, <3>2, <4>4
    <3>4. CASE ~(i < n + m)
      <4>1. ~(pos2[i] < Size(R[who2[i]]))
        BY <3>1, <3>4, <1>1, <1>2
      <4>2. GoesOn(n + m, R, who2, pos2, i)
        BY <3>4, <4>1, Zenon DEF GoesOn
      <4> QED
        BY <3>1, <3>2, <4>2
    <3> QED
      BY <3>3, <3>4
  <2> QED
    BY <1>7, <2>1, <2>2
<1>11. ASSUME NEW i \in 1..(n + m), NEW j \in 1..(n + m), i <= j
       PROVE  who2[i] <= who2[j]
  <2>1. CASE j \in 1..n
    <3>1. i \in 1..n
      BY <2>1, <1>2, <1>11
    <3> QED
      BY <2>1, <3>1, <1>5, <1>9, <1>11
  <2>2. CASE j \in (n + 1)..(n + m)
    <3>1. who2[j] = 1
      BY <2>2, <1>6
    <3>2. who2[i] \in {0, 1}
      BY <1>10
    <3> QED
      BY <3>1, <3>2
  <2> QED
    BY <1>7, <2>1, <2>2
<1>12. Laid(l2, R, who2, pos2)
  BY <1>2, <1>10, <1>11, Zenon DEF Laid
<1>13. l # <<>> => l2 # <<>> /\ l2[1] = l[1] /\ who2[1] = who[1] /\ pos2[1] = pos[1]
  <2>1. l # <<>> => 1 \in 1..n
    BY <1>1, EmptySeq
  <2>2. l2 # <<>>
    BY <1>2, EmptySeq
  <2> QED
    BY <2>1, <2>2, <1>5
<1>14. l = <<>> => l2[1] = Head1
  <2>1. l = <<>> => n = 0
    BY <1>1, EmptySeq
  <2>2. n = 0 => 1 \in (n + 1)..(n + m) /\ 1 - n = 1
    BY <1>2
  <2> QED
    BY <2>1, <2>2, <1>6
<1>15. Synced(l2, s, R, who2, pos2)
  <2>1. CASE l # <<>>
    BY <2>1, <1>13, Zenon DEF Synced
  <2>2. CASE l = <<>>
    BY <2>2, <1>14 DEF Synced, Head1, Head2
  <2> QED
    BY <2>1, <2>2
<1>16. \A i \in 1..Len(l2) : who2[i] = 1 \/ (i \in 1..Len(l) /\ who2[i] = who[i])
  BY <1>1, <1>2, <1>5, <1>6, <1>7
<1> QED
  BY <1>1, <1>12, <1>15, <1>16

\* The client makes another request: what is on the line is of the one before.
LEMMA AgedLaid ==
  ASSUME NEW l, NEW s, NEW R, NEW R2, NEW who, NEW pos, Len(l) \in Nat,
         Laid(l, R, who, pos), Synced(l, s, R, who, pos), l # <<>> => 1 \in 1..Len(l),
         \A i \in 1..Len(l) : who[i] = 1, R2[0] = R[1]
  PROVE  \E who2 : /\ Laid(l, R2, who2, pos) /\ Synced(l, s, R2, who2, pos)
                   /\ \A i \in 1..Len(l) : who2[i] = 0
<1>1. PICK n : n = Len(l)
  OBVIOUS
<1>2. PICK who2 : who2 = [i \in 1..n |-> 0]
  OBVIOUS
<1>3. ASSUME NEW i \in 1..n
      PROVE  who2[i] = 0 /\ R2[who2[i]] = R[who[i]]
  BY <1>1, <1>2
<1>4. ASSUME NEW i \in 1..n
      PROVE  Placed(R[who[i]], pos[i], l[i]) /\ GoesOn(n, R, who, pos, i)
  BY <1>1 DEF Laid
<1>5. ASSUME NEW i \in 1..n
      PROVE  GoesOn(n, R2, who2, pos, i)
  <2>1. i < n => i + 1 \in 1..n
    BY <1>1
  <2>2. i < n => who2[i + 1] = who2[i]
    BY <2>1, <1>3
  <2> QED
    BY <2>2, <1>3, <1>4, Zenon DEF GoesOn
<1>6. Laid(l, R2, who2, pos)
  <2>1. \A i \in 1..n : who2[i] \in {0, 1} /\ Placed(R2[who2[i]], pos[i], l[i])
    BY <1>3, <1>4
  <2>2. \A i, j \in 1..n : who2[i] <= who2[j]
    BY <1>3
  <2> QED
    BY <1>1, <1>5, <2>1, <2>2, Zenon DEF Laid
<1>7. Synced(l, s, R2, who2, pos)
  <2>1. l # <<>> => R2[who2[1]] = R[who[1]]
    BY <1>1, <1>3
  <2> QED
    BY <2>1, Zenon DEF Synced
<1> QED
  BY <1>1, <1>3, <1>6, <1>7

\* What was put together is request r.
IsFrame(f, r) ==
  /\ r.body \in Bodies /\ f.id = r.id /\ f.len = Len(r.body)
  /\ \A i \in 1..Len(r.body) : f.buff[i] = r.body[i]

\* The byte that is read, and the one that comes after it.
LEMMA NextByte ==
  ASSUME NEW l \in Seq(Byte8), l # <<>>, NEW R, NEW who, NEW pos, Laid(l, R, who, pos),
         NEW who2, NEW pos2, who2 = Later(who, Len(l)), pos2 = Later(pos, Len(l))
  PROVE  /\ who[1] \in {0, 1} /\ Placed(R[who[1]], pos[1], l[1])
         /\ pos[1] < Size(R[who[1]]) =>
              /\ Tail(l) # <<>> /\ who2[1] = who[1] /\ pos2[1] = pos[1] + 1
              /\ Placed(R[who[1]], pos[1] + 1, Tail(l)[1])
         /\ ~(pos[1] < Size(R[who[1]])) /\ Tail(l) # <<>> => Tail(l)[1] = Head1
<1>1. PICK n, t : n = Len(l) /\ t = Tail(l)
  OBVIOUS
<1>2. /\ n \in Nat /\ n >= 1 /\ t \in Seq(Byte8) /\ Len(t) = n - 1
      /\ \A i \in 1..(n - 1) : t[i] = l[i + 1]
  BY <1>1, EmptySeq, HeadTailProperties
<1>3. 1 \in 1..n
  BY <1>2
<1>4. \A i \in 1..n : /\ who[i] \in {0, 1} /\ Placed(R[who[i]], pos[i], l[i])
                      /\ GoesOn(n, R, who, pos, i)
  BY <1>1 DEF Laid
<1>5. who[1] \in {0, 1} /\ Placed(R[who[1]], pos[1], l[1]) /\ GoesOn(n, R, who, pos, 1)
  BY <1>3, <1>4
<1>6. t # <<>> <=> 1 < n
  BY <1>2, EmptySeq
<1>7. 1 < n => 1 \in 1..(n - 1) /\ 1 + 1 \in 1..n /\ 1 + 1 = 2
  BY <1>2
<1>8. 1 < n => /\ t[1] = l[2] /\ who2[1] = who[2] /\ pos2[1] = pos[2]
               /\ Placed(R[who[2]], pos[2], l[2])
  BY <1>1, <1>2, <1>4, <1>7 DEF Later
<1>9. pos[1] < Size(R[who[1]]) =>
        t # <<>> /\ who2[1] = who[1] /\ pos2[1] = pos[1] + 1 /\ Placed(R[who[1]], pos[1] + 1, t[1])
  <2>1. pos[1] < Size(R[who[1]]) => 1 < n /\ who[2] = who[1] /\ pos[2] = pos[1] + 1
    BY <1>5, <1>7 DEF GoesOn
  <2> QED
    BY <2>1, <1>6, <1>8, Zenon
<1>10. ~(pos[1] < Size(R[who[1]])) /\ t # <<>> => t[1] = Head1
  <2>1. ~(pos[1] < Size(R[who[1]])) /\ t # <<>> => pos[2] = 1
    BY <1>5, <1>6, <1>7 DEF GoesOn
  <2> QED
    BY <2>1, <1>6, <1>8 DEF Placed, Fits
<1> QED
  BY <1>1, <1>5, <1>9, <1>10

\* A turn of the parser keeps its place in the frame; the frame it completes is
\* the request whose last byte it read.
LEMMA ScanGood ==
  ASSUME TInv, HeadNotInside, ScanByte, NEW R, NEW who, NEW pos,
         Laid(line, R, who, pos), Synced(line, scan, R, who, pos),
         NEW who2, NEW pos2, who2 = Later(who, Len(line)), pos2 = Later(pos, Len(line))
  PROVE  /\ Synced(line', scan', R, who2, pos2) /\ ~overrun'
         /\ \/ IsFrame(rx', R[who[1]]) /\ got'
            \/ rx' = rx /\ got' = got
<1>1. PICK l, t, s, r, b, p : /\ l = line /\ t = Tail(line) /\ s = scan /\ r = R[who[1]]
                              /\ b = Head(line) /\ p = pos[1]
  OBVIOUS
<1>2. /\ line # <<>> /\ l \in Seq(Byte8) /\ l # <<>> /\ t \in Seq(Byte8) /\ line' = t
      /\ ~overrun
  BY <1>1, ScanLine DEF ScanByte, TInv, LineOK
<1>3. b \in Byte8 /\ b = l[1]
  BY <1>1, <1>2, ScanLine
<1>4. /\ Placed(r, p, b)
      /\ p < Size(r) => t # <<>> /\ who2[1] = who[1] /\ pos2[1] = p + 1 /\ Placed(r, p + 1, t[1])
      /\ ~(p < Size(r)) /\ t # <<>> => t[1] = Head1
  BY <1>1, <1>2, <1>3, NextByte
<1>5. PICK n : n = Len(r.body)
  OBVIOUS
<1>6. /\ r.body \in Bodies /\ n \in {2, 3} /\ Size(r) = n + 6 /\ p \in 1..(n + 6) /\ Fits(r, p, b)
  BY <1>4, <1>5, BodyIs DEF Placed, Size
<1>7. /\ s = [status |-> s.status, len |-> s.len, bytes |-> s.bytes]
      /\ s.bytes \in Seq(Byte8)
  BY <1>1 DEF TInv, ScanOK
<1>8. Synced(l, s, R, who, pos)
  BY <1>1
<1>9. CASE ScanInit
  <2>1. scan' = [s EXCEPT !.status = "head1"] /\ rx' = rx /\ got' = got /\ overrun' = overrun
    BY <1>9, <1>1 DEF ScanInit, ScanTo
  <2>2. scan'.status = "head1"
    BY <2>1, <1>7
  <2>3. Synced(t, scan', R, who2, pos2)
    BY <2>2, Zenon DEF Synced
  <2> QED
    BY <2>1, <2>3, <1>2
<1>10. CASE ScanHead1
  <2>1. /\ scan' = [s EXCEPT !.status = IF b = Head1 THEN "head2" ELSE "head1"]
        /\ rx' = rx /\ got' = got /\ overrun' = overrun
    BY <1>10, <1>1 DEF ScanHead1, ScanTo
  <2>2. scan'.status = IF b = Head1 THEN "head2" ELSE "head1"
    BY <2>1, <1>7
  <2>3. b = Head1 /\ t # <<>> /\ t[1] = Head2 => pos2[1] = 2
    <3>1. Head1 # Head2
      BY DEF Head1, Head2
    <3>2. b = Head1 /\ t # <<>> /\ t[1] = Head2 => p < Size(r)
      BY <3>1, <1>4
    <3>3. b = Head1 /\ t # <<>> /\ t[1] = Head2 => p = 1
      BY <3>2, <1>4, NoHead
    <3> QED
      BY <3>2, <3>3, <1>4
  <2>4. Synced(t, scan', R, who2, pos2)
    BY <2>2, <2>3 DEF Synced
  <2> QED
    BY <2>1, <2>4, <1>2
<1>11. CASE ScanHead2
  <2>1. /\ scan' = IF b = Head2 THEN [status |-> "len", len |-> 0, bytes |-> <<>>]
                   ELSE [s EXCEPT !.status = "head1"]
        /\ rx' = rx /\ got' = got /\ overrun' = overrun /\ s.status = "head2"
    BY <1>11, <1>1 DEF ScanHead2, AfterHead2, ScanTo, Awaiting
  <2>2. CASE b = Head2
    <3>1. p = 2
      BY <2>1, <2>2, <1>1, <1>2, <1>3, <1>8 DEF Synced
    <3>2. t # <<>> /\ pos2[1] = 3
      BY <3>1, <1>4, <1>6
    <3>3. scan'.status = "len" /\ scan'.bytes = <<>>
      BY <2>1, <2>2
    <3>4. Synced(t, scan', R, who2, pos2)
      BY <3>2, <3>3 DEF Synced
    <3> QED
      BY <2>1, <3>4, <1>2
  <2>3. CASE b # Head2
    <3>1. scan'.status = "head1"
      BY <2>1, <2>3, <1>7
    <3>2. Synced(t, scan', R, who2, pos2)
      BY <3>1, Zenon DEF Synced
    <3> QED
      BY <2>1, <3>2, <1>2
  <2> QED
    BY <2>2, <2>3
<1>12. CASE ScanLen
  <2>1. s.status = "len" /\ p = 3 /\ s.bytes = <<>>
    BY <1>12, <1>1, <1>8 DEF ScanLen, Awaiting, Synced
  <2>2. b = n + 3
    BY <2>1, <1>5, <1>6 DEF Fits
  <2>3. LegalLength(b) /\ b <= Capacity + 3 /\ ~(b > Capacity + 3)
    BY <2>2, <1>6, DebugPAssumption DEF LegalLength
  <2>4. /\ scan' = [s EXCEPT !.status = "body", !.len = b]
        /\ rx' = rx /\ got' = got /\ overrun' = overrun
    BY <2>3, <1>12, <1>1 DEF ScanLen, ScanTo
  <2>5. scan'.status = "body" /\ scan'.len = n + 3 /\ scan'.bytes = <<>>
    BY <2>1, <2>2, <2>4, <1>7
  <2>6. t # <<>> /\ who2[1] = who[1] /\ pos2[1] = 4
    BY <2>1, <1>4, <1>6
  <2>7. R[who2[1]] = r /\ Len(scan'.bytes) = 0 /\ 4 + 0 = 4
    BY <2>5, <2>6, <1>1, EmptySeq
  <2>8. Synced(t, scan', R, who2, pos2)
    BY <2>5, <2>6, <2>7, <1>5 DEF Synced
  <2> QED
    BY <2>4, <2>8, <1>2
<1>13. ASSUME s.status = "body"
       PROVE  \E bytes \in Seq(Byte8), k \in Nat :
                /\ k = Len(s.bytes) /\ bytes = Append(s.bytes, b) /\ Len(bytes) = k + 1
                /\ s.len = n + 3 /\ p = 4 + k
                /\ \A i \in 1..(k + 1) : Fits(r, i + 3, bytes[i])
  <2>1. PICK k \in Nat : k = Len(s.bytes)
    BY <1>7, LenProperties
  <2>2. PICK bytes : bytes = Append(s.bytes, b)
    OBVIOUS
  <2>3. /\ bytes \in Seq(Byte8) /\ Len(bytes) = k + 1
        /\ \A i \in 1..k : bytes[i] = s.bytes[i]
        /\ bytes[k + 1] = b
    BY <2>1, <2>2, <1>3, <1>7, AppendProperties
  <2>4. /\ p = 4 + k /\ s.len = n + 3
        /\ \A i \in 1..k : Fits(r, i + 3, s.bytes[i])
    BY <2>1, <1>1, <1>5, <1>8, <1>13 DEF Synced
  <2>5. ASSUME NEW i \in 1..(k + 1)
        PROVE  Fits(r, i + 3, bytes[i])
    <3>1. CASE i \in 1..k
      BY <3>1, <2>3, <2>4
    <3>2. CASE i = k + 1
      <4>1. i + 3 = p
        BY <3>2, <2>4
      <4> QED
        BY <3>2, <4>1, <2>3, <1>6
    <3> QED
      BY <3>1, <3>2
  <2> QED
    BY <2>1, <2>2, <2>3, <2>4, <2>5
<1>14. CASE ScanBody
  <2>1. s.status = "body"
    BY <1>14, <1>1 DEF ScanBody, Awaiting
  <2>2. PICK bytes \in Seq(Byte8), k \in Nat :
          /\ k = Len(s.bytes) /\ bytes = Append(s.bytes, b) /\ Len(bytes) = k + 1
          /\ s.len = n + 3 /\ p = 4 + k
          /\ \A i \in 1..(k + 1) : Fits(r, i + 3, bytes[i])
    BY <2>1, <1>13
  <2>3. /\ scan' = [s EXCEPT !.bytes = bytes]
        /\ rx' = rx /\ got' = got /\ overrun' = overrun /\ k + 1 < s.len
    BY <1>14, <1>1, <2>2 DEF ScanBody, ScanTo
  <2>4. scan'.status = "body" /\ scan'.len = n + 3 /\ scan'.bytes = bytes
    BY <2>1, <2>2, <2>3, <1>7
  <2>5. p < Size(r)
    BY <2>2, <2>3, <1>6
  <2>6. t # <<>> /\ who2[1] = who[1] /\ pos2[1] = 4 + (k + 1)
    BY <2>2, <2>5, <1>4
  <2>7. R[who2[1]] = r
    BY <2>6, <1>1
  <2>8. Synced(t, scan', R, who2, pos2)
    BY <2>2, <2>4, <2>6, <2>7, <1>5 DEF Synced
  <2> QED
    BY <2>3, <2>8, <1>2
<1>15. CASE FrameComplete
  <2>1. s.status = "body"
    BY <1>15, <1>1 DEF FrameComplete, Awaiting
  <2>2. PICK bytes \in Seq(Byte8), k \in Nat :
          /\ k = Len(s.bytes) /\ bytes = Append(s.bytes, b) /\ Len(bytes) = k + 1
          /\ s.len = n + 3 /\ p = 4 + k
          /\ \A i \in 1..(k + 1) : Fits(r, i + 3, bytes[i])
    BY <2>1, <1>13
  <2>3. k + 1 >= s.len
    BY <1>15, <1>1, <2>2 DEF FrameComplete
  <2>4. k = n + 2
    BY <2>2, <2>3, <1>6
  <2>5. /\ rx'.id = bytes[1] + 256 * bytes[2] /\ rx'.len = s.len - 3
        /\ \A i \in 1..Capacity : i <= s.len - 3 => rx'.buff[i] = bytes[i + 2]
    BY <1>15, <1>1, <2>2, UnpackIs
  <2>6. bytes[1] = r.id /\ bytes[2] = 0
    <3>1. 1 \in 1..(k + 1) /\ 2 \in 1..(k + 1) /\ 1 + 3 = 4 /\ 2 + 3 = 5
      BY <2>4, <1>6
    <3>2. Fits(r, 4, bytes[1]) /\ Fits(r, 5, bytes[2])
      BY <3>1, <2>2
    <3> QED
      BY <3>2 DEF Fits
  <2>7. rx'.id = r.id
    <3>1. bytes[1] \in Byte8
      <4>1. 1 \in 1..Len(bytes)
        BY <2>2
      <4> QED
        BY <4>1, <2>2, ElementOfSeq
    <3>2. \A x \in Byte8 : x + 256 * 0 = x
      BY DEF Byte8
    <3> QED
      BY <3>1, <3>2, <2>5, <2>6
  <2>8. rx'.len = n
    BY <2>2, <2>5, <1>6
  <2>9. ASSUME NEW i \in 1..n
        PROVE  rx'.buff[i] = r.body[i]
    <3>1. /\ i \in 1..Capacity /\ i <= s.len - 3 /\ i + 2 \in 1..(k + 1)
          /\ (i + 2) + 3 \in 6..(n + 5) /\ ((i + 2) + 3) - 5 = i
      BY <2>2, <2>4, <1>6, DebugPAssumption
    <3>2. rx'.buff[i] = bytes[i + 2]
      BY <3>1, <2>5
    <3>3. Fits(r, (i + 2) + 3, bytes[i + 2])
      BY <3>1, <2>2
    <3> QED
      BY <3>1, <3>2, <3>3, <1>5 DEF Fits
  <2>10. IsFrame(rx', r)
    BY <2>7, <2>8, <2>9, <1>5, <1>6 DEF IsFrame
  <2>11. scan'.status = "head1"
    BY <1>15, <1>1, <1>7 DEF FrameComplete
  <2>12. Synced(t, scan', R, who2, pos2)
    BY <2>11, Zenon DEF Synced
  <2>13. got' /\ overrun' = overrun
    BY <1>15 DEF FrameComplete
  <2> QED
    BY <2>10, <2>12, <2>13, <1>1, <1>2
<1> QED
  BY <1>9, <1>10, <1>11, <1>12, <1>14, <1>15 DEF ScanByte

-----------------------------------------------------------------------------
(***************************************************************************)
(* The client and the memory.                                              *)
(***************************************************************************)
Current == [body |-> client.body, id |-> Ids[client.number % 2]]
Previous == [body |-> client.before, id |-> Ids[(client.number - 1) % 2]]
Requests == [w \in {0, 1} |-> IF w = 1 THEN Current ELSE Previous]

\* The memory once a request is done.
Done(m, body) == IF body[1] = RamWrite THEN [m EXCEPT ![body[2]] = body[3]] ELSE m

\* The frame to handle is one of the two, and none after it on the line is older.
Received(who) ==
  got => \E w \in {0, 1} : /\ IsFrame(rx, Requests[w])
                           /\ \A i \in 1..Len(line) : who[i] >= w

\* Nothing of the request before is left.
AllCurrent(who) ==
  /\ \A i \in 1..Len(line) : who[i] = 1
  /\ got => IsFrame(rx, Current)

\* What the client has been told is what the memory holds, or what it holds but
\* for the request that is under way.
Told(who) ==
  /\ client.before \in Bodies /\ client.phase = "waiting" =>
       Done(expected, client.before) = expected
  /\ client.phase = "idle" =>
       /\ AllCurrent(who) /\ mem = expected
       /\ client.number > 0 =>
            /\ Done(expected, client.body) = expected
            /\ client.body[1] = RamRead => client.value = expected[client.body[2]]
  /\ client.phase = "waiting" =>
       \/ mem = expected
       \/ mem = Done(expected, client.body) /\ AllCurrent(who)

GoodLine(who, pos) ==
  /\ ~overrun /\ Laid(line, Requests, who, pos) /\ Synced(line, scan, Requests, who, pos)
  /\ Received(who) /\ Told(who)

\* The invariant.
DInv == TInv /\ (~faults.damaged => \E who, pos : GoodLine(who, pos))

\* The two requests, and that their ids differ.
LEMMA TwoRequests ==
  ASSUME TInv
  PROVE  /\ Requests[1] = Current /\ Requests[0] = Previous
         /\ Current.body = client.body /\ Current.id = Ids[client.number % 2]
         /\ Previous.body = client.before /\ Previous.id # Current.id
<1>1. \A n \in Nat : /\ n % 2 \in {0, 1} /\ (n - 1) % 2 \in {0, 1}
                     /\ n % 2 # (n - 1) % 2
  OBVIOUS
<1>2. client.number \in Nat
  BY DebugPAssumption DEF TInv, ClientOK
<1>3. Ids[(client.number - 1) % 2] # Ids[client.number % 2]
  BY <1>1, <1>2, DebugPAssumption
<1> QED
  BY <1>3 DEF Requests, Current, Previous

\* Doing a request twice is doing it once.
LEMMA DoneTwice ==
  ASSUME NEW m \in [Addresses -> Byte8], NEW body \in Bodies
  PROVE  Done(Done(m, body), body) = Done(m, body)
  BY BodyIs DEF Done

\* A frame that is a request is executed as that request.
LEMMA ExecuteIs ==
  ASSUME TInv, HandleFrame, NEW r, IsFrame(rx, r)
  PROVE  Known /\ mem' = Done(mem, r.body) /\ rx.buff[2] = r.body[2] /\ rx.buff[2] \in Addresses
<1>1. /\ r.body \in Bodies /\ \A i \in 1..Len(r.body) : rx.buff[i] = r.body[i]
  BY DEF IsFrame
<1>2. /\ Len(r.body) = 2 \/ Len(r.body) = 3
      /\ r.body[1] \in {RamRead, RamWrite} /\ r.body[2] \in Addresses
      /\ r.body[1] = RamWrite => Len(r.body) = 3
  BY <1>1, BodyIs
<1>3. rx.buff[1] = r.body[1] /\ rx.buff[2] = r.body[2]
  BY <1>1, <1>2
<1>4. r.body[1] = RamWrite => rx.buff[3] = r.body[3]
  BY <1>1, <1>2
<1> QED
  BY <1>2, <1>3, <1>4 DEF HandleFrame, Execute, Known, Done

LEMMA ScanStep ==
  ASSUME TInv, HeadNotInside, ScanByte, NEW who, NEW pos, GoodLine(who, pos)
  PROVE  \E who2, pos2 : GoodLine(who2, pos2)'
<1>1. PICK who2 : who2 = Later(who, Len(line))
  OBVIOUS
<1>2. PICK pos2 : pos2 = Later(pos, Len(line))
  OBVIOUS
<1>3. PICK R : R = Requests
  OBVIOUS
<1>4. /\ line # <<>> /\ line \in Seq(Byte8) /\ line' = Tail(line)
      /\ client' = client /\ mem' = mem /\ expected' = expected
  BY ScanLine DEF ScanByte, TInv, LineOK
<1>5. Requests' = R
  BY <1>3, <1>4 DEF Requests, Current, Previous
<1>6. /\ Laid(line, R, who, pos) /\ Synced(line, scan, R, who, pos)
      /\ Received(who) /\ Told(who)
  BY <1>3 DEF GoodLine
<1>7. Laid(line', R, who2, pos2)
  BY <1>1, <1>2, <1>4, <1>6, TailLaid
<1>8. /\ Synced(line', scan', R, who2, pos2) /\ ~overrun'
      /\ \/ IsFrame(rx', R[who[1]]) /\ got'
         \/ rx' = rx /\ got' = got
  BY <1>1, <1>2, <1>6, ScanGood
<1>9. PICK n : n = Len(line)
  OBVIOUS
<1>10. n \in Nat /\ n >= 1 /\ Len(line') = n - 1
  BY <1>4, <1>9, EmptySeq, HeadTailProperties
<1>11. \A i \in 1..(n - 1) : i + 1 \in 1..n /\ who2[i] = who[i + 1]
  BY <1>1, <1>9, <1>10 DEF Later
<1>12. who[1] \in {0, 1} /\ \A i \in 1..n : who[i] >= who[1]
  <2>1. 1 \in 1..n /\ \A i \in 1..n : 1 <= i
    BY <1>10
  <2>2. /\ \A i \in 1..n : who[i] \in {0, 1}
        /\ \A i, j \in 1..n : i <= j => who[i] <= who[j]
    BY <1>6, <1>9 DEF Laid
  <2> QED
    BY <2>1, <2>2
<1>13. Received(who2)'
  <2>1. CASE IsFrame(rx', R[who[1]]) /\ got'
    <3>1. \A i \in 1..Len(line') : who2[i] >= who[1]
      BY <1>10, <1>11, <1>12
    <3> QED
      BY <2>1, <3>1, <1>5, <1>12 DEF Received
  <2>2. CASE rx' = rx /\ got' = got
    <3>1. got => \E w \in {0, 1} : /\ IsFrame(rx, R[w])
                                   /\ \A i \in 1..n : who[i] >= w
      BY <1>3, <1>6, <1>9 DEF Received
    <3>2. got' => \E w \in {0, 1} : /\ IsFrame(rx', R[w])
                                    /\ \A i \in 1..(n - 1) : who2[i] >= w
      BY <2>2, <3>1, <1>11
    <3> QED
      BY <3>2, <1>5, <1>10 DEF Received
  <2> QED
    BY <1>8, <2>1, <2>2
<1>14. AllCurrent(who) => AllCurrent(who2)'
  <2> SUFFICES ASSUME AllCurrent(who)
               PROVE  AllCurrent(who2)'
    OBVIOUS
  <2>1. (\A i \in 1..n : who[i] = 1) /\ (got => IsFrame(rx, R[1]))
    BY <1>3, <1>9, TwoRequests DEF AllCurrent
  <2>2. who[1] = 1 /\ \A i \in 1..(n - 1) : who2[i] = 1
    BY <2>1, <1>10, <1>11
  <2>3. got' => IsFrame(rx', R[1])
    BY <2>1, <2>2, <1>8
  <2>4. Current' = R[1]
    BY <1>3, <1>4, TwoRequests DEF Current
  <2> QED
    BY <2>2, <2>3, <2>4, <1>10 DEF AllCurrent
<1>15. Told(who2)'
  BY <1>4, <1>6, <1>14 DEF Told
<1>16. GoodLine(who2, pos2)'
  BY <1>5, <1>7, <1>8, <1>13, <1>15 DEF GoodLine
<1> QED
  BY <1>16

LEMMA HandleStep ==
  ASSUME TInv, HandleFrame, NEW who, NEW pos, GoodLine(who, pos)
  PROVE  GoodLine(who, pos)'
<1>1. /\ got /\ ~got' /\ UNCHANGED <<line, scan, overrun>>
      /\ Laid(line, Requests, who, pos) /\ Synced(line, scan, Requests, who, pos) /\ ~overrun
      /\ Received(who) /\ Told(who)
  BY DEF HandleFrame, GoodLine, TInv, FlagsOK
<1>2. PICK w \in {0, 1} : IsFrame(rx, Requests[w]) /\ \A i \in 1..Len(line) : who[i] >= w
  BY <1>1 DEF Received
<1>3. /\ Known /\ mem' = Done(mem, Requests[w].body)
      /\ rx.buff[2] = Requests[w].body[2] /\ rx.buff[2] \in Addresses
  BY <1>2, ExecuteIs
<1>4. Receive \/ UNCHANGED <<client, expected>>
  BY DEF HandleFrame
<1>5. /\ mem \in [Addresses -> Byte8] /\ expected \in [Addresses -> Values]
      /\ expected \in [Addresses -> Byte8] /\ client.phase \in {"idle", "waiting"}
  BY DebugPAssumption DEF TInv, MemOK, ClientOK, Byte8
<1>6. \A i \in 1..Len(line) : who[i] \in {0, 1}
  BY <1>1 DEF Laid
<1>7. /\ Requests[w].body \in Bodies /\ rx.id = Requests[w].id
  BY <1>2 DEF IsFrame
<1>8. CASE w = 1
  <2>1. /\ Requests[w].body = client.body /\ client.body \in Bodies
        /\ rx.id = Ids[client.number % 2] /\ mem' = Done(mem, client.body)
    BY <1>3, <1>7, <1>8, TwoRequests
  <2>2. \A i \in 1..Len(line) : who[i] = 1
    BY <1>2, <1>6, <1>8
  <2>3. AllCurrent(who)'
    BY <2>2, <1>1 DEF AllCurrent
  <2>4. client.number > 0
    BY <2>1, BodyIs DEF TInv, ClientOK
  <2>5. CASE client.phase = "idle"
    <3>1. UNCHANGED <<client, expected>>
      BY <2>5, <1>4 DEF Receive, Answered
    <3>2. mem = expected /\ Done(expected, client.body) = expected
      BY <2>4, <2>5, <1>1 DEF Told
    <3>3. mem' = expected
      BY <2>1, <3>2
    <3> QED
      BY <2>3, <2>5, <3>1, <3>2, <3>3, <1>1
      DEF GoodLine, Received, Told, Requests, Current, Previous
  <2>6. CASE client.phase = "waiting"
    <3>1. mem' = Done(expected, client.body)
      BY <2>1, <2>6, <1>1, <1>5, DoneTwice DEF Told
    <3>2. CASE UNCHANGED <<client, expected>>
      BY <2>3, <2>6, <3>1, <3>2, <1>1 DEF GoodLine, Received, Told, Requests, Current, Previous
    <3>3. CASE Receive
      <4>1. Answered
        BY <2>1, <2>6 DEF Answered
      <4>2. /\ client' = [client EXCEPT !.phase = "idle", !.value = Byte(rx.buff[2])]
            /\ expected' = Done(expected, client.body)
        BY <3>3, <4>1 DEF Receive, Done
      <4>3. /\ client'.phase = "idle" /\ client'.number = client.number
            /\ client'.body = client.body /\ client'.before = client.before
            /\ client'.value = Byte(rx.buff[2])
        BY <4>2 DEF TInv, ClientOK
      <4>4. Done(expected', client.body) = expected'
        BY <4>2, <2>1, <1>5, DoneTwice
      <4>5. client.body[1] = RamRead => client'.value = expected'[client.body[2]]
        <5>1. SUFFICES ASSUME client.body[1] = RamRead
                       PROVE  Byte(rx.buff[2]) = expected'[client.body[2]]
          BY <4>3
        <5>2. mem' = mem /\ mem' = expected'
          BY <5>1, <2>1, <3>1, <4>2 DEF Done, RamRead, RamWrite
        <5> QED
          BY <5>2, <1>3, <2>1 DEF Byte
      <4>6. Told(who)'
        BY <2>3, <3>1, <4>2, <4>3, <4>4, <4>5 DEF Told
      <4>7. Requests' = Requests
        BY <4>3 DEF Requests, Current, Previous
      <4> QED
        BY <4>6, <4>7, <1>1 DEF GoodLine, Received
    <3> QED
      BY <3>2, <3>3, <1>4
  <2> QED
    BY <2>5, <2>6, <1>5
<1>9. CASE w = 0
  <2>1. /\ rx.id = Previous.id /\ client.before \in Bodies /\ mem' = Done(mem, client.before)
    BY <1>3, <1>7, <1>9, TwoRequests
  <2>2. ~IsFrame(rx, Current)
    BY <2>1, TwoRequests DEF IsFrame
  <2>3. client.phase = "waiting" /\ mem = expected
    BY <2>2, <1>1, <1>5 DEF Told, AllCurrent
  <2>4. mem' = expected
    BY <2>1, <2>3, <1>1 DEF Told
  <2>5. ~Answered
    BY <2>1, TwoRequests DEF Answered
  <2>6. UNCHANGED <<client, expected>>
    BY <2>5, <1>4 DEF Receive
  <2> QED
    BY <2>3, <2>4, <2>6, <1>1 DEF GoodLine, Received, Told, Requests, Current, Previous
<1> QED
  BY <1>8, <1>9

LEMMA RequestStep ==
  ASSUME TInv, Request, NEW who, NEW pos, GoodLine(who, pos)
  PROVE  \E who2, pos2 : GoodLine(who2, pos2)'
<1>1. PICK body \in Bodies, check \in Checks :
        /\ line' = line \o FrameOf(client.number + 1, body, check)
        /\ client' = [client EXCEPT !.phase = "waiting", !.number = @ + 1, !.body = body,
                                    !.before = client.body, !.check = check]
  BY DEF Request
<1>2. /\ client.phase = "idle" /\ UNCHANGED <<scan, rx, got, overrun, mem, expected>>
      /\ line \in Seq(Byte8) /\ Len(line) \in Nat /\ client.number \in Nat
  BY LenProperties, DebugPAssumption DEF Request, TInv, LineOK, ClientOK
<1>3. /\ client'.phase = "waiting" /\ client'.number = client.number + 1
      /\ client'.body = body /\ client'.before = client.body
  BY <1>1 DEF TInv, ClientOK
<1>4. PICK R, R2 : R = Requests /\ R2 = [w \in {0, 1} |-> IF w = 1 THEN Current' ELSE Previous']
  OBVIOUS
<1>5. /\ R[1] = Current /\ R2 = Requests' /\ R2[0] = R[1]
      /\ R2[1] = Current' /\ R2[1].body = body /\ R2[1].id = Ids[(client.number + 1) % 2]
  <2>1. (client.number + 1) - 1 = client.number
    BY <1>2
  <2>2. Previous' = Current
    BY <2>1, <1>3 DEF Previous, Current
  <2> QED
    BY <2>2, <1>3, <1>4, TwoRequests DEF Requests, Current
<1>6. /\ Laid(line, R, who, pos) /\ Synced(line, scan, R, who, pos) /\ Told(who) /\ ~overrun
      /\ AllCurrent(who) /\ mem = expected
  BY <1>2, <1>4 DEF GoodLine, Told
<1>7. /\ \A i \in 1..Len(line) : who[i] = 1
      /\ got => IsFrame(rx, R[1])
  BY <1>5, <1>6 DEF AllCurrent
<1>8. line # <<>> => 1 \in 1..Len(line)
  BY <1>2, EmptySeq
<1>9. PICK who1 : /\ Laid(line, R2, who1, pos) /\ Synced(line, scan, R2, who1, pos)
                  /\ \A i \in 1..Len(line) : who1[i] = 0
  BY <1>2, <1>5, <1>6, <1>7, <1>8, AgedLaid
<1>10. PICK f : f = FrameOf(client.number + 1, body, check)
  OBVIOUS
<1>11. /\ f \in Seq(Byte8) /\ Len(f) = Size(R2[1]) /\ f[1] = Head1
       /\ \A p \in 1..Size(R2[1]) : Placed(R2[1], p, f[p])
  <2>1. client.number + 1 \in Nat
    BY <1>2
  <2> QED
    BY <2>1, <1>5, <1>10, FrameFits
<1>12. PICK who2, pos2 :
         /\ Laid(line \o f, R2, who2, pos2) /\ Synced(line \o f, scan, R2, who2, pos2)
         /\ \A i \in 1..Len(line \o f) : who2[i] = 1 \/ (i \in 1..Len(line) /\ who2[i] = who1[i])
  BY <1>2, <1>5, <1>9, <1>11, SendLaid
<1>13. \A i \in 1..Len(line') : who2[i] >= 0
  <2>1. \A i \in 1..Len(line') : who2[i] = 1 \/ who2[i] = 0
    BY <1>1, <1>9, <1>10, <1>12
  <2> QED
    BY <2>1
<1>14. Received(who2)'
  <2>1. got' => IsFrame(rx', R2[0])
    BY <1>2, <1>5, <1>7
  <2> QED
    BY <2>1, <1>5, <1>13 DEF Received
<1>15. Told(who2)'
  <2>1. client.body \in Bodies => client.number > 0
    BY BodyIs DEF TInv, ClientOK
  <2>2. client.body \in Bodies => Done(expected, client.body) = expected
    BY <2>1, <1>2, <1>6 DEF Told
  <2> QED
    BY <2>2, <1>2, <1>3, <1>6 DEF Told
<1>16. Laid(line', R2, who2, pos2) /\ Synced(line', scan', R2, who2, pos2)
  BY <1>1, <1>2, <1>10, <1>12
<1>17. GoodLine(who2, pos2)'
  BY <1>2, <1>5, <1>6, <1>14, <1>15, <1>16 DEF GoodLine
<1> QED
  BY <1>17

LEMMA ResendStep ==
  ASSUME TInv, Resend, NEW who, NEW pos, GoodLine(who, pos)
  PROVE  \E who2, pos2 : GoodLine(who2, pos2)'
<1>1. /\ line' = line \o FrameOf(client.number, client.body, client.check)
      /\ UNCHANGED <<scan, rx, got, overrun, mem, client, expected>>
      /\ client.phase = "waiting"
  BY DEF Resend
<1>2. /\ line \in Seq(Byte8) /\ client.number \in Nat
      /\ client.body \in Bodies /\ client.check \in Checks
  BY <1>1, DebugPAssumption DEF TInv, LineOK, ClientOK
<1>3. PICK R : R = Requests
  OBVIOUS
<1>4. /\ R = Requests' /\ R[1] = Current /\ R[1].body = client.body
      /\ R[1].id = Ids[client.number % 2]
  BY <1>1, <1>3, TwoRequests DEF Requests, Current, Previous
<1>5. /\ Laid(line, R, who, pos) /\ Synced(line, scan, R, who, pos) /\ ~overrun
      /\ Received(who) /\ Told(who)
  BY <1>3 DEF GoodLine
<1>6. PICK f : f = FrameOf(client.number, client.body, client.check)
  OBVIOUS
<1>7. /\ f \in Seq(Byte8) /\ Len(f) = Size(R[1]) /\ f[1] = Head1
      /\ \A p \in 1..Size(R[1]) : Placed(R[1], p, f[p])
  BY <1>2, <1>4, <1>6, FrameFits
<1>8. PICK who2, pos2 :
        /\ Laid(line \o f, R, who2, pos2) /\ Synced(line \o f, scan, R, who2, pos2)
        /\ \A i \in 1..Len(line \o f) : who2[i] = 1 \/ (i \in 1..Len(line) /\ who2[i] = who[i])
  BY <1>2, <1>4, <1>5, <1>7, SendLaid
<1>9. \A i \in 1..Len(line') : who2[i] = 1 \/ (i \in 1..Len(line) /\ who2[i] = who[i])
  BY <1>1, <1>6, <1>8
<1>10. Received(who2)'
  <2>1. got => \E w \in {0, 1} : /\ IsFrame(rx, R[w])
                                 /\ \A i \in 1..Len(line) : who[i] >= w
    BY <1>3, <1>5 DEF Received
  <2>2. ASSUME NEW w \in {0, 1}, \A i \in 1..Len(line) : who[i] >= w
        PROVE  \A i \in 1..Len(line') : who2[i] >= w
    <3>1. 1 >= w
      OBVIOUS
    <3> QED
      BY <2>2, <3>1, <1>9
  <2> QED
    BY <2>1, <2>2, <1>1, <1>4 DEF Received
<1>11. AllCurrent(who) => AllCurrent(who2)'
  BY <1>1, <1>9 DEF AllCurrent, Current
<1>12. Told(who2)'
  BY <1>1, <1>5, <1>11 DEF Told
<1>13. Laid(line', R, who2, pos2) /\ Synced(line', scan', R, who2, pos2)
  BY <1>1, <1>6, <1>8
<1>14. GoodLine(who2, pos2)'
  BY <1>1, <1>4, <1>5, <1>10, <1>12, <1>13 DEF GoodLine
<1> QED
  BY <1>14

LEMMA DInvStep ==
  ASSUME HeadNotInside, DInv, [Next]_vars
  PROVE  DInv'
<1>1. TInv /\ TInv'
  BY TInvStep DEF DInv
<1>2. SUFFICES ASSUME ~faults'.damaged
               PROVE  \E who, pos : GoodLine(who, pos)'
  BY <1>1 DEF DInv
<1>3. ~faults.damaged
  <2>1. CASE HandleFrame
    BY <2>1, <1>1, <1>2 DEF HandleFrame, TInv, FlagsOK
  <2>2. CASE Damage
    BY <2>2, <1>2 DEF Damage
  <2> QED
    BY <2>1, <2>2, <1>2 DEF Next, ScanByte, Request, Resend, vars
<1>4. PICK who, pos : GoodLine(who, pos)
  BY <1>3 DEF DInv
<1>5. CASE HandleFrame
  BY <1>1, <1>4, <1>5, HandleStep
<1>6. CASE UNCHANGED vars
  <2>1. GoodLine(who, pos)'
    BY <1>4, <1>6 DEF vars, GoodLine, Requests, Current, Previous, Received, Told, AllCurrent
  <2> QED
    BY <2>1
<1>7. ~Damage
  BY <1>2 DEF Damage
<1> QED
  BY <1>1, <1>4, <1>5, <1>6, <1>7, ScanStep, RequestStep, ResendStep DEF Next

LEMMA DInvInit ==
  ASSUME Init
  PROVE  DInv
<1>1. /\ line = <<>> /\ Len(line) = 0 /\ scan.status = "init" /\ ~got /\ ~overrun
      /\ mem = expected /\ client.phase = "idle" /\ client.number = 0 /\ client.before = <<>>
  BY EmptySeq DEF Init, Blank
<1>2. PICK who : who = <<>>
  OBVIOUS
<1>3. 1..Len(line) = {}
  BY <1>1
<1>4. Laid(line, Requests, who, who) /\ Synced(line, scan, Requests, who, who)
  BY <1>1, <1>3 DEF Laid, Synced
<1>5. Received(who) /\ Told(who)
  BY <1>1, <1>3 DEF Received, Told, AllCurrent
<1> QED
  BY <1>1, <1>4, <1>5, TInvInit DEF DInv, GoodLine

LEMMA DebugPInvariant ==
  ASSUME HeadNotInside
  PROVE  Spec => []DInv
<1>1. Init => DInv
  BY DInvInit
<1>2. DInv /\ [Next]_vars => DInv'
  BY DInvStep
<1> QED
  BY <1>1, <1>2, PTL DEF Spec

\* As long as the line is good, the parser completes only frames the client
\* sent: the one of its request or, late, of the one before it.
THEOREM NoCommandMadeUp ==
  ASSUME HeadNotInside
  PROVE  Spec => []NoPhantom
<1>1. DInv => NoPhantom
  <2> SUFFICES ASSUME DInv, got, ~faults.damaged
               PROVE  Holds(client.body, client.number) \/ Holds(client.before, client.number - 1)
    BY DEF NoPhantom
  <2>1. PICK w \in {0, 1} : IsFrame(rx, Requests[w])
    BY DEF DInv, GoodLine, Received
  <2>2. Requests[1] = [body |-> client.body, id |-> Ids[client.number % 2]]
        /\ Requests[0] = [body |-> client.before, id |-> Ids[(client.number - 1) % 2]]
    BY DEF Requests, Current, Previous
  <2>3. Requests[w].body # <<>>
    BY <2>1, BodyIs DEF IsFrame
  <2> QED
    BY <2>1, <2>2, <2>3 DEF IsFrame, Holds
<1> QED
  BY <1>1, DebugPInvariant, PTL

\* As long as no byte is damaged, a client that has its answer has been told the
\* truth: the memory holds what was written, and a value read is what it holds.
THEOREM WhatIsToldIsTrue ==
  ASSUME HeadNotInside
  PROVE  Spec => []AnswersTrue
<1>1. DInv => AnswersTrue
  BY DEF DInv, GoodLine, Told, AnswersTrue
<1> QED
  BY <1>1, DebugPInvariant, PTL
=============================================================================
