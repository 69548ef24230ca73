---------------------------- MODULE TraceProofs -----------------------------
(***************************************************************************)
(* The trace recorder for every memory, any channels, counts, rates and    *)
(* frames: what is sent lies inside the memory, a recording ends the asked *)
(* number of samples after its trigger, the client receives it from its    *)
(* beginning and in order, and it is the newest samples, whole, in order   *)
(* and none missing.                                                       *)
(***************************************************************************)
EXTENDS Trace, SequenceTheorems, TLAPS

Statuses == {"idle", "running", "trigged", "done"}
Phases == {"new", "setup", "recording", "polling", "sector1", "sector2"}

RecState == [status : Statuses, polling : BOOLEAN, trig : 0..2,
             pre : Nat, post : Nat, rateLeft : Nat]
ConfState == [pre : Nat, post : Nat, rate : Nat, op : Ops, ops : [{0, 1} -> Ops],
              setIdx : {0, 1}]
Part == [at : Nat, left : Nat]
TxState == [sector : {0, 1}, p1 : Part, p2 : Part, waiting : BOOLEAN, pause : 0..WaitRuns]

\* Which status the recorder can have while the client is at what.
Stage ==
  /\ client.phase \in Phases
  /\ client.phase \in {"new", "setup"} => rec.status = "idle"
  /\ client.phase = "polling" => rec.status = "running"
  /\ client.phase = "recording" => rec.status # "idle"
  /\ client.phase \in {"sector1", "sector2"} => rec.status = "done"
  /\ rec.polling <=> client.phase = "polling"

\* The counts of samples, and those that are left after the trigger.
Counts ==
  /\ conf.post \in PostCounts \cup {0}
  /\ hist.since \in Nat
  /\ Recorded /\ rec.status = "running" => rec.post = conf.post
  /\ Recorded /\ rec.status = "trigged" => hist.since + rec.post = conf.post
  /\ Recorded /\ rec.status = "done" => hist.since = conf.post

\* The channels that are set fit into the memory together.
Channels ==
  /\ chan \in [num : 0..MaxChannel, bytes : Nat]
  /\ MaxChannel * chan.bytes <= chan.num * BuffLength
  /\ chan.num <= chan.bytes
  /\ client.phase \notin {"new", "setup"} => chan.num > 0
  /\ pollLen = IF client.phase = "new" THEN 4 ELSE chan.bytes
  /\ client.phase = "new" => chan.bytes = 0

\* The ring is one of cells of the memory, of more than a sample while one is
\* recorded, and is not empty once there was a trigger.
RingShape ==
  /\ ring = [mem |-> ring.mem, len |-> ring.len, rd |-> ring.rd, wr |-> ring.wr]
  /\ DOMAIN ring.mem = 0..BuffLength
  /\ ring.len \in 0..(BuffLength + 1) /\ ring.rd \in Nat /\ ring.wr \in Nat
  /\ client.phase \notin {"new", "setup"} => ring.rd < ring.len /\ ring.wr < ring.len
  /\ Recorded => ring.len > chan.bytes
  /\ Recorded /\ rec.status # "running" => ring.rd # ring.wr

\* What is left to send lies in the memory.
Sendable(p) == p \in Part /\ p.at + p.left <= BuffLength + 1

Types ==
  /\ rec \in RecState /\ conf \in ConfState /\ tx \in TxState
  /\ client = [phase |-> client.phase, got |-> client.got]

TInv ==
  /\ Types /\ Stage /\ Counts /\ Channels /\ RingShape
  /\ Sendable(tx.p1) /\ Sendable(tx.p2)

-----------------------------------------------------------------------------
(***************************************************************************)
(* TRACE_Run: the sample, and the frame that is sent.                      *)
(***************************************************************************)
\* What a sample that looks for the trigger does to the counters.
LEMMA WatchIs ==
  ASSUME rec \in RecState, conf \in ConfState, NEW values \in [{0, 1} -> BOOLEAN], Watch(values)
  PROVE  \E hit \in BOOLEAN, trig \in 0..2, pre \in Nat :
           /\ rec' = [rec EXCEPT !.status = IF hit THEN "trigged" ELSE "running",
                                 !.trig = trig, !.pre = pre, !.rateLeft = conf.rate]
           /\ Record(Sample(hist.next), hit)
<1> DEFINE first  == rec.trig = 0
           hit0   == first /\ Hits(conf.ops[0], values[0], rec.pre)
           pre0   == IF first THEN PreAfter(conf.ops[0], rec.pre) ELSE rec.pre
           second == hit0 \/ rec.trig = 1
           hit1   == second /\ Hits(conf.ops[1], values[1], pre0)
           trig   == IF hit1 THEN 2 ELSE IF second THEN 1 ELSE rec.trig
           pre    == IF second THEN PreAfter(conf.ops[1], pre0) ELSE pre0
<1>1. /\ rec' = [rec EXCEPT !.status = IF hit1 THEN "trigged" ELSE "running",
                            !.trig = trig, !.pre = pre, !.rateLeft = conf.rate]
      /\ Record(Sample(hist.next), hit1)
  BY Zenon DEF Watch
<1>2. rec.pre \in Nat /\ rec.trig \in 0..2
  BY DEF RecState
<1>3. \A op, n : n \in Nat => PreAfter(op, n) \in Nat
  BY DEF PreAfter
<1>4. pre0 \in Nat
  BY <1>2, <1>3
<1>5. pre \in Nat
  BY <1>3, <1>4
<1>6. trig \in 0..2
  BY <1>2
<1>7. hit1 \in BOOLEAN
  OBVIOUS
<1> HIDE DEF hit1, trig, pre
<1> QED
  BY <1>1, <1>5, <1>6, <1>7, Zenon

\* Neither the status nor the counts go wrong when a sample is due.
LEMMA SampleKeeps ==
  ASSUME TInv, Skip \/ Collect, conf' = conf, client'.phase = client.phase
  PROVE  rec' \in RecState /\ Stage' /\ Counts'
<1> USE DEF TInv, Types, RecState, ConfState, Statuses, Phases
<1>1. CASE Skip
  <2>1. rec' = [rec EXCEPT !.rateLeft = @ - 1] /\ hist' = hist /\ rec.rateLeft > 1
    BY <1>1 DEF Skip, Due
  <2>2. /\ rec' \in RecState /\ rec'.status = rec.status /\ rec'.post = rec.post
        /\ rec'.polling = rec.polling
    BY <2>1
  <2> QED
    BY <2>1, <2>2 DEF Stage, Counts, Recorded
<1>2. CASE Rest
  <2>1. rec' = [rec EXCEPT !.rateLeft = conf.rate] /\ hist' = hist
    BY <1>2 DEF Rest
  <2>2. /\ rec' \in RecState /\ rec'.status = rec.status /\ rec'.post = rec.post
        /\ rec'.polling = rec.polling
    BY <2>1
  <2> QED
    BY <2>1, <2>2 DEF Stage, Counts, Recorded
<1>3. CASE Finish
  <2>1. /\ rec' = [rec EXCEPT !.status = "done", !.rateLeft = conf.rate] /\ hist' = hist
        /\ rec.status = "trigged" /\ rec.post = 0
    BY <1>3 DEF Finish
  <2>2. /\ rec' \in RecState /\ rec'.status = "done" /\ rec'.post = rec.post
        /\ rec'.polling = rec.polling
    BY <2>1
  <2> QED
    BY <2>1, <2>2 DEF Stage, Counts, Recorded
<1>4. CASE Follow
  <2>1. rec.post > 0 /\ rec' = [rec EXCEPT !.post = @ - 1, !.rateLeft = conf.rate]
        /\ rec.status = "trigged"
    BY <1>4 DEF Follow
  <2>2. hist'.since = IF hist.since < Numbers THEN hist.since + 1 ELSE hist.since
    BY <1>4 DEF Follow, Record
  <2>3. Recorded
    BY <2>1 DEF Stage, Recorded
  <2>4. hist.since + rec.post = conf.post /\ hist.since \in Nat /\ rec.post \in Nat
    BY <2>1, <2>3 DEF Counts
  <2>5. conf.post < Numbers /\ Numbers \in Nat /\ conf.post \in Nat
    BY <2>1, <2>4, TraceAssumption DEF Counts
  <2>6. hist'.since = hist.since + 1
    BY <2>1, <2>2, <2>4, <2>5
  <2>7. rec' \in RecState /\ rec'.status = "trigged" /\ rec'.post = rec.post - 1
        /\ rec'.polling = rec.polling
    <3>1. rec.post - 1 \in Nat
      BY <2>1, <2>4
    <3> QED
      BY <2>1, <3>1
  <2>8. Stage'
    BY <2>1, <2>7 DEF Stage
  <2>9. Counts'
    BY <2>4, <2>6, <2>7 DEF Counts
  <2> QED
    BY <2>7, <2>8, <2>9
<1>5. CASE Poll
  <2>1. rec' = [rec EXCEPT !.rateLeft = conf.rate] /\ rec.polling
    BY <1>5 DEF Poll
  <2>2. hist'.since = IF hist.since < Numbers THEN hist.since + 1 ELSE hist.since
    BY <1>5 DEF Poll, Record
  <2>3. /\ rec' \in RecState /\ rec'.status = rec.status /\ rec'.post = rec.post
        /\ rec'.polling = rec.polling
    BY <2>1
  <2>4. hist'.since \in Nat /\ ~Recorded'
    BY <2>1, <2>2, TraceAssumption DEF Counts, Stage, Recorded
  <2> QED
    BY <2>3, <2>4 DEF Stage, Counts
<1>6. ASSUME NEW values \in [{0, 1} -> BOOLEAN], Watch(values)
      PROVE  rec' \in RecState /\ Stage' /\ Counts'
  <2>1. rec.status = "running" /\ ~rec.polling
    BY <1>6 DEF Watch
  <2>2. PICK hit \in BOOLEAN, trig \in 0..2, pre \in Nat :
           /\ rec' = [rec EXCEPT !.status = IF hit THEN "trigged" ELSE "running",
                                 !.trig = trig, !.pre = pre, !.rateLeft = conf.rate]
           /\ Record(Sample(hist.next), hit)
    BY <1>6, WatchIs
  <2>3. /\ rec' \in RecState /\ rec'.status = IF hit THEN "trigged" ELSE "running"
        /\ rec'.polling = rec.polling /\ rec'.post = rec.post
    BY <2>2
  <2>4. hist'.since \in Nat /\ (hit => hist'.since = 0)
    BY <2>2, TraceAssumption DEF Record, Counts
  <2>5. Stage'
    BY <2>1, <2>3 DEF Stage
  <2>6. Counts'
    BY <2>1, <2>3, <2>4 DEF Counts, Stage, Recorded
  <2> QED
    BY <2>3, <2>5, <2>6
<1> QED
  BY <1>1, <1>2, <1>3, <1>4, <1>5, <1>6 DEF Collect

-----------------------------------------------------------------------------
(***************************************************************************)
(* The ring.                                                               *)
(***************************************************************************)
LEMMA ModOnce ==
  ASSUME NEW n \in Nat, n > 0, NEW x \in Nat, x < n + n
  PROVE  x % n = IF x < n THEN x ELSE x - n
<1>1. CASE x < n
  BY <1>1, SMT
<1>2. CASE x >= n
  <2>1. x = 1 * n + (x - n) /\ x - n \in Nat /\ x - n < n
    BY <1>2
  <2> QED
    BY <1>2, <2>1, SMT
<1> QED
  BY <1>1, <1>2

LEMMA PointersApart ==
  ASSUME NEW len \in Nat, NEW rd \in Nat, NEW wr \in Nat, rd < len, wr < len,
         NEW n \in Nat, n > 0, n < len,
         NEW cur, cur = (wr + len - rd) % len, NEW w, w = (wr + n) % len,
         NEW new, new = IF cur + n < len THEN rd ELSE (w + 1) % len
  PROVE  new # w
<1>1. w = IF wr + n < len THEN wr + n ELSE wr + n - len
  <2>1. wr + n \in Nat /\ wr + n < len + len /\ len > 0
    OBVIOUS
  <2> QED
    BY <2>1, ModOnce
<1>2. cur = IF wr >= rd THEN wr - rd ELSE wr + len - rd
  <2> DEFINE x == wr + len - rd
  <2>1. x \in Nat /\ x < len + len /\ len > 0
    OBVIOUS
  <2>2. cur = IF x < len THEN x ELSE x - len
    <3> HIDE DEF x
    <3>1. x % len = IF x < len THEN x ELSE x - len
      BY <2>1, ModOnce
    <3> QED
      BY <3>1 DEF x
  <2> QED
    BY <2>2
<1>3. (w + 1) % len = IF w + 1 < len THEN w + 1 ELSE w + 1 - len
  <2>1. w + 1 \in Nat /\ w + 1 < len + len /\ len > 0
    BY <1>1
  <2> QED
    BY <2>1, ModOnce
<1>4. w \in Nat
  BY <1>1
<1> DEFINE next == (w + 1) % len
<1>5. next = IF w + 1 < len THEN w + 1 ELSE w + 1 - len
  BY <1>3
<1>6. new = IF cur + n < len THEN rd ELSE next
  OBVIOUS
<1> HIDE DEF next
<1> QED
  BY <1>1, <1>2, <1>4, <1>5, <1>6

\* A whole FIFOA_ForceWrite leaves the pointers in the ring; the bytes of a
\* write that is shorter than the ring do not leave it empty.
LEMMA ForceWriteShape ==
  ASSUME NEW r, r.len \in Nat, r.rd \in Nat, r.wr \in Nat, r.rd < r.len, r.wr < r.len,
         NEW src, Len(src) \in Nat, NEW f, f = ForceWrite(r, src)
  PROVE  /\ f = [mem |-> f.mem, len |-> f.len, rd |-> f.rd, wr |-> f.wr]
         /\ DOMAIN f.mem = DOMAIN r.mem /\ f.len = r.len
         /\ f.rd \in Nat /\ f.wr \in Nat /\ f.rd < f.len /\ f.wr < f.len
         /\ Len(src) > 0 /\ Len(src) < r.len => f.rd # f.wr
<1> DEFINE n == Len(src)
           wr == (r.wr + n) % r.len
           rd == IF CurLength(r) + n < r.len THEN r.rd ELSE (wr + 1) % r.len
<1>1. /\ f = [mem |-> f.mem, len |-> f.len, rd |-> f.rd, wr |-> f.wr]
      /\ DOMAIN f.mem = DOMAIN r.mem /\ f.len = r.len /\ f.wr = wr /\ f.rd = rd
  BY DEF ForceWrite
<1>2. wr \in Nat /\ wr < r.len
  BY SMT
<1> HIDE DEF wr
<1>3. rd \in Nat /\ rd < r.len
  <2>1. (wr + 1) % r.len \in Nat /\ (wr + 1) % r.len < r.len
    BY <1>2, SMT
  <2> QED
    BY <2>1
<1>4. ASSUME n > 0, n < r.len PROVE rd # wr
  <2> DEFINE cur == (r.wr + r.len - r.rd) % r.len
  <2>1. rd = IF cur + n < r.len THEN r.rd ELSE (wr + 1) % r.len
    BY DEF CurLength
  <2>2. wr = (r.wr + n) % r.len /\ n \in Nat
    BY DEF wr
  <2>3. cur = (r.wr + r.len - r.rd) % r.len
    OBVIOUS
  <2> DEFINE len == r.len
           from == r.rd
           to == r.wr
  <2>4. /\ len \in Nat /\ from \in Nat /\ to \in Nat /\ n \in Nat
        /\ from < len /\ to < len /\ n > 0 /\ n < len
        /\ cur = (to + len - from) % len /\ wr = (to + n) % len
    BY <1>4, <2>2
  <2>5. rd = IF cur + n < len THEN from ELSE (wr + 1) % len
    BY <2>1
  <2> HIDE DEF cur, n, rd, len, from, to
  <2> QED
    BY <2>4, <2>5, PointersApart
<1> HIDE DEF rd
<1> QED
  BY <1>1, <1>2, <1>3, <1>4

\* The newest bytes lie in the memory, in two runs the first of which is not
\* empty if there is anything in the ring and anything is wanted.
LEMMA SectorsInside ==
  ASSUME ring.rd \in Nat, ring.wr \in Nat, ring.len \in Nat, ring.rd < ring.len,
         ring.wr < ring.len, TotalLen \in Nat
  PROVE  LET d == DataSector
         IN  /\ d.at1 \in Nat /\ d.len1 \in Nat /\ d.at1 + d.len1 <= ring.len
             /\ d.at2 \in Nat /\ d.len2 \in Nat /\ d.at2 + d.len2 <= ring.len
             /\ TotalLen > 0 /\ ring.rd # ring.wr => d.len1 > 0
<1>1. CASE ring.wr >= ring.rd
  BY <1>1 DEF DataSector, DataSectors
<1>2. CASE ring.wr < ring.rd
  BY <1>2 DEF DataSector, DataSectors
<1> QED
  BY <1>1, <1>2

\* A sample or a frame that is recorded leaves the ring in shape.
LEMMA RecordShape ==
  ASSUME TInv, client.phase \notin {"new", "setup"}, NEW bytes, NEW triggering,
         Len(bytes) \in Nat, Record(bytes, triggering)
  PROVE  /\ ring' = [mem |-> ring'.mem, len |-> ring'.len, rd |-> ring'.rd, wr |-> ring'.wr]
         /\ DOMAIN ring'.mem = 0..BuffLength /\ ring'.len = ring.len
         /\ ring'.rd \in Nat /\ ring'.wr \in Nat /\ ring'.rd < ring.len /\ ring'.wr < ring.len
         /\ Len(bytes) > 0 /\ Len(bytes) < ring.len => ring'.rd # ring'.wr
<1>1. /\ ring.len \in Nat /\ ring.rd \in Nat /\ ring.wr \in Nat
      /\ ring.rd < ring.len /\ ring.wr < ring.len /\ DOMAIN ring.mem = 0..BuffLength
  BY TraceAssumption DEF TInv, RingShape
<1>2. ring' = ForceWrite(ring, bytes)
  BY DEF Record
<1> QED
  BY <1>1, <1>2, ForceWriteShape

LEMMA SampleLength ==
  ASSUME chan.bytes \in Nat, NEW n
  PROVE  Len(Sample(n)) = chan.bytes /\ Len(Frame(n)) = chan.bytes + 1
<1>1. Sample(n) \in Seq({<<n, i>> : i \in 1..chan.bytes}) /\ Len(Sample(n)) = chan.bytes
  BY DEF Sample
<1>2. <<<<n, 0>>>> \in Seq({<<n, 0>>}) /\ Len(<<<<n, 0>>>>) = 1
  OBVIOUS
<1>3. Len(Frame(n)) = 1 + chan.bytes
  BY <1>1, <1>2 DEF Frame
<1> QED
  BY <1>1, <1>3

LEMMA SampleKeepsRing ==
  ASSUME TInv, Skip \/ Collect, conf' = conf, chan' = chan, client'.phase = client.phase
  PROVE  RingShape'
<1>1. CASE Skip \/ Finish \/ Rest
  <2>1. ring' = ring /\ (rec'.status = rec.status \/ rec.status = "trigged")
    BY <1>1 DEF Skip, Finish, Rest, TInv, Types, RecState
  <2> QED
    BY <1>1, <2>1 DEF TInv, RingShape, Recorded
<1>2. CASE (\E values \in [{0, 1} -> BOOLEAN] : Watch(values)) \/ Poll \/ Follow
  <2>1. PICK bytes, triggering :
           /\ Record(bytes, triggering) /\ rec.status \in {"running", "trigged"}
           /\ \/ bytes = Sample(hist.next)
              \/ bytes = Frame(hist.next) /\ rec.polling
    BY <1>2, Zenon DEF Watch, Poll, Follow
  <2>2. client.phase \notin {"new", "setup"}
    BY <2>1 DEF TInv, Stage
  <2>3. chan.bytes \in Nat /\ chan.bytes > 0
    BY <2>2 DEF TInv, Channels
  <2>4. Len(bytes) \in Nat /\ (~rec.polling => Len(bytes) = chan.bytes)
    BY <2>1, <2>3, SampleLength
  <2>5. /\ ring' = [mem |-> ring'.mem, len |-> ring'.len, rd |-> ring'.rd, wr |-> ring'.wr]
        /\ DOMAIN ring'.mem = 0..BuffLength /\ ring'.len = ring.len
        /\ ring'.rd \in Nat /\ ring'.wr \in Nat /\ ring'.rd < ring.len /\ ring'.wr < ring.len
        /\ Len(bytes) > 0 /\ Len(bytes) < ring.len => ring'.rd # ring'.wr
    BY <2>1, <2>2, <2>4, RecordShape
  <2>6. Recorded => ~rec.polling /\ ring.len > chan.bytes
    BY DEF TInv, Stage, RingShape, Recorded
  <2> QED
    BY <2>3, <2>4, <2>5, <2>6 DEF TInv, RingShape, Recorded
<1> QED
  BY <1>1, <1>2 DEF Collect

\* A frame, or a pause, leaves what is left to send in the memory.
LEMMA SendShape ==
  ASSUME TInv, (tx.waiting /\ Pause) \/ (~tx.waiting /\ Send)
  PROVE  /\ tx' \in TxState /\ tx'.sector = tx.sector
         /\ Sendable(tx'.p1) /\ Sendable(tx'.p2)
         /\ client' = [phase |-> client'.phase, got |-> client'.got]
         /\ client'.phase = client.phase
<1> USE DEF TxState, Part, Sendable
<1>1. /\ tx \in TxState /\ Sendable(tx.p1) /\ Sendable(tx.p2)
      /\ client = [phase |-> client.phase, got |-> client.got]
  BY DEF TInv, Types
<1>2. CASE Pause
  <2>1. tx.pause \in 0..WaitRuns /\ WaitRuns \in Nat
    BY <1>1, TraceAssumption
  <2>2. CASE tx.pause + 1 > WaitRuns
    <3>1. tx' = [tx EXCEPT !.waiting = FALSE, !.pause = 0] /\ client' = client
      BY <1>2, <2>2 DEF Pause
    <3>2. 0 \in 0..WaitRuns
      BY <2>1
    <3> QED
      BY <1>1, <3>1, <3>2
  <2>3. CASE ~(tx.pause + 1 > WaitRuns)
    <3>1. tx.pause + 1 \in 0..WaitRuns /\ tx' = [tx EXCEPT !.pause = @ + 1] /\ client' = client
      BY <1>2, <2>1, <2>3 DEF Pause
    <3> QED
      BY <1>1, <3>1
  <2> QED
    BY <2>2, <2>3
<1>3. ASSUME NEW p, Sendable(p) PROVE Sendable(After(p))
  BY <1>3, TraceAssumption DEF After
<1>4. ASSUME NEW at, NEW n, SendBytes(at, n)
      PROVE  client'.phase = client.phase
             /\ client' = [phase |-> client'.phase, got |-> client'.got]
  BY <1>1, <1>4 DEF SendBytes
<1>5. CASE SendP1
  <2>1. tx' = [tx EXCEPT !.p1 = After(tx.p1), !.waiting = TRUE]
        /\ SendBytes(tx.p1.at, FrameSize(tx.p1))
    BY <1>5 DEF SendP1
  <2>2. Sendable(After(tx.p1))
    BY <1>1, <1>3
  <2> QED
    BY <1>1, <1>4, <2>1, <2>2
<1>6. CASE SendP2
  <2>1. tx' = [tx EXCEPT !.p2 = After(tx.p2), !.waiting = TRUE]
        /\ SendBytes(tx.p2.at, 1)
    BY <1>6 DEF SendP2
  <2>2. Sendable(After(tx.p2))
    BY <1>1, <1>3
  <2> QED
    BY <1>1, <1>4, <2>1, <2>2
<1>7. CASE UNCHANGED <<tx, client>>
  BY <1>1, <1>7
<1> QED
  BY <1>2, <1>5, <1>6, <1>7 DEF Send

LEMMA RunKeeps ==
  ASSUME TInv, TraceRun
  PROVE  TInv'
<1>1. /\ Skip \/ Collect
      /\ chan' = chan /\ pollLen' = pollLen /\ conf' = conf
      /\ (tx.waiting /\ Pause) \/ (~tx.waiting /\ Send)
  BY DEF TraceRun
<1>2. /\ tx' \in TxState /\ Sendable(tx'.p1) /\ Sendable(tx'.p2)
      /\ client' = [phase |-> client'.phase, got |-> client'.got]
      /\ client'.phase = client.phase
  BY <1>1, SendShape
<1>3. rec' \in RecState /\ Stage' /\ Counts'
  BY <1>1, <1>2, SampleKeeps
<1>4. RingShape'
  BY <1>1, <1>2, SampleKeepsRing
<1>5. Channels'
  BY <1>1, <1>2 DEF TInv, Channels
<1> QED
  BY <1>1, <1>2, <1>3, <1>4, <1>5 DEF TInv, Types

-----------------------------------------------------------------------------
(***************************************************************************)
(* The commands.                                                           *)
(***************************************************************************)
LEMMA TInvInit == Init => TInv
<1> SUFFICES ASSUME Init PROVE TInv
  OBVIOUS
<1>1. Types
  BY TraceAssumption DEF Init, Types, RecState, ConfState, TxState, Part, Statuses, Ops
<1>2. Stage /\ Counts /\ RingShape
  BY TraceAssumption DEF Init, Stage, Counts, RingShape, NoRing, Fresh, Recorded, Phases
<1>3. Channels
  BY TraceAssumption DEF Init, Channels
<1>4. Sendable(tx.p1) /\ Sendable(tx.p2)
  BY TraceAssumption DEF Init, Sendable, Part
<1> QED
  BY <1>1, <1>2, <1>3, <1>4 DEF TInv

LEMMA ClearKeeps ==
  ASSUME TInv, Clear
  PROVE  TInv'
<1> USE DEF TInv, Clear
<1>1. Types'
  BY DEF Types, RecState, ConfState, TxState, Statuses
<1>2. Stage' /\ Counts'
  BY DEF Stage, Counts, Types, RecState, ConfState, Fresh, Recorded, Phases
<1>3. RingShape'
  BY TraceAssumption DEF RingShape, NoRing, Recorded
<1>4. Channels'
  BY TraceAssumption DEF Channels
<1>5. Sendable(tx.p1)' /\ Sendable(tx.p2)'
  BY DEF Types, TxState
<1> QED
  BY <1>1, <1>2, <1>3, <1>4, <1>5

LEMMA SetChannelKeeps ==
  ASSUME TInv, NEW l \in Lengths, SetChannel(l)
  PROVE  TInv'
<1>1. /\ client.phase = "setup" /\ chan.num < MaxChannel
      /\ chan' = [num |-> chan.num + 1, bytes |-> chan.bytes + l]
      /\ pollLen' = pollLen + l
      /\ UNCHANGED <<ring, conf, rec, tx, client, hist>>
  BY DEF SetChannel
<1>2. l \in Nat /\ l > 0 /\ MaxChannel * l <= BuffLength /\ MaxChannel \in Nat /\ BuffLength \in Nat
  BY TraceAssumption
<1>3. /\ chan.num \in Nat /\ chan.bytes \in Nat /\ chan.num <= chan.bytes
      /\ MaxChannel * chan.bytes <= chan.num * BuffLength /\ pollLen = chan.bytes
  BY <1>1, <1>2 DEF TInv, Channels
<1>4. MaxChannel * (chan.bytes + l) <= (chan.num + 1) * BuffLength
  BY <1>2, <1>3
<1>5. Channels'
  BY <1>1, <1>2, <1>3, <1>4 DEF Channels
<1> QED
  BY <1>1, <1>5 DEF TInv, Types, Stage, Counts, RingShape, Recorded, Sendable

LEMMA SetSampleConfigKeeps ==
  ASSUME TInv, NEW pre \in PreCounts, NEW post \in PostCounts, NEW rate \in Rates,
         NEW op \in Ops, SetSampleConfig(pre, post, rate, op)
  PROVE  TInv'
<1>1. /\ client.phase = "setup"
      /\ conf' = [conf EXCEPT !.pre = pre, !.post = post, !.rate = rate, !.op = op]
      /\ rec' = [rec EXCEPT !.pre = pre, !.post = post, !.rateLeft = 0]
      /\ UNCHANGED <<ring, chan, pollLen, tx, client, hist>>
  BY DEF SetSampleConfig
<1>2. pre \in Nat /\ post \in Nat /\ rate \in Nat
  BY TraceAssumption
<1>3. Types'
  BY <1>1, <1>2 DEF TInv, Types, RecState, ConfState
<1>4. Stage' /\ Counts' /\ RingShape'
  BY <1>1, <1>2 DEF TInv, Types, RecState, ConfState, Stage, Counts, RingShape, Recorded
<1> QED
  BY <1>1, <1>3, <1>4 DEF TInv, Channels, Sendable

LEMMA SetTriggerKeeps ==
  ASSUME TInv, SetTrigger
  PROVE  TInv'
<1>1. /\ client.phase = "setup"
      /\ conf' = [conf EXCEPT !.ops[conf.setIdx] = conf.op, !.setIdx = 1 - @]
      /\ UNCHANGED <<ring, chan, pollLen, rec, tx, client, hist>>
  BY DEF SetTrigger
<1>2. conf' \in ConfState /\ conf'.post = conf.post
  <2>1. conf \in ConfState
    BY DEF TInv, Types
  <2>2. 1 - conf.setIdx \in {0, 1} /\ [conf.ops EXCEPT ![conf.setIdx] = conf.op] \in [{0, 1} -> Ops]
    BY <2>1 DEF ConfState
  <2> QED
    BY <1>1, <2>1, <2>2 DEF ConfState
<1> QED
  BY <1>1, <1>2 DEF TInv, Types, Stage, Counts, Channels, RingShape, Recorded, Sendable

\* The capacity is a multiple of the unit, and holds at least a sample.
LEMMA RingStarts ==
  ASSUME NEW unit \in Nat, unit > 0, ring' = TraceInitial(unit)
  PROVE  /\ ring' = [mem |-> ring'.mem, len |-> ring'.len, rd |-> ring'.rd, wr |-> ring'.wr]
         /\ DOMAIN ring'.mem = 0..BuffLength
         /\ ring'.len \in 1..(BuffLength + 1) /\ ring'.rd = 0 /\ ring'.wr = 0
         /\ unit <= BuffLength => ring'.len > unit
<1>1. BuffLength \in Nat
  BY TraceAssumption
<1>2. BuffLength \div unit \in Nat /\ (BuffLength \div unit) * unit <= BuffLength
      /\ (unit <= BuffLength => BuffLength \div unit >= 1)
  BY <1>1, SMT
<1> DEFINE q == BuffLength \div unit
           all == q * unit
<1>3. q \in Nat /\ (unit <= BuffLength => q >= 1)
  BY <1>2
<1> HIDE DEF q
<1>4. all \in Nat /\ (q >= 1 => all >= unit)
  BY <1>3, SMT
<1>5. all <= BuffLength
  BY <1>2 DEF q
<1>6. ring' = Initial([c \in 0..BuffLength |-> <<>>], all + 1)
  BY DEF TraceInitial, q
<1> HIDE DEF all
<1> QED
  BY <1>1, <1>3, <1>4, <1>5, <1>6 DEF Initial

\* The channels that are set are no longer than the memory.
LEMMA ChannelsFit == TInv => chan.bytes <= BuffLength
<1> SUFFICES ASSUME TInv PROVE chan.bytes <= BuffLength
  OBVIOUS
<1> DEFINE b == chan.bytes
           n == chan.num
<1>1. /\ b \in Nat /\ n \in Nat /\ n <= MaxChannel /\ MaxChannel * b <= n * BuffLength
      /\ MaxChannel \in Nat /\ MaxChannel > 0 /\ BuffLength \in Nat
  BY TraceAssumption DEF TInv, Channels
<1> HIDE DEF b, n
<1>2. n * BuffLength <= MaxChannel * BuffLength
  BY <1>1
<1>3. ASSUME b >= BuffLength + 1 PROVE FALSE
  <2>1. MaxChannel * b >= MaxChannel * (BuffLength + 1)
    BY <1>1, <1>3
  <2>2. MaxChannel * (BuffLength + 1) = MaxChannel * BuffLength + MaxChannel
    BY <1>1
  <2>3. MaxChannel * b \in Nat /\ MaxChannel * BuffLength \in Nat /\ n * BuffLength \in Nat
        /\ MaxChannel * (BuffLength + 1) \in Nat
    BY <1>1
  <2> QED
    BY <1>1, <1>2, <2>1, <2>2, <2>3
<1> QED
  BY <1>1, <1>3 DEF b

LEMMA StartKeeps ==
  ASSUME TInv, Start
  PROVE  TInv'
<1>1. /\ client.phase = "setup" /\ chan.num > 0 /\ ring' = TraceInitial(pollLen)
      /\ rec' = [rec EXCEPT !.status = "running", !.trig = 0,
                            !.pre = conf.pre, !.post = conf.post]
      /\ tx' = [tx EXCEPT !.sector = 0] /\ client' = [client EXCEPT !.phase = "recording"]
      /\ hist' = Fresh /\ UNCHANGED <<chan, pollLen, conf>>
  BY DEF Start, ReadyToStart
<1>2. pollLen = chan.bytes /\ pollLen \in Nat /\ pollLen > 0 /\ pollLen <= BuffLength
  BY <1>1, ChannelsFit DEF TInv, Channels
<1>3. Types'
  <2>1. rec \in RecState /\ conf \in ConfState /\ tx \in TxState
        /\ client = [phase |-> client.phase, got |-> client.got]
    BY DEF TInv, Types
  <2>2. rec' \in RecState
    <3>1. conf.pre \in Nat /\ conf.post \in Nat
      BY <2>1 DEF ConfState
    <3>2. rec' = [rec EXCEPT !.status = "running", !.trig = 0,
                            !.pre = conf.pre, !.post = conf.post]
      BY <1>1
    <3>3. rec' = [status |-> "running", polling |-> rec.polling, trig |-> 0,
                  pre |-> conf.pre, post |-> conf.post, rateLeft |-> rec.rateLeft]
      BY <2>1, <3>2 DEF RecState
    <3>4. rec.polling \in BOOLEAN /\ rec.rateLeft \in Nat
      BY <2>1 DEF RecState
    <3> QED
      BY <3>1, <3>3, <3>4 DEF RecState, Statuses
  <2>3. tx' \in TxState
    BY <1>1, <2>1 DEF TxState
  <2> QED
    BY <1>1, <2>1, <2>2, <2>3 DEF Types
<1>4. client'.phase = "recording" /\ rec'.status = "running" /\ rec'.polling = rec.polling
      /\ rec'.post = conf.post
  BY <1>1 DEF TInv, Types, RecState
<1>5. Stage' /\ Counts'
  BY <1>1, <1>4 DEF TInv, Stage, Counts, Fresh, Recorded, Phases
<1>6. Channels'
  BY <1>1, <1>2, <1>4 DEF TInv, Channels
<1>7. RingShape'
  BY <1>1, <1>2, <1>4, RingStarts, TraceAssumption DEF RingShape, Recorded
<1>8. Sendable(tx'.p1) /\ Sendable(tx'.p2)
  BY <1>1 DEF TInv, Types, TxState
<1> QED
  BY <1>3, <1>5, <1>6, <1>7, <1>8 DEF TInv

LEMMA StartPollingKeeps ==
  ASSUME TInv, StartPolling
  PROVE  TInv'
<1>1. /\ client.phase = "setup" /\ chan.num > 0 /\ ring' = TraceInitial(pollLen + 1)
      /\ rec' = [rec EXCEPT !.status = "running", !.polling = TRUE]
      /\ client' = [client EXCEPT !.phase = "polling"]
      /\ hist' = Fresh /\ UNCHANGED <<chan, pollLen, conf, tx>>
  BY DEF StartPolling, ReadyToStart
<1>2. pollLen = chan.bytes /\ pollLen + 1 \in Nat /\ pollLen + 1 > 0
  BY <1>1 DEF TInv, Channels
<1>3. Types'
  BY <1>1 DEF TInv, Types, RecState, ConfState, TxState, Statuses
<1>4. client'.phase = "polling" /\ rec'.status = "running" /\ rec'.polling
  BY <1>1 DEF TInv, Types, RecState
<1>5. Stage' /\ Counts'
  BY <1>1, <1>4 DEF TInv, Stage, Counts, Fresh, Recorded, Phases
<1>6. Channels'
  BY <1>1, <1>2, <1>4 DEF TInv, Channels
<1>7. RingShape'
  BY <1>1, <1>2, <1>4, RingStarts, TraceAssumption DEF RingShape, Recorded
<1> QED
  BY <1>1, <1>3, <1>5, <1>6, <1>7 DEF TInv, Sendable

LEMMA TotalLenNat == TInv => TotalLen \in Nat
<1> SUFFICES ASSUME TInv PROVE TotalLen \in Nat
  OBVIOUS
<1> DEFINE n == pollLen * (conf.pre + conf.post)
<1>1. n \in Nat
  BY DEF TInv, Channels, Types, ConfState
<1> HIDE DEF n
<1>2. TotalLen = n % 65536
  BY DEF TotalLen, n
<1> QED
  BY <1>1, <1>2, SMT

\* The parts of the window lie in the memory.
LEMMA WindowInside ==
  ASSUME TInv, Recorded
  PROVE  LET d == DataSector
         IN  /\ d.at1 \in Nat /\ d.len1 \in Nat /\ d.at1 + d.len1 <= BuffLength + 1
             /\ d.at2 \in Nat /\ d.len2 \in Nat /\ d.at2 + d.len2 <= BuffLength + 1
             /\ TotalLen > 0 /\ ring.rd # ring.wr => d.len1 > 0
<1>1. /\ ring.len \in Nat /\ ring.len <= BuffLength + 1 /\ BuffLength \in Nat
      /\ ring.rd \in Nat /\ ring.wr \in Nat /\ ring.rd < ring.len /\ ring.wr < ring.len
  BY TraceAssumption DEF TInv, RingShape, Recorded
<1>2. TotalLen \in Nat
  BY TotalLenNat
<1> DEFINE d == DataSector
<1>3. /\ d.at1 \in Nat /\ d.len1 \in Nat /\ d.at1 + d.len1 <= ring.len
      /\ d.at2 \in Nat /\ d.len2 \in Nat /\ d.at2 + d.len2 <= ring.len
      /\ TotalLen > 0 /\ ring.rd # ring.wr => d.len1 > 0
  BY <1>1, <1>2, SectorsInside
<1> HIDE DEF d
<1>4. /\ d.at1 \in Nat /\ d.len1 \in Nat /\ d.at1 + d.len1 <= BuffLength + 1
      /\ d.at2 \in Nat /\ d.len2 \in Nat /\ d.at2 + d.len2 <= BuffLength + 1
  BY <1>1, <1>3
<1> QED
  BY <1>3, <1>4 DEF d

LEMMA FetchKeeps ==
  ASSUME TInv, Fetch \/ FetchRest
  PROVE  TInv'
<1>1. /\ Recorded /\ rec.status = "done" /\ GetAllBuff
      /\ \/ client.phase = "recording" /\ client' = [client EXCEPT !.phase = "sector1"]
         \/ client.phase = "sector1" /\ client' = [client EXCEPT !.phase = "sector2"]
      /\ UNCHANGED <<ring, chan, pollLen, conf, rec, hist>>
  BY DEF Fetch, FetchRest, Recorded, TInv, Stage
<1> DEFINE d == DataSector
<1>2. /\ d.at1 \in Nat /\ d.len1 \in Nat /\ d.at1 + d.len1 <= BuffLength + 1
      /\ d.at2 \in Nat /\ d.len2 \in Nat /\ d.at2 + d.len2 <= BuffLength + 1
  BY <1>1, WindowInside
<1>3. tx' \in TxState /\ Sendable(tx'.p1) /\ Sendable(tx'.p2)
  <2>1. tx \in TxState /\ Sendable(tx.p1) /\ Sendable(tx.p2)
    BY DEF TInv, Types
  <2>2. \/ tx' = [tx EXCEPT !.sector = 1, !.p1 = IF d.len1 > 0 THEN [at |-> d.at1, left |-> d.len1]
                                                ELSE tx.p1]
        \/ tx' = [tx EXCEPT !.sector = 0, !.p2 = IF d.len2 > 0 THEN [at |-> d.at2, left |-> d.len2]
                                                ELSE tx.p2]
    BY <1>1 DEF GetAllBuff
  <2> DEFINE p1 == [at |-> d.at1, left |-> d.len1]
             p2 == [at |-> d.at2, left |-> d.len2]
  <2>3. Sendable(p1) /\ Sendable(p2)
    BY <1>2 DEF Sendable, Part
  <2>4. \/ tx' = [tx EXCEPT !.sector = 1, !.p1 = IF d.len1 > 0 THEN p1 ELSE tx.p1]
        \/ tx' = [tx EXCEPT !.sector = 0, !.p2 = IF d.len2 > 0 THEN p2 ELSE tx.p2]
    BY <2>2
  <2> HIDE DEF d, p1, p2
  <2>5. PICK p, q : /\ Sendable(p) /\ Sendable(q)
                    /\ \/ tx' = [tx EXCEPT !.sector = 1, !.p1 = p]
                       \/ tx' = [tx EXCEPT !.sector = 0, !.p2 = q]
    BY <2>1, <2>3, <2>4
  <2> QED
    BY <2>1, <2>5 DEF TxState, Sendable
<1>4. client'.phase \in {"sector1", "sector2"} /\ client' = [phase |-> client'.phase, got |-> client'.got]
  BY <1>1 DEF TInv, Types
<1> HIDE DEF d
<1>5. Stage' /\ Counts' /\ RingShape' /\ Channels'
  BY <1>1, <1>4 DEF TInv, Stage, Counts, RingShape, Channels, Recorded, Phases
<1> QED
  BY <1>1, <1>3, <1>4, <1>5 DEF TInv, Types

-----------------------------------------------------------------------------
LEMMA TInvStep == TInv /\ [Next]_vars => TInv'
<1> SUFFICES ASSUME TInv, [Next]_vars PROVE TInv'
  OBVIOUS
<1>1. CASE Command
  BY <1>1, ClearKeeps, SetChannelKeeps, SetSampleConfigKeeps, SetTriggerKeeps, StartKeeps,
     StartPollingKeeps, FetchKeeps DEF Command
<1>2. CASE UNCHANGED vars
  BY <1>2 DEF vars, TInv, Types, Stage, Counts, Channels, RingShape, Recorded, Sendable
<1> QED
  BY <1>1, <1>2, RunKeeps DEF Next

LEMMA TInvTypes == TInv => TypeOK
<1> SUFFICES ASSUME TInv PROVE TypeOK
  OBVIOUS
<1>1. chan.bytes \in 0..BuffLength /\ BuffLength \in Nat
  BY ChannelsFit, TraceAssumption DEF TInv, Channels
<1>2. /\ pollLen \in {4, chan.bytes} /\ chan.num \in 0..MaxChannel
      /\ ring.len <= BuffLength + 1 /\ DOMAIN ring.mem = 0..BuffLength
      /\ client.phase \in Phases
  BY <1>1 DEF TInv, Channels, RingShape, Stage
<1>3. rec \in RecState /\ conf \in ConfState /\ tx \in TxState
  BY DEF TInv, Types
<1>4. \A p \in {tx.p1, tx.p2} : p.at \in Nat /\ p.left \in Nat /\ p.at + p.left <= BuffLength + 1
  BY DEF TInv, Sendable, Part
<1> QED
  BY <1>1, <1>2, <1>3, <1>4 DEF TypeOK, RecState, ConfState, TxState, Statuses, Phases

\* Whatever the commands and their order, the recorder stays inside its
\* memory: the ring, and every frame that is sent from it, lie in Trace_buff.
THEOREM SendsInsideBuffer == Spec => []TypeOK
BY TInvInit, TInvStep, TInvTypes, PTL DEF Spec

\* A finished recording ends the asked number of samples after the sample
\* that met the trigger, for any counts, rates, channels and triggers.
THEOREM EndsAfterTrigger == Spec => []TriggerPlace
<1>1. TInv => TriggerPlace
  BY DEF TInv, Counts, TriggerPlace
<1> QED
  BY <1>1, TInvInit, TInvStep, PTL DEF Spec

-----------------------------------------------------------------------------
(***************************************************************************)
(* What the client receives.                                               *)
(***************************************************************************)
\* The sample counts are as the client set them, and some are asked for.
Asked ==
  /\ (conf.pre \in PreCounts /\ conf.post \in PostCounts) \/ (conf.pre = 0 /\ conf.post = 0)
  /\ client.phase \notin {"new", "setup"} => conf.pre + conf.post > 0

\* The first k bytes of the first part have come.
FirstBytes(k) == client.got = Run(ring.mem, DataSector.at1, k)

\* The first part comes from its beginning; nothing of a second part is put
\* up before it is asked for; after it comes its only byte, if it has one.
Sending ==
  LET d == DataSector
  IN  /\ tx.sector = IF client.phase = "sector1" THEN 1 ELSE 0
      /\ client.phase \notin {"sector1", "sector2"} => client.got = <<>>
      /\ client.phase # "sector2" => tx.p2.left # 1
      /\ client.phase = "sector1" =>
           \E k \in Nat :
             /\ FirstBytes(k) /\ k + tx.p1.left = d.len1
             /\ tx.p1.left > 0 => tx.p1.at = d.at1 + k
      /\ client.phase = "sector2" =>
           /\ tx.p1.left = 0
           /\ \/ FirstBytes(d.len1) /\ (tx.p2.left = 1 => d.len2 = 1 /\ tx.p2.at = d.at2)
              \/ client.got = Window /\ tx.p2.left # 1

\* The bytes that are asked for are counted in 16 bits.
NoWrap ==
  \A pre \in PreCounts, post \in PostCounts : BuffLength * (pre + post) < 65536

BytesOf(mem) == {mem[c] : c \in Nat}

LEMMA RunIs ==
  ASSUME NEW mem, NEW at \in Nat, NEW n \in Nat
  PROVE  /\ Run(mem, at, n) \in Seq(BytesOf(mem)) /\ Len(Run(mem, at, n)) = n
         /\ \A k \in 1..n : Run(mem, at, n)[k] = mem[at + k - 1]
<1> DEFINE run == [k \in 1..n |-> mem[at + k - 1]]
           S == BytesOf(mem)
<1>1. \A k \in 1..n : run[k] = mem[at + k - 1] /\ run[k] \in S
  <2>1. \A k \in 1..n : at + k - 1 \in Nat
    OBVIOUS
  <2> QED
    BY <2>1 DEF BytesOf
<1> HIDE DEF S
<1>2. run \in [1..n -> S]
  BY <1>1
<1>3. run = Run(mem, at, n)
  BY DEF Run
<1>4. \A k \in 1..n : run[k] = mem[at + k - 1]
  BY <1>1
<1> HIDE DEF run
<1>5. run \in Seq(S) /\ Len(run) = n
  BY <1>2
<1> QED
  BY <1>3, <1>4, <1>5 DEF S

\* Two runs that follow each other are one run.
LEMMA RunsJoin ==
  ASSUME NEW mem, NEW at \in Nat, NEW a \in Nat, NEW b \in Nat
  PROVE  Run(mem, at, a) \o Run(mem, at + a, b) = Run(mem, at, a + b)
<1> DEFINE r1 == Run(mem, at, a)
           r2 == Run(mem, at + a, b)
           r  == Run(mem, at, a + b)
           S  == BytesOf(mem)
           t  == r1 \o r2
<1>0. at + a \in Nat /\ a + b \in Nat
  OBVIOUS
<1>1. /\ r1 \in Seq(S) /\ Len(r1) = a /\ \A k \in 1..a : r1[k] = mem[at + k - 1]
      /\ r2 \in Seq(S) /\ Len(r2) = b /\ \A k \in 1..b : r2[k] = mem[at + a + k - 1]
      /\ r \in Seq(S) /\ Len(r) = a + b /\ \A k \in 1..(a + b) : r[k] = mem[at + k - 1]
  <2>1. /\ r1 \in Seq(S) /\ Len(r1) = a /\ \A k \in 1..a : r1[k] = mem[at + k - 1]
    BY RunIs, Zenon
  <2>2. /\ r2 \in Seq(S) /\ Len(r2) = b /\ \A k \in 1..b : r2[k] = mem[at + a + k - 1]
    BY <1>0, RunIs, Zenon
  <2>3. /\ r \in Seq(S) /\ Len(r) = a + b /\ \A k \in 1..(a + b) : r[k] = mem[at + k - 1]
    BY <1>0, RunIs, Zenon
  <2> QED
    BY <2>1, <2>2, <2>3
<1> HIDE DEF r1, r2, r, S
<1>2. /\ t \in Seq(S) /\ Len(t) = a + b
      /\ \A k \in 1..(a + b) : t[k] = IF k <= a THEN r1[k] ELSE r2[k - a]
  <2>1. /\ r1 \o r2 \in Seq(S) /\ Len(r1 \o r2) = Len(r1) + Len(r2)
        /\ \A i \in 1..(Len(r1) + Len(r2)) :
             (r1 \o r2)[i] = IF i <= Len(r1) THEN r1[i] ELSE r2[i - Len(r1)]
    BY <1>1, ConcatProperties, Zenon
  <2> QED
    BY <1>1, <2>1, Zenon
<1> HIDE DEF t
<1>3. ASSUME NEW k \in 1..(a + b) PROVE t[k] = r[k]
  <2>1. CASE k <= a
    <3>1. k \in 1..a
      BY <2>1
    <3>2. t[k] = r1[k]
      BY <1>2, <2>1
    <3> QED
      BY <1>1, <3>1, <3>2
  <2>2. CASE k > a
    <3>1. k - a \in 1..b /\ at + a + (k - a) - 1 = at + k - 1
      BY <2>2
    <3>2. r2[k - a] = mem[at + k - 1]
      BY <1>1, <3>1
    <3> QED
      BY <1>1, <1>2, <2>2, <3>2
  <2> QED
    BY <2>1, <2>2
<1>4. t = r
  BY <1>1, <1>2, <1>3, SeqEqual
<1> QED
  BY <1>4 DEF r1, r2, r, t

LEMMA RunStartsBoth ==
  ASSUME NEW mem, NEW at1 \in Nat, NEW at2 \in Nat, NEW len1 \in Nat, NEW len2 \in Nat,
         NEW k \in Nat, k <= len1
  PROVE  IsPrefix(Run(mem, at1, k), Run(mem, at1, len1) \o Run(mem, at2, len2))
<1> DEFINE s == Run(mem, at1, k)
           r1 == Run(mem, at1, len1)
           r2 == Run(mem, at2, len2)
           S  == BytesOf(mem)
           t == r1 \o r2
<1>1. /\ s \in Seq(S) /\ Len(s) = k /\ \A i \in 1..k : s[i] = mem[at1 + i - 1]
      /\ r1 \in Seq(S) /\ Len(r1) = len1 /\ \A i \in 1..len1 : r1[i] = mem[at1 + i - 1]
      /\ r2 \in Seq(S) /\ Len(r2) = len2
  <2>1. /\ s \in Seq(S) /\ Len(s) = k /\ \A i \in 1..k : s[i] = mem[at1 + i - 1]
    BY RunIs, Zenon
  <2>2. /\ r1 \in Seq(S) /\ Len(r1) = len1 /\ \A i \in 1..len1 : r1[i] = mem[at1 + i - 1]
    BY RunIs, Zenon
  <2>3. r2 \in Seq(S) /\ Len(r2) = len2
    BY RunIs, Zenon
  <2> QED
    BY <2>1, <2>2, <2>3
<1> HIDE DEF s, r1, r2, S
<1>2. /\ t \in Seq(S) /\ Len(t) = len1 + len2
      /\ \A i \in 1..(len1 + len2) : t[i] = IF i <= len1 THEN r1[i] ELSE r2[i - len1]
  <2>1. /\ r1 \o r2 \in Seq(S) /\ Len(r1 \o r2) = Len(r1) + Len(r2)
        /\ \A i \in 1..(Len(r1) + Len(r2)) :
             (r1 \o r2)[i] = IF i <= Len(r1) THEN r1[i] ELSE r2[i - Len(r1)]
    BY <1>1, ConcatProperties, Zenon
  <2> QED
    BY <1>1, <2>1, Zenon
<1> HIDE DEF t
<1>3. ASSUME NEW i \in 1..k PROVE s[i] \in S /\ t[i] \in S /\ s[i] = t[i]
  <2>1. i \in 1..len1 /\ i \in 1..(len1 + len2) /\ i <= len1
    OBVIOUS
  <2>2. t[i] = r1[i] /\ s[i] = r1[i]
    BY <1>1, <1>2, <2>1
  <2>3. s[i] \in S
    BY <1>1, ElementOfSeq, Zenon
  <2> QED
    BY <2>2, <2>3
<1>4. /\ SubSeq(s, 1, k) \in Seq(S) /\ Len(SubSeq(s, 1, k)) = k
      /\ \A i \in 1..k : SubSeq(s, 1, k)[i] = s[i]
  BY <1>3, SubSeqProperties
<1>5. /\ SubSeq(t, 1, k) \in Seq(S) /\ Len(SubSeq(t, 1, k)) = k
      /\ \A i \in 1..k : SubSeq(t, 1, k)[i] = t[i]
  BY <1>3, SubSeqProperties
<1>6. SubSeq(s, 1, k) = SubSeq(t, 1, k)
  BY <1>3, <1>4, <1>5, SeqEqual
<1>7. IsPrefix(s, t)
  BY <1>1, <1>2, <1>6 DEF IsPrefix
<1> QED
  BY <1>7 DEF s, r1, r2, t

\* What a call of TRACE_Run does to what is being sent.
LEMMA SendIs ==
  ASSUME TInv, (tx.waiting /\ Pause) \/ (~tx.waiting /\ Send)
  PROVE  /\ tx'.sector = tx.sector
         /\ \/ tx'.p1 = tx.p1 /\ tx'.p2 = tx.p2 /\ client' = client
            \/ /\ tx.p1.left > 0 /\ SendBytes(tx.p1.at, FrameSize(tx.p1))
               /\ tx'.p1 = After(tx.p1) /\ tx'.p2 = tx.p2
            \/ /\ tx.p1.left = 0 /\ tx.p2.left = 1 /\ SendBytes(tx.p2.at, 1)
               /\ tx'.p1 = tx.p1 /\ tx'.p2 = After(tx.p2)
<1>1. tx \in TxState
  BY DEF TInv, Types
<1>2. CASE Pause
  BY <1>1, <1>2 DEF Pause, TxState
<1>3. CASE SendP1
  BY <1>1, <1>3 DEF SendP1, TxState
<1>4. CASE SendP2
  BY <1>1, <1>4 DEF SendP2, TxState
<1>5. CASE UNCHANGED <<tx, client>>
  BY <1>5
<1> QED
  BY <1>2, <1>3, <1>4, <1>5 DEF Send

\* A finished recording stays as it is while it is fetched.
LEMMA FetchedStays ==
  ASSUME TInv, TraceRun, client.phase \in {"sector1", "sector2"}
  PROVE  DataSector' = DataSector /\ ring' = ring /\ Window' = Window
<1>1. rec.status = "done"
  BY DEF TInv, Stage
<1>2. ring' = ring /\ pollLen' = pollLen /\ conf' = conf
  BY <1>1 DEF TraceRun, Skip, Collect, Watch, Poll, Follow, Finish, Rest
<1>3. TotalLen' = TotalLen
  BY <1>2 DEF TotalLen
<1>4. DataSector' = DataSector
  BY <1>2, <1>3 DEF DataSector
<1> QED
  BY <1>2, <1>4 DEF Window

LEMMA RunSends ==
  ASSUME TInv, Sending, TraceRun
  PROVE  Sending'
<1> DEFINE d == DataSector
<1>1. /\ tx.p1.at \in Nat /\ tx.p1.left \in Nat /\ tx.p2.at \in Nat /\ tx.p2.left \in Nat
      /\ client = [phase |-> client.phase, got |-> client.got]
  BY DEF TInv, Sendable, Part, Types
<1>2. client'.phase = client.phase
  BY SendShape DEF TraceRun
<1>3. /\ tx'.sector = tx.sector
      /\ \/ tx'.p1 = tx.p1 /\ tx'.p2 = tx.p2 /\ client' = client
         \/ /\ tx.p1.left > 0 /\ SendBytes(tx.p1.at, FrameSize(tx.p1))
            /\ tx'.p1 = After(tx.p1) /\ tx'.p2 = tx.p2
         \/ /\ tx.p1.left = 0 /\ tx.p2.left = 1 /\ SendBytes(tx.p2.at, 1)
            /\ tx'.p1 = tx.p1 /\ tx'.p2 = After(tx.p2)
  BY SendIs DEF TraceRun
<1>4. SendUnit \in Nat /\ SendUnit > 0
  BY TraceAssumption
<1>5. CASE client.phase \notin {"sector1", "sector2"}
  <2>1. client' = client /\ tx'.p2.left # 1
    BY <1>1, <1>3, <1>4, <1>5 DEF SendBytes, Sending
  <2> QED
    BY <1>2, <1>3, <1>5, <2>1 DEF Sending
<1>6. CASE client.phase \in {"sector1", "sector2"}
  <2>1. d' = d /\ ring' = ring /\ Window' = Window
    BY <1>6, FetchedStays
  <2>2. /\ d.at1 \in Nat /\ d.len1 \in Nat /\ d.at2 \in Nat /\ d.len2 \in Nat
        /\ Window = Run(ring.mem, d.at1, d.len1) \o Run(ring.mem, d.at2, d.len2)
    BY <1>6, WindowInside DEF Recorded, Window, BothRuns
  <2>3. \A k : client'.got = Run(ring.mem, d.at1, k) => FirstBytes(k)'
    BY <2>1 DEF FirstBytes
  <2>4. \A at, n : SendBytes(at, n) => client'.got = client.got \o Run(ring.mem, at, n)
    BY <1>1, <1>6 DEF SendBytes
  <2>5. CASE client.phase = "sector1"
    <3>1. PICK k \in Nat : /\ FirstBytes(k) /\ k + tx.p1.left = d.len1
                           /\ tx.p1.left > 0 => tx.p1.at = d.at1 + k
      BY <2>5 DEF Sending
    <3>2. tx.p2.left # 1 /\ tx.sector = 1 /\ tx'.p2 = tx.p2
      BY <1>3, <2>5 DEF Sending
    <3> HIDE DEF d
    <3>3. CASE tx'.p1 = tx.p1 /\ client' = client
      BY <1>2, <1>3, <2>1, <2>3, <2>5, <3>1, <3>2, <3>3 DEF Sending, FirstBytes, d
    <3>4. CASE tx.p1.left > 0 /\ SendBytes(tx.p1.at, FrameSize(tx.p1)) /\ tx'.p1 = After(tx.p1)
      <4>0. LET n == FrameSize(tx.p1)
            IN  /\ n \in Nat /\ k + n + tx'.p1.left = d.len1
                /\ tx'.p1.left > 0 => tx'.p1.at = d.at1 + (k + n)
        BY <1>1, <1>4, <2>2, <3>1, <3>4 DEF FrameSize, After
      <4>1. PICK n \in Nat : /\ n = FrameSize(tx.p1) /\ k + n + tx'.p1.left = d.len1
                             /\ tx'.p1.left > 0 => tx'.p1.at = d.at1 + (k + n)
        BY <4>0, Zenon
      <4>2. SendBytes(tx.p1.at, n) /\ tx.p1.at = d.at1 + k
        BY <3>1, <3>4, <4>1
      <4>3. client.got = Run(ring.mem, d.at1, k)
        BY <3>1, Zenon DEF FirstBytes, d
      <4>4. client'.got = client.got \o Run(ring.mem, tx.p1.at, n)
        BY <2>4, <4>2, Zenon
      <4>5. client'.got = Run(ring.mem, d.at1, k) \o Run(ring.mem, d.at1 + k, n)
        BY <4>2, <4>3, <4>4, Zenon
      <4>6. Run(ring.mem, d.at1, k) \o Run(ring.mem, d.at1 + k, n) = Run(ring.mem, d.at1, k + n)
        <5>1. d.at1 \in Nat /\ k \in Nat /\ n \in Nat
          BY <2>2
        <5> QED
          BY <5>1, RunsJoin, Zenon
      <4>7. FirstBytes(k + n)'
        BY <2>3, <4>5, <4>6, Zenon
      <4>8. k + n \in Nat
        OBVIOUS
      <4> QED
        BY <1>2, <1>3, <2>1, <2>5, <3>2, <4>1, <4>7, <4>8 DEF Sending, d
    <3> QED
      BY <1>3, <3>2, <3>3, <3>4
  <2>6. CASE client.phase = "sector2"
    <3>1. tx.p1.left = 0 /\ tx.sector = 0 /\ tx'.p1 = tx.p1
      BY <1>3, <2>6 DEF Sending
    <3>2. \/ FirstBytes(d.len1) /\ (tx.p2.left = 1 => d.len2 = 1 /\ tx.p2.at = d.at2)
          \/ client.got = Window /\ tx.p2.left # 1
      BY <2>6 DEF Sending
    <3> HIDE DEF d
    <3>3. CASE tx'.p2 = tx.p2 /\ client' = client
      BY <1>2, <1>3, <2>1, <2>6, <3>1, <3>3 DEF Sending, FirstBytes, d
    <3>4. CASE tx.p2.left = 1 /\ SendBytes(tx.p2.at, 1) /\ tx'.p2 = After(tx.p2)
      <4>1. FirstBytes(d.len1) /\ d.len2 = 1 /\ tx.p2.at = d.at2
        BY <3>2, <3>4
      <4>2. client.got = Run(ring.mem, d.at1, d.len1)
        BY <4>1 DEF FirstBytes, d
      <4>3. client'.got = Window
        BY <2>2, <2>4, <3>4, <4>1, <4>2
      <4>4. tx'.p2.left # 1
        BY <1>4, <3>4 DEF After
      <4> QED
        BY <1>2, <1>3, <2>1, <2>6, <3>1, <4>4, <4>3 DEF Sending, d
    <3> QED
      BY <1>3, <3>1, <3>3, <3>4
  <2> QED
    BY <1>6, <2>5, <2>6
<1> QED
  BY <1>5, <1>6

LEMMA SetupSends ==
  ASSUME ClearsEarly = FALSE, TInv, Sending,
         \/ Clear \/ (\E l \in Lengths : SetChannel(l))
         \/ (\E pre \in PreCounts, post \in PostCounts, rate \in Rates, op \in Ops :
              SetSampleConfig(pre, post, rate, op))
         \/ SetTrigger \/ Start \/ StartPolling
  PROVE  Sending'
<1>1. tx \in TxState /\ client = [phase |-> client.phase, got |-> client.got]
  BY DEF TInv, Types
<1>2. CASE Clear
  <2>1. /\ tx.p2.left # 1 /\ tx' = [tx EXCEPT !.sector = 0]
        /\ client'.phase = "setup" /\ client'.got = <<>>
    BY <1>2 DEF Clear
  <2>2. tx'.sector = 0 /\ tx'.p2 = tx.p2
    BY <1>1, <2>1 DEF TxState
  <2> QED
    BY <2>1, <2>2 DEF Sending
<1>3. CASE ~Clear
  <2>1. /\ client.phase = "setup"
        /\ tx' = tx \/ tx' = [tx EXCEPT !.sector = 0]
        /\ \/ client' = client
           \/ client' = [client EXCEPT !.phase = "recording"]
           \/ client' = [client EXCEPT !.phase = "polling"]
    BY <1>3 DEF SetChannel, SetSampleConfig, SetTrigger, Start, StartPolling, ReadyToStart
  <2>2. client'.phase \in {"setup", "recording", "polling"} /\ client'.got = client.got
    BY <1>1, <2>1
  <2>3. tx.sector = 0 /\ tx.p2.left # 1 /\ client.got = <<>>
    BY <2>1 DEF Sending
  <2>4. tx'.sector = 0 /\ tx'.p2 = tx.p2
    BY <1>1, <2>1, <2>3 DEF TxState
  <2> QED
    BY <2>2, <2>3, <2>4 DEF Sending
<1> QED
  BY <1>2, <1>3

\* Something is asked for, and its length is not wrapped.
LEMMA SomethingWanted ==
  ASSUME NoWrap, TInv, Asked, Recorded
  PROVE  TotalLen > 0
<1> DEFINE n == conf.pre + conf.post
           b == chan.bytes
<1>1. conf.pre \in PreCounts /\ conf.post \in PostCounts /\ n > 0 /\ n \in Nat
  <2>1. n > 0
    BY DEF Asked, Recorded
  <2>2. conf.pre \in PreCounts /\ conf.post \in PostCounts
    BY <2>1 DEF Asked
  <2>3. conf.pre \in Nat /\ conf.post \in Nat
    BY DEF TInv, Types, ConfState
  <2>4. n \in Nat
    BY <2>3
  <2> HIDE DEF n
  <2> QED
    BY <2>1, <2>2, <2>4
<1>2. b \in Nat /\ b > 0 /\ b <= BuffLength /\ pollLen = b /\ BuffLength \in Nat
  <2>1. Channels /\ client.phase \notin {"new", "setup"}
    BY DEF TInv, Recorded
  <2>2. b \in Nat /\ b > 0 /\ pollLen = b
    BY <2>1 DEF Channels
  <2>3. b <= BuffLength /\ BuffLength \in Nat
    BY ChannelsFit, TraceAssumption
  <2> QED
    BY <2>2, <2>3
<1>3. BuffLength * n < 65536
  BY <1>1 DEF NoWrap
<1>4. TotalLen = (b * n) % 65536
  BY <1>2 DEF TotalLen
<1> HIDE DEF n, b
<1>5. b * n > 0 /\ b * n \in Nat /\ b * n <= BuffLength * n /\ BuffLength * n \in Nat
  BY <1>1, <1>2
<1> DEFINE m == b * n
<1>6. m > 0 /\ m \in Nat /\ m < 65536 /\ TotalLen = m % 65536
  BY <1>3, <1>4, <1>5
<1> HIDE DEF m
<1> QED
  BY <1>6

LEMMA FetchSends ==
  ASSUME NoWrap, TInv, Asked, Sending, Fetch
  PROVE  Sending'
<1> DEFINE d == DataSector
<1>1. /\ client.phase = "recording" /\ rec.status = "done" /\ GetAllBuff
      /\ client' = [client EXCEPT !.phase = "sector1"]
      /\ UNCHANGED <<ring, chan, pollLen, conf, rec, hist>>
  BY DEF Fetch
<1>2. tx.sector = 0 /\ client.got = <<>> /\ tx.p2.left # 1
  BY <1>1 DEF Sending
<1>3. d.len1 > 0 /\ d.at1 \in Nat /\ d.len1 \in Nat
  BY <1>1, SomethingWanted, WindowInside DEF Recorded, TInv, RingShape
<1>4. tx' = [tx EXCEPT !.sector = 1, !.p1 = [at |-> d.at1, left |-> d.len1]]
  BY <1>1, <1>2, <1>3 DEF GetAllBuff
<1>5. d' = d /\ ring' = ring
  BY <1>1 DEF DataSector, TotalLen
<1>6. /\ client'.phase = "sector1" /\ client'.got = <<>>
      /\ tx'.sector = 1 /\ tx'.p2 = tx.p2 /\ tx'.p1.at = d.at1 /\ tx'.p1.left = d.len1
  BY <1>1, <1>2, <1>4 DEF TInv, Types, TxState
<1>7. Run(ring.mem, d.at1, 0) = <<>>
  BY DEF Run
<1>8. FirstBytes(0)'
  BY <1>5, <1>6, <1>7 DEF FirstBytes
<1> HIDE DEF d
<1>9. /\ 0 \in Nat /\ 0 + tx'.p1.left = d'.len1
      /\ tx'.p1.left > 0 => tx'.p1.at = d'.at1 + 0
  BY <1>3, <1>5, <1>6
<1> QED
  BY <1>2, <1>6, <1>8, <1>9 DEF Sending, d

LEMMA FetchRestSends ==
  ASSUME TInv, Sending, FetchRest
  PROVE  Sending'
<1> DEFINE d == DataSector
<1>1. /\ client.phase = "sector1" /\ Len(client.got) = d.len1 /\ GetAllBuff
      /\ client' = [client EXCEPT !.phase = "sector2"]
      /\ UNCHANGED <<ring, chan, pollLen, conf, rec, hist>>
  BY DEF FetchRest
<1>2. tx.sector = 1 /\ tx.p2.left # 1
  BY <1>1 DEF Sending
<1>3. PICK k \in Nat : FirstBytes(k) /\ k + tx.p1.left = d.len1
  BY <1>1 DEF Sending
<1>4. d.at1 \in Nat /\ d.len1 \in Nat /\ d.len2 \in Nat
  BY <1>1, WindowInside DEF Recorded
<1>5. tx \in TxState /\ tx.p1.left \in Nat
  BY DEF TInv, Types, Sendable, Part
<1>6. k = d.len1
  <2>1. client.got = Run(ring.mem, d.at1, k)
    BY <1>3 DEF FirstBytes
  <2>2. Len(Run(ring.mem, d.at1, k)) = k
    BY <1>4, RunIs, Zenon
  <2> HIDE DEF d
  <2> QED
    BY <1>1, <2>1, <2>2
<1>7. tx.p1.left = 0
  BY <1>3, <1>4, <1>5, <1>6
<1>8. tx' = [tx EXCEPT !.sector = 0,
                       !.p2 = IF d.len2 > 0 THEN [at |-> d.at2, left |-> d.len2] ELSE tx.p2]
  BY <1>1, <1>2 DEF GetAllBuff
<1>9. d' = d /\ ring' = ring
  BY <1>1 DEF DataSector, TotalLen
<1>10. client'.phase = "sector2" /\ client'.got = client.got
  BY <1>1 DEF TInv, Types
<1> HIDE DEF d
<1>11. /\ tx'.sector = 0 /\ tx'.p1 = tx.p1
       /\ tx'.p2.left = 1 => d.len2 = 1 /\ tx'.p2.at = d.at2
  BY <1>2, <1>4, <1>5, <1>8 DEF TxState
<1>12. client'.got = Run(ring'.mem, d'.at1, d'.len1)
  BY <1>3, <1>6, <1>9, <1>10 DEF FirstBytes, d
<1> QED
  BY <1>7, <1>9, <1>10, <1>11, <1>12 DEF Sending, FirstBytes, d

LEMMA AskedKeeps ==
  ASSUME TInv, Asked, [Next]_vars
  PROVE  Asked'
<1>1. conf \in ConfState /\ client = [phase |-> client.phase, got |-> client.got]
  BY DEF TInv, Types
<1>2. CASE TraceRun
  <2>1. client'.phase = client.phase /\ conf' = conf
    BY <1>2, SendShape DEF TraceRun
  <2> QED
    BY <2>1 DEF Asked
<1>3. ASSUME NEW pre \in PreCounts, NEW post \in PostCounts, NEW rate \in Rates,
             NEW op \in Ops, SetSampleConfig(pre, post, rate, op)
      PROVE  Asked'
  BY <1>1, <1>3 DEF SetSampleConfig, Asked, ConfState
<1>4. CASE Clear \/ SetTrigger \/ Start \/ StartPolling \/ Fetch \/ FetchRest
           \/ (\E l \in Lengths : SetChannel(l)) \/ UNCHANGED vars
  <2>1. conf'.pre = conf.pre /\ conf'.post = conf.post
    BY <1>1, <1>4 DEF Clear, SetTrigger, Start, StartPolling, Fetch, FetchRest, SetChannel,
                     vars, ConfState
  <2>2. client'.phase \notin {"new", "setup"} =>
          client.phase \notin {"new", "setup"} \/ conf.pre + conf.post > 0
    BY <1>1, <1>4 DEF Clear, SetTrigger, Start, StartPolling, ReadyToStart, Fetch, FetchRest,
                     SetChannel, vars
  <2> QED
    BY <2>1, <2>2 DEF Asked
<1> QED
  BY <1>2, <1>3, <1>4 DEF Next, Command

LEMMA SendingStep ==
  ASSUME ClearsEarly = FALSE, NoWrap, TInv, Asked, Sending, [Next]_vars
  PROVE  Sending'
<1>1. CASE UNCHANGED vars
  <2>1. DataSector' = DataSector /\ Window' = Window
    BY <1>1 DEF vars, DataSector, TotalLen, Window
  <2> QED
    BY <1>1, <2>1 DEF vars, Sending, FirstBytes
<1> QED
  BY <1>1, RunSends, SetupSends, FetchSends, FetchRestSends DEF Next, Command

LEMMA SendingIsOrdered ==
  ASSUME TInv, Sending
  PROVE  ReceivedInOrder
<1> SUFFICES ASSUME client.phase \in {"sector1", "sector2"} PROVE IsPrefix(client.got, Window)
  BY DEF ReceivedInOrder
<1> DEFINE d == DataSector
<1>1. /\ d.at1 \in Nat /\ d.len1 \in Nat /\ d.at2 \in Nat /\ d.len2 \in Nat
      /\ Window = Run(ring.mem, d.at1, d.len1) \o Run(ring.mem, d.at2, d.len2)
  BY WindowInside DEF Recorded, Window, BothRuns
<1>2. \/ \E k \in Nat : k <= d.len1 /\ FirstBytes(k)
      \/ client.got = Window
  <2>1. tx.p1.left \in Nat
    BY DEF TInv, Sendable, Part
  <2> QED
    BY <1>1, <2>1 DEF Sending
<1>3. ASSUME NEW k \in Nat, k <= d.len1, FirstBytes(k) PROVE IsPrefix(client.got, Window)
  <2>1. client.got = Run(ring.mem, d.at1, k)
    BY <1>3 DEF FirstBytes
  <2> HIDE DEF d
  <2> QED
    BY <1>1, <1>3, <2>1, RunStartsBoth
<1>4. CASE client.got = Window
  <2>1. Len(Window) = d.len1 + d.len2
    <3> DEFINE r1 == Run(ring.mem, d.at1, d.len1)
               r2 == Run(ring.mem, d.at2, d.len2)
    <3>1. /\ r1 \in Seq(BytesOf(ring.mem)) /\ Len(r1) = d.len1
          /\ r2 \in Seq(BytesOf(ring.mem)) /\ Len(r2) = d.len2
      BY <1>1, RunIs
    <3>2. Window = r1 \o r2
      BY <1>1
    <3> HIDE DEF d, r1, r2
    <3> QED
      BY <3>1, <3>2, ConcatProperties
  <2> QED
    BY <1>1, <1>4, <2>1 DEF IsPrefix
<1> QED
  BY <1>2, <1>3, <1>4

LEMMA SendingInit == Init => Asked /\ Sending
BY DEF Init, Asked, Sending

\* What the client receives is the recording from its first byte on, in order
\* and nothing of an earlier one, as long as the length of the window fits
\* into 16 bits and no second part is left unsent when the recorder is cleared.
THEOREM ArrivesInOrder ==
  ASSUME ClearsEarly = FALSE, NoWrap
  PROVE  Spec => []ReceivedInOrder
<1>1. Init => TInv /\ Asked /\ Sending
  BY TInvInit, SendingInit
<1>2. TInv /\ Asked /\ Sending /\ [Next]_vars => (TInv /\ Asked /\ Sending)'
  BY TInvStep, AskedKeeps, SendingStep
<1>3. TInv /\ Sending => ReceivedInOrder
  BY SendingIsOrdered
<1> QED
  BY <1>1, <1>2, <1>3, PTL DEF Spec
-----------------------------------------------------------------------------
(***************************************************************************)
(* What the ring holds.                                                    *)
(***************************************************************************)
\* The cell n places after a cell of a ring of len cells, and n before it.
Ahead(len, c, n) == (c + n) % len
Behind(len, c, n) == (c + len - n) % len

\* The cell of the b-th newest byte.
Back(r, b) == Behind(r.len, r.wr, b)

\* How many samples, or frames, the memory holds.
Capacity == BuffLength \div Unit

InUse == client.phase \notin {"new", "setup"}

\* The newest bytes are those of the newest samples, whole, as many as were
\* taken or as the memory holds.
Holds ==
  InUse =>
    /\ ring.len = Capacity * Unit + 1
    /\ hist.taken \in 0..Numbers /\ hist.next \in 0..(Numbers - 1)
    /\ CurLength(ring) = LeastOf(hist.taken, Capacity) * Unit
    /\ \A m \in Nat, k \in 1..Unit :
         m * Unit + k <= CurLength(ring) =>
           ring.mem[Back(ring, m * Unit + k)] =
             <<(hist.next + Numbers - 1 - m) % Numbers, chan.bytes + 1 - k>>

\* A channel is at least as long as the shortest variable.
ChannelSet == chan.num > 0 => \E l \in Lengths : l <= chan.bytes

LEMMA AheadIs ==
  ASSUME NEW len \in Nat, NEW c \in Nat, c < len, NEW n \in Nat, n <= len
  PROVE  /\ Ahead(len, c, n) = IF c + n < len THEN c + n ELSE c + n - len
         /\ Ahead(len, c, n) \in 0..(len - 1)
<1> DEFINE x == c + n
<1>1. x \in Nat /\ x < len + len /\ len > 0
  OBVIOUS
<1>2. Ahead(len, c, n) = x % len
  BY DEF Ahead
<1> HIDE DEF x
<1>3. Ahead(len, c, n) = IF x < len THEN x ELSE x - len
  BY <1>1, <1>2, ModOnce
<1> QED
  BY <1>1, <1>3 DEF x

LEMMA BehindIs ==
  ASSUME NEW len \in Nat, NEW c \in Nat, c < len, NEW n \in Nat, n <= len
  PROVE  /\ Behind(len, c, n) = IF c >= n THEN c - n ELSE c + len - n
         /\ Behind(len, c, n) \in 0..(len - 1)
<1> DEFINE x == c + len - n
<1>1. x \in Nat /\ x < len + len /\ len > 0
  OBVIOUS
<1>2. Behind(len, c, n) = x % len
  BY DEF Behind
<1> HIDE DEF x
<1>3. Behind(len, c, n) = IF x < len THEN x ELSE x - len
  BY <1>1, <1>2, ModOnce
<1> QED
  BY <1>1, <1>3 DEF x

\* Where the b-th newest byte lies after a write of n bytes, counted from the
\* place they were written to: among them, or in the cell that was the
\* (b - n)-th newest.
LiesBack(len, wr, n, b, c) ==
  /\ c \in 0..(len - 1)
  /\ b <= n => Behind(len, c, wr) = n - b
  /\ b > n => Behind(len, c, wr) = n - b + len /\ c = Behind(len, wr, b - n)

LEMMA CellsBack ==
  ASSUME NEW len \in Nat, NEW wr \in Nat, wr < len, NEW n \in Nat, n < len,
         NEW b \in Nat, 0 < b, b < len
  PROVE  LiesBack(len, wr, n, b, Behind(len, Ahead(len, wr, n), b))
<1> DEFINE w == Ahead(len, wr, n)
           c == Behind(len, w, b)
<1>1. w = (IF wr + n < len THEN wr + n ELSE wr + n - len) /\ w \in 0..(len - 1)
  BY AheadIs
<1> HIDE DEF w
<1>2. c = (IF w >= b THEN w - b ELSE w + len - b) /\ c \in 0..(len - 1)
  <2>1. w \in Nat /\ w < len /\ b <= len
    BY <1>1
  <2> QED
    BY <2>1, BehindIs
<1> HIDE DEF c
<1>3. Behind(len, c, wr) = IF c >= wr THEN c - wr ELSE c + len - wr
  <2>1. c \in Nat /\ c < len /\ wr <= len
    BY <1>2
  <2> QED
    BY <2>1, BehindIs
<1>4. ASSUME b > n
      PROVE  Behind(len, wr, b - n) = IF wr >= b - n THEN wr - (b - n) ELSE wr + len - (b - n)
  <2>1. b - n \in Nat /\ b - n <= len
    BY <1>4
  <2> QED
    BY <2>1, BehindIs
<1>5. LiesBack(len, wr, n, b, c)
  BY <1>1, <1>2, <1>3, <1>4 DEF LiesBack
<1> QED
  BY <1>5 DEF c, w

LEMMA DivSmall ==
  ASSUME NEW len \in Nat, NEW x \in Int, x < len, 0 - len <= x, len > 0
  PROVE  x \div len = IF x < 0 THEN 0 - 1 ELSE 0
BY SMT

\* The bytes of a write shorter than the ring are its newest ones, and move
\* those it holds back by their number.
LEMMA ForceWriteBack ==
  ASSUME NEW r, r.len \in Nat, r.rd \in Nat, r.wr \in Nat, r.rd < r.len, r.wr < r.len,
         NEW last \in Nat, DOMAIN r.mem = 0..last, r.len <= last + 1,
         NEW src, Len(src) \in Nat, Len(src) < r.len, NEW b \in Nat, 0 < b, b < r.len
  PROVE  ForceWrite(r, src).mem[Back(ForceWrite(r, src), b)] =
           IF b <= Len(src) THEN src[Len(src) - b + 1] ELSE r.mem[Back(r, b - Len(src))]
<1> DEFINE f == ForceWrite(r, src)
           n == Len(src)
           len == r.len
           wr == r.wr
           c == Behind(len, Ahead(len, wr, n), b)
           off == Behind(len, c, wr)
           q == (n - 1 - off) \div len
           lst == off + q * len
<1>1. /\ c \in 0..(len - 1)
      /\ b <= n => off = n - b
      /\ b > n => off = n - b + len /\ c = Behind(len, wr, b - n)
  <2>1. /\ len \in Nat /\ wr \in Nat /\ wr < len /\ n \in Nat /\ n < len
        /\ b \in Nat /\ 0 < b /\ b < len
    OBVIOUS
  <2> HIDE DEF n, len, wr
  <2>2. LiesBack(len, wr, n, b, c)
    BY <2>1, CellsBack, Zenon
  <2> HIDE DEF c
  <2> QED
    BY <2>2 DEF LiesBack
<1>2. Back(f, b) = c
  BY DEF ForceWrite, Back, Ahead
<1>3. f.mem[c] = IF c < len /\ lst >= 0 THEN src[lst + 1] ELSE r.mem[c]
  <2>1. c \in DOMAIN r.mem
    <3> HIDE DEF c
    <3> QED
      BY <1>1
  <2>2. off = (c + len - wr) % len
    BY DEF Behind
  <2> HIDE DEF c
  <2> QED
    BY <2>1, <2>2 DEF ForceWrite
<1>4. Back(r, b - n) = Behind(len, wr, b - n)
  BY DEF Back
<1>5. n \in Nat /\ n < len /\ len \in Nat /\ len > 0 /\ b < len
  OBVIOUS
<1> HIDE DEF f, n, len, wr, c, off
<1>6. CASE b <= n
  <2>1. off = n - b /\ n - 1 - off = b - 1
    BY <1>1, <1>5, <1>6
  <2>2. q = 0
    BY <1>5, <2>1, DivSmall
  <2> HIDE DEF q
  <2>3. lst = n - b
    BY <1>5, <2>1, <2>2
  <2> HIDE DEF lst
  <2> QED
    BY <1>1, <1>2, <1>3, <1>5, <1>6, <2>3 DEF n, f
<1>7. CASE b > n
  <2>1. off = n - b + len /\ n - 1 - off = b - 1 - len
    BY <1>1, <1>5, <1>7
  <2>2. q = 0 - 1
    BY <1>5, <2>1, DivSmall
  <2> HIDE DEF q
  <2>3. lst = n - b
    BY <1>5, <2>1, <2>2
  <2> HIDE DEF lst
  <2>4. f.mem[c] = r.mem[c]
    BY <1>3, <1>5, <1>7, <2>3
  <2> QED
    BY <1>1, <1>2, <1>4, <1>5, <1>7, <2>4 DEF n, f
<1> QED
  BY <1>5, <1>6, <1>7

\* The length after a write: what finds no room gives way.
LEMMA ForceWriteLength ==
  ASSUME NEW r, r.len \in Nat, r.rd \in Nat, r.wr \in Nat, r.rd < r.len, r.wr < r.len,
         NEW src, Len(src) \in Nat, Len(src) < r.len
  PROVE  /\ CurLength(ForceWrite(r, src)) = LeastOf(CurLength(r) + Len(src), r.len - 1)
         /\ CurLength(r) \in 0..(r.len - 1)
<1> DEFINE n == Len(src)
           len == r.len
           wr == r.wr
           rd == r.rd
           cur == Behind(len, wr, rd)
           w == Ahead(len, wr, n)
           past == Ahead(len, w, 1)
           new == IF cur + n < len THEN rd ELSE past
<1>1. CurLength(ForceWrite(r, src)) = Behind(len, w, new) /\ CurLength(r) = cur
  BY DEF ForceWrite, CurLength, Ahead, Behind
<1>2. /\ len \in Nat /\ rd \in Nat /\ wr \in Nat /\ rd < len /\ wr < len
      /\ n \in Nat /\ n < len
  OBVIOUS
<1> HIDE DEF n, len, wr, rd
<1>3. cur = (IF wr >= rd THEN wr - rd ELSE wr + len - rd) /\ cur \in 0..(len - 1)
  <2>1. rd <= len
    BY <1>2
  <2> QED
    BY <1>2, <2>1, BehindIs
<1>4. w = (IF wr + n < len THEN wr + n ELSE wr + n - len) /\ w \in 0..(len - 1)
  <2>1. n <= len
    BY <1>2
  <2> QED
    BY <1>2, <2>1, AheadIs
<1> HIDE DEF cur, w
<1>5. past = (IF w + 1 < len THEN w + 1 ELSE w + 1 - len) /\ past \in 0..(len - 1)
  <2>1. w \in Nat /\ w < len /\ 1 <= len
    BY <1>2, <1>4
  <2> QED
    BY <1>2, <2>1, AheadIs
<1> HIDE DEF past
<1>6. new \in 0..(len - 1)
  BY <1>2, <1>5
<1>7. Behind(len, w, new) = IF w >= new THEN w - new ELSE w + len - new
  <2> HIDE DEF new
  <2>1. len \in Nat /\ w \in Nat /\ w < len /\ new \in Nat /\ new <= len
    BY <1>2, <1>4, <1>6
  <2> QED
    BY <2>1, BehindIs, Zenon
<1>8. Behind(len, w, new) = LeastOf(cur + n, len - 1)
  <2> DEFINE y == Behind(len, w, new)
  <2>1. y = IF w >= new THEN w - new ELSE w + len - new
    BY <1>7
  <2> HIDE DEF y
  <2>2. y = LeastOf(cur + n, len - 1)
    BY <1>2, <1>3, <1>4, <1>5, <2>1 DEF LeastOf
  <2> QED
    BY <2>2 DEF y
<1> QED
  BY <1>1, <1>3, <1>8 DEF n, len
LEMMA DivisionIs ==
  ASSUME NEW a \in Nat, NEW n \in Nat, n > 0
  PROVE  a \div n \in Nat /\ (a \div n) * n <= a /\ a < (a \div n + 1) * n
BY SMT

\* A longer sample fits into the memory no more often.
LEMMA DivisionFalls ==
  ASSUME NEW a \in Nat, NEW l \in Nat, NEW u \in Nat, 0 < l, l <= u
  PROVE  a \div u <= a \div l
<1> DEFINE q == a \div u
           p == a \div l
<1>1. q \in Nat /\ q * u <= a /\ p \in Nat /\ a < (p + 1) * l
  BY DivisionIs
<1> HIDE DEF q, p
<1>2. ASSUME q >= p + 1 PROVE FALSE
  <2>1. q * u >= (p + 1) * u
    BY <1>1, <1>2
  <2>2. (p + 1) * u >= (p + 1) * l
    BY <1>1
  <2>3. q * u \in Nat /\ (p + 1) * u \in Nat /\ (p + 1) * l \in Nat
    BY <1>1
  <2> QED
    BY <1>1, <2>1, <2>2, <2>3
<1> QED
  BY <1>1, <1>2 DEF q, p

LEMMA CapacityOf ==
  ASSUME TInv, ChannelSet, chan.num > 0, NEW u \in Nat, chan.bytes <= u
  PROVE  /\ chan.bytes \in Nat /\ chan.bytes > 0 /\ u > 0 /\ Numbers \in Nat
         /\ BuffLength \div u \in Nat /\ (BuffLength \div u) * u <= BuffLength
         /\ (BuffLength \div u) * u \in Nat /\ BuffLength \div u < Numbers
<1>1. BuffLength \in Nat /\ Numbers \in Nat
  BY TraceAssumption
<1>2. chan.bytes \in Nat /\ chan.num \in Nat /\ chan.num <= chan.bytes
  BY TraceAssumption DEF TInv, Channels
<1>3. PICK l \in Lengths : l <= chan.bytes
  BY DEF ChannelSet
<1>4. l \in Nat /\ l > 0 /\ Numbers > BuffLength \div l
  BY TraceAssumption
<1>5. l <= u /\ u > 0
  BY <1>2, <1>3, <1>4
<1> DEFINE q == BuffLength \div u
           p == BuffLength \div l
<1>6. q \in Nat /\ q * u <= BuffLength
  BY <1>1, <1>5, DivisionIs
<1>7. q <= p /\ p \in Nat
  BY <1>1, <1>4, <1>5, DivisionFalls, DivisionIs
<1>8. Numbers > p
  BY <1>4
<1> HIDE DEF q, p
<1>9. q * u \in Nat /\ q < Numbers
  BY <1>1, <1>6, <1>7, <1>8
<1> QED
  BY <1>1, <1>2, <1>5, <1>6, <1>9 DEF q

LEMMA CapacityIs ==
  ASSUME TInv, ChannelSet, InUse
  PROVE  /\ chan.bytes \in Nat /\ chan.bytes > 0 /\ chan.bytes <= BuffLength
         /\ Unit = (IF client.phase = "polling" THEN chan.bytes + 1 ELSE chan.bytes)
         /\ Unit \in Nat /\ Unit > 0
         /\ Capacity \in Nat /\ Capacity * Unit <= BuffLength /\ Capacity * Unit \in Nat
         /\ Capacity < Numbers /\ Numbers \in Nat
<1>1. chan.num > 0 /\ chan.bytes \in Nat
  BY DEF TInv, Channels, InUse
<1>2. Unit \in Nat /\ chan.bytes <= Unit
  BY <1>1 DEF Unit
<1>3. /\ chan.bytes > 0 /\ Unit > 0 /\ Numbers \in Nat
      /\ Capacity \in Nat /\ Capacity * Unit <= BuffLength
      /\ Capacity * Unit \in Nat /\ Capacity < Numbers
  BY <1>1, <1>2, CapacityOf DEF Capacity
<1> QED
  BY <1>1, <1>2, <1>3, ChannelsFit DEF Unit

\* The numbers of the samples move on by one.
LEMMA NumbersMove ==
  ASSUME NEW next \in 0..(Numbers - 1), NEW new, new = Next1(next),
         NEW m \in Nat, m < Numbers
  PROVE  /\ new \in 0..(Numbers - 1)
         /\ (new + Numbers - 1 - m) % Numbers =
              IF m = 0 THEN next ELSE (next + Numbers - 1 - (m - 1)) % Numbers
<1>1. Numbers \in Nat /\ Numbers > 0
  BY TraceAssumption
<1>2. new = IF next + 1 < Numbers THEN next + 1 ELSE 0
  BY <1>1, ModOnce DEF Next1
<1> DEFINE x == new + Numbers - 1 - m
           y == next + Numbers - 1 - (m - 1)
<1>3. x \in Nat /\ x < Numbers + Numbers
  BY <1>1, <1>2
<1>4. m > 0 => y \in Nat /\ y < Numbers + Numbers
  BY <1>1
<1>5. m > 0 => \/ x = y
               \/ new = 0 /\ next = Numbers - 1 /\ x = y - Numbers
  BY <1>1, <1>2
<1>6. m = 0 => x = next \/ x = next + Numbers
  BY <1>1, <1>2
<1> HIDE DEF x, y
<1>7. x % Numbers = IF x < Numbers THEN x ELSE x - Numbers
  BY <1>1, <1>3, ModOnce
<1>8. m > 0 => y % Numbers = IF y < Numbers THEN y ELSE y - Numbers
  BY <1>1, <1>4, ModOnce
<1>9. x % Numbers = IF m = 0 THEN next ELSE y % Numbers
  <2>1. CASE m = 0
    BY <1>1, <1>3, <1>6, <1>7, <2>1
  <2>2. CASE m > 0
    BY <1>1, <1>3, <1>4, <1>5, <1>7, <1>8, <2>2
  <2> QED
    BY <2>1, <2>2
<1> QED
  BY <1>1, <1>2, <1>9 DEF x, y

\* One more sample is held, if there is room for one more.
OneMore(t) == IF t < Numbers THEN t + 1 ELSE t

LEMMA HeldMoves ==
  ASSUME NEW t \in Nat, NEW q \in Nat, NEW u \in Nat, q < Numbers
  PROVE  LeastOf(LeastOf(t, q) * u + u, q * u) = LeastOf(OneMore(t), q) * u
<1> DEFINE new == OneMore(t)
<1>0. new = IF t < Numbers THEN t + 1 ELSE t
  BY DEF OneMore
<1> HIDE DEF new
<1>1. Numbers \in Nat
  BY TraceAssumption
<1>2. CASE t < q
  <2>1. new = t + 1 /\ t + 1 <= q
    BY <1>0, <1>1, <1>2
  <2>2. (t + 1) * u = t * u + u /\ (t + 1) * u <= q * u
    BY <2>1
  <2>3. LeastOf(t, q) = t /\ LeastOf(new, q) = t + 1
    BY <1>2, <2>1 DEF LeastOf
  <2>4. (t + 1) * u \in Nat /\ q * u \in Nat
    OBVIOUS
  <2> DEFINE a == (t + 1) * u
             b == q * u
  <2> HIDE DEF a, b
  <2>5. a \in Nat /\ b \in Nat /\ a <= b
    BY <2>2, <2>4 DEF a, b
  <2>6. LeastOf(a, b) = a
    BY <2>5 DEF LeastOf
  <2> QED
    BY <2>2, <2>3, <2>6 DEF a, b, new
<1>3. CASE t >= q
  <2>1. LeastOf(t, q) = q /\ LeastOf(new, q) = q
    BY <1>0, <1>1, <1>3 DEF LeastOf
  <2> DEFINE b == q * u
  <2>2. b \in Nat
    OBVIOUS
  <2> HIDE DEF b
  <2>3. LeastOf(b + u, b) = b
    BY <2>2 DEF LeastOf
  <2> QED
    BY <2>1, <2>3 DEF b, new
<1> QED
  BY <1>2, <1>3 DEF new
-----------------------------------------------------------------------------
\* The bytes of a sample, or a frame, from its end.
WholeSample(bytes) ==
  /\ Len(bytes) = Unit
  /\ \A k \in 1..Unit : bytes[Unit - k + 1] = <<hist.next, chan.bytes + 1 - k>>

LEMMA SampleBytes ==
  ASSUME chan.bytes \in Nat, InUse
  PROVE  /\ client.phase # "polling" => WholeSample(Sample(hist.next))
         /\ client.phase = "polling" => WholeSample(Frame(hist.next))
<1> DEFINE n == chan.bytes
           s == Sample(hist.next)
           head == <<<<hist.next, 0>>>>
           S == {<<hist.next, i>> : i \in 0..n}
<1>1. s \in Seq(S) /\ Len(s) = n /\ \A i \in 1..n : s[i] = <<hist.next, i>>
  <2>1. s = [i \in 1..n |-> <<hist.next, i>>]
    BY DEF Sample
  <2>2. \A i \in 1..n : <<hist.next, i>> \in S
    OBVIOUS
  <2> HIDE DEF S, s
  <2>3. s \in [1..n -> S] /\ \A i \in 1..n : s[i] = <<hist.next, i>>
    BY <2>1, <2>2
  <2> QED
    BY <2>3
<1>2. head \in Seq(S) /\ Len(head) = 1 /\ head[1] = <<hist.next, 0>>
  <2>1. <<hist.next, 0>> \in S
    OBVIOUS
  <2> HIDE DEF S
  <2> QED
    BY <2>1
<1>3. Frame(hist.next) = head \o s
  BY DEF Frame
<1> HIDE DEF s, head, S
<1>4. CASE client.phase # "polling"
  <2>1. Unit = n
    BY <1>4 DEF Unit
  <2>2. \A k \in 1..n : n - k + 1 \in 1..n
    OBVIOUS
  <2>3. \A k \in 1..n : s[n - k + 1] = <<hist.next, n + 1 - k>>
    <3> SUFFICES ASSUME NEW k \in 1..n PROVE s[n - k + 1] = <<hist.next, n + 1 - k>>
      OBVIOUS
    <3>1. n - k + 1 = n + 1 - k
      OBVIOUS
    <3> QED
      BY <1>1, <2>2, <3>1
  <2> QED
    BY <1>1, <1>4, <2>1, <2>3 DEF WholeSample, s
<1>5. CASE client.phase = "polling"
  <2> DEFINE f == head \o s
  <2>1. Unit = n + 1
    BY <1>5 DEF Unit
  <2>2. Len(f) = n + 1 /\ \A i \in 1..(n + 1) : f[i] = IF i <= 1 THEN head[i] ELSE s[i - 1]
    <3>1. /\ Len(head \o s) = Len(head) + Len(s)
          /\ \A i \in 1..(Len(head) + Len(s)) :
               (head \o s)[i] = IF i <= Len(head) THEN head[i] ELSE s[i - Len(head)]
      BY <1>1, <1>2, ConcatProperties, Zenon
    <3>2. Len(head) + Len(s) = n + 1
      BY <1>1, <1>2
    <3> QED
      BY <1>2, <3>1, <3>2
  <2> HIDE DEF f
  <2>3. ASSUME NEW k \in 1..(n + 1) PROVE f[n + 1 - k + 1] = <<hist.next, n + 1 - k>>
    <3>1. n + 1 - k + 1 \in 1..(n + 1)
      OBVIOUS
    <3>2. CASE k = n + 1
      <4>1. n + 1 - k + 1 = 1 /\ n + 1 - k = 0 /\ 1 \in 1..(n + 1)
        BY <3>2
      <4>2. f[1] = head[1]
        BY <2>2, <4>1
      <4> QED
        BY <1>2, <4>1, <4>2
    <3>3. CASE k # n + 1
      <4>1. n + 1 - k \in 1..n /\ n + 1 - k + 1 > 1 /\ n + 1 - k + 1 - 1 = n + 1 - k
        BY <3>3
      <4>2. f[n + 1 - k + 1] = s[n + 1 - k]
        BY <2>2, <3>1, <4>1
      <4> QED
        BY <1>1, <4>1, <4>2
    <3> QED
      BY <3>2, <3>3
  <2>4. WholeSample(f)
    BY <2>1, <2>2, <2>3 DEF WholeSample
  <2> QED
    BY <1>3, <1>5, <2>4 DEF f
<1> QED
  BY <1>4, <1>5

LEMMA RecordHolds ==
  ASSUME TInv, Holds, ChannelSet, InUse, NEW bytes, NEW triggering, Record(bytes, triggering),
         WholeSample(bytes), chan' = chan, client'.phase = client.phase
  PROVE  Holds'
<1> DEFINE u == Unit
           q == Capacity
           len == ring.len
           cur == CurLength(ring)
<1>1. /\ ring' = ForceWrite(ring, bytes)
      /\ hist'.taken = OneMore(hist.taken) /\ hist'.next = Next1(hist.next)
  BY DEF Record, OneMore
<1>2. Unit' = u /\ Capacity' = q
  BY DEF Unit, Capacity
<1>3. /\ u \in Nat /\ u > 0 /\ q \in Nat /\ q * u <= BuffLength /\ q < Numbers /\ Numbers \in Nat
      /\ q * u \in Nat
  BY CapacityIs
<1>4. /\ ring.len \in Nat /\ ring.rd \in Nat /\ ring.wr \in Nat
      /\ ring.rd < ring.len /\ ring.wr < ring.len
      /\ BuffLength \in Nat /\ DOMAIN ring.mem = 0..BuffLength /\ ring.len <= BuffLength + 1
  BY TraceAssumption DEF TInv, RingShape, InUse
<1>5. /\ len = q * u + 1
      /\ hist.taken \in 0..Numbers /\ hist.next \in 0..(Numbers - 1)
      /\ cur = LeastOf(hist.taken, q) * u
  BY DEF Holds
<1>10. \A m \in Nat, k \in 1..u :
         m * u + k <= cur =>
           ring.mem[Back(ring, m * u + k)] =
             <<(hist.next + Numbers - 1 - m) % Numbers, chan.bytes + 1 - k>>
  BY DEF Holds
<1>6. Len(bytes) = u /\ \A k \in 1..u : bytes[u - k + 1] = <<hist.next, chan.bytes + 1 - k>>
  BY DEF WholeSample
<1> HIDE DEF u, q
<1>7. /\ ring'.len = ring.len /\ hist'.taken \in 0..Numbers /\ hist'.next \in 0..(Numbers - 1)
  <2>1. ring'.len = ring.len
    BY <1>1 DEF ForceWrite
  <2>2. hist'.taken \in 0..Numbers
    BY <1>1, <1>3, <1>5 DEF OneMore
  <2>3. hist'.next \in 0..(Numbers - 1)
    BY <1>1, <1>3, <1>5, NumbersMove
  <2> QED
    BY <2>1, <2>2, <2>3
<1>8. CASE q = 0
  <2>1. len = 1 /\ cur = 0
    <3>1. LeastOf(hist.taken, q) = 0
      BY <1>5, <1>8 DEF LeastOf
    <3> QED
      BY <1>3, <1>5, <1>8, <3>1
  <2>2. ring'.rd = 0 /\ ring'.wr = 0
    <3>1. ring'.rd \in Nat /\ ring'.wr \in Nat /\ ring'.rd < ring'.len /\ ring'.wr < ring'.len
      BY <1>1, <1>3, <1>4, <1>6, ForceWriteShape
    <3> QED
      BY <1>7, <2>1, <3>1
  <2>3. CurLength(ring') = 0
    BY <1>7, <2>1, <2>2 DEF CurLength
  <2>4. LeastOf(hist'.taken, q) = 0
    BY <1>7, <1>8 DEF LeastOf
  <2>5. \A m \in Nat, k \in 1..u : ~(m * u + k <= 0)
    BY <1>3
  <2>6. CurLength(ring') = LeastOf(hist'.taken, q) * u /\ ring'.len = q * u + 1
    BY <1>3, <1>5, <1>7, <2>3, <2>4
  <2> QED
    BY <1>2, <1>7, <2>3, <2>5, <2>6 DEF Holds
<1>9. CASE q > 0
  <2>1. Len(bytes) < ring.len
    <3> DEFINE p == q * u
    <3>1. u <= p /\ p \in Nat
      BY <1>3, <1>9
    <3>2. ring.len = p + 1 /\ Len(bytes) = u
      BY <1>5, <1>6
    <3> HIDE DEF p
    <3> QED
      BY <1>3, <3>1, <3>2
  <2> DEFINE new == CurLength(ring')
  <2>2. new = LeastOf(cur + u, len - 1) /\ cur \in 0..(len - 1)
    BY <1>1, <1>3, <1>4, <1>6, <2>1, ForceWriteLength
  <2>3. new = LeastOf(hist'.taken, q) * u
    <3>1. LeastOf(LeastOf(hist.taken, q) * u + u, q * u) = LeastOf(hist'.taken, q) * u
      <4>1. hist.taken \in Nat
        BY <1>5
      <4> QED
        BY <1>1, <1>3, <4>1, HeldMoves
    <3>2. len - 1 = q * u
      BY <1>3, <1>5
    <3> QED
      BY <1>5, <2>2, <3>1, <3>2
  <2> HIDE DEF new, len, cur
  <2>4. ASSUME NEW m \in Nat, NEW k \in 1..u, m * u + k <= new
        PROVE  ring'.mem[Back(ring', m * u + k)] =
                 <<(hist'.next + Numbers - 1 - m) % Numbers, chan.bytes + 1 - k>>
    <3> DEFINE b == m * u + k
    <3>1. b \in Nat /\ 0 < b /\ m * u \in Nat
      BY <1>3
    <3>2. new \in Nat /\ new <= len - 1 /\ new <= cur + u
      BY <1>3, <1>4, <2>2 DEF LeastOf, len
    <3>3. b < ring.len /\ b <= cur + u
      <4>1. b <= new
        BY <2>4
      <4> HIDE DEF b
      <4> QED
        BY <1>3, <1>4, <2>2, <3>1, <3>2, <4>1 DEF len
    <3>4. ring'.mem[Back(ring', b)] = IF b <= u THEN bytes[u - b + 1]
                                      ELSE ring.mem[Back(ring, b - u)]
      <4> HIDE DEF b
      <4>1. ring'.mem[Back(ring', b)] = IF b <= Len(bytes) THEN bytes[Len(bytes) - b + 1]
                                        ELSE ring.mem[Back(ring, b - Len(bytes))]
        <5> DEFINE f == ForceWrite(ring, bytes)
        <5>1. Len(bytes) \in Nat
          BY <1>3, <1>6
        <5>2. f.mem[Back(f, b)] = IF b <= Len(bytes) THEN bytes[Len(bytes) - b + 1]
                                  ELSE ring.mem[Back(ring, b - Len(bytes))]
          <6>1. b < ring.len
            BY <3>3
          <6> QED
            BY <1>4, <2>1, <3>1, <5>1, <6>1, ForceWriteBack, Zenon
        <5>3. ring' = f
          BY <1>1
        <5> HIDE DEF f
        <5> QED
          BY <5>2, <5>3, Zenon
      <4> QED
        BY <1>6, <4>1
    <3>5. m < Numbers
      <4>1. m * u < q * u
        <5> DEFINE x == m * u
                   y == q * u
        <5>1. x + k <= new /\ x \in Nat /\ y \in Nat /\ len = y + 1
          BY <1>3, <1>5, <2>4, <3>1
        <5> HIDE DEF x, y
        <5>2. x < y
          BY <1>3, <1>4, <2>2, <3>2, <5>1 DEF len, LeastOf
        <5> QED
          BY <5>2 DEF x, y
      <4>2. m < q
        BY <1>3, <4>1
      <4> QED
        BY <1>3, <4>2
    <3>6. (hist'.next + Numbers - 1 - m) % Numbers =
            IF m = 0 THEN hist.next ELSE (hist.next + Numbers - 1 - (m - 1)) % Numbers
      BY <1>1, <1>5, <3>5, NumbersMove
    <3>7. CASE m = 0
      <4>1. b = k /\ b <= u
        BY <1>3, <3>7
      <4> HIDE DEF b
      <4>2. ring'.mem[Back(ring', b)] = <<hist.next, chan.bytes + 1 - k>>
        BY <1>6, <3>4, <4>1
      <4> QED
        BY <3>6, <3>7, <4>2 DEF b
    <3>8. CASE m > 0
      <4>1. (m - 1) * u + k = b - u /\ b > u /\ m - 1 \in Nat
        <5>1. (m - 1) * u = m * u - u /\ (m - 1) * u \in Nat
          BY <1>3, <3>8
        <5> QED
          BY <1>3, <3>1, <3>8, <5>1
      <4>2. (m - 1) * u + k <= cur
        BY <1>3, <1>4, <2>2, <3>1, <3>3, <4>1 DEF len
      <4>3. ring.mem[Back(ring, (m - 1) * u + k)] =
              <<(hist.next + Numbers - 1 - (m - 1)) % Numbers, chan.bytes + 1 - k>>
        BY <1>10, <4>1, <4>2
      <4> HIDE DEF b
      <4>4. ring'.mem[Back(ring', b)] = ring.mem[Back(ring, b - u)]
        BY <1>3, <3>1, <3>4, <4>1
      <4> QED
        BY <3>6, <3>8, <4>1, <4>3, <4>4 DEF b
    <3> QED
      BY <3>7, <3>8
  <2> QED
    BY <1>2, <1>5, <1>7, <2>3, <2>4 DEF Holds, new, len
<1> QED
  BY <1>3, <1>8, <1>9
\* Nothing of what Holds speaks of changes.
LEMMA HoldsStays ==
  ASSUME Holds, UNCHANGED <<ring, hist, chan>>, Unit' = Unit, InUse' => InUse
  PROVE  Holds'
<1>1. Capacity' = Capacity
  BY DEF Capacity
<1> QED
  BY <1>1 DEF Holds

LEMMA RunHolds ==
  ASSUME TInv, Holds, ChannelSet, TraceRun
  PROVE  Holds'
<1>1. chan' = chan /\ client'.phase = client.phase
  BY SendShape DEF TraceRun
<1>2. Unit' = Unit /\ InUse' = InUse
  BY <1>1 DEF Unit, InUse
<1>3. CASE Skip \/ Finish \/ Rest
  <2>1. ring' = ring /\ hist' = hist
    BY <1>3 DEF Skip, Finish, Rest
  <2> QED
    BY <1>1, <1>2, <2>1, HoldsStays
<1>4. CASE (\E values \in [{0, 1} -> BOOLEAN] : Watch(values)) \/ Poll \/ Follow
  <2>1. PICK bytes, triggering :
           /\ Record(bytes, triggering) /\ rec.status \in {"running", "trigged"}
           /\ \/ bytes = Sample(hist.next) /\ (rec.polling => rec.status = "trigged")
              \/ bytes = Frame(hist.next) /\ rec.polling
    BY <1>4, Zenon DEF Watch, Poll, Follow
  <2>2. /\ InUse
        /\ rec.polling <=> client.phase = "polling"
        /\ client.phase = "polling" => rec.status = "running"
    BY <2>1 DEF TInv, Stage, InUse
  <2>3. WholeSample(bytes)
    <3>1. chan.bytes \in Nat
      BY DEF TInv, Channels
    <3> QED
      BY <2>1, <2>2, <3>1, SampleBytes
  <2> QED
    BY <1>1, <2>1, <2>2, <2>3, RecordHolds
<1> QED
  BY <1>3, <1>4 DEF TraceRun, Collect

LEMMA NoneIsEmpty ==
  ASSUME NEW u \in Nat
  PROVE  0 * u = 0 /\ \A m \in Nat, k \in 1..u : ~(m * u + k <= 0)
<1>1. 0 * u = 0
  OBVIOUS
<1>2. ASSUME NEW m \in Nat, NEW k \in 1..u PROVE ~(m * u + k <= 0)
  <2> DEFINE x == m * u
  <2>1. x \in Nat
    OBVIOUS
  <2> HIDE DEF x
  <2>2. ~(x + k <= 0)
    BY <2>1
  <2> QED
    BY <2>2 DEF x
<1> QED
  BY <1>1, <1>2

\* An empty ring of a whole number of samples holds none.
LEMMA EmptyHolds ==
  ASSUME NEW u \in Nat, u > 0, ring' = TraceInitial(u), u = Unit', hist' = Fresh,
         BuffLength \div u \in Nat, (BuffLength \div u) * u \in Nat, Numbers \in Nat, Numbers > 0
  PROVE  Holds'
<1> DEFINE q == BuffLength \div u
           p == q * u
<1>1. /\ ring'.len = p + 1 /\ ring'.rd = 0 /\ ring'.wr = 0
      /\ hist'.taken = 0 /\ hist'.next = 0
  BY DEF TraceInitial, Initial, Fresh
<1>2. Capacity' = q
  BY DEF Capacity
<1>3. p \in Nat /\ q \in Nat
  OBVIOUS
<1> HIDE DEF p, q
<1>4. CurLength(ring') = 0
  <2>1. CurLength(ring') = (p + 1) % (p + 1)
    BY <1>1, <1>3 DEF CurLength
  <2>2. (p + 1) % (p + 1) = 0
    BY <1>3, ModOnce
  <2> QED
    BY <2>1, <2>2
<1>5. LeastOf(0, q) * u = 0
  <2>1. LeastOf(0, q) = 0
    BY <1>3 DEF LeastOf
  <2> QED
    BY <2>1, NoneIsEmpty
<1>6. \A m \in Nat, k \in 1..u : ~(m * u + k <= 0)
  BY NoneIsEmpty
<1>7. ring'.len = q * u + 1
  BY <1>1 DEF p
<1>8. 0 \in 0..Numbers /\ 0 \in 0..(Numbers - 1)
  OBVIOUS
<1> QED
  BY <1>1, <1>2, <1>4, <1>5, <1>6, <1>7, <1>8 DEF Holds

LEMMA ChannelSetStep ==
  ASSUME TInv, ChannelSet, [Next]_vars
  PROVE  ChannelSet'
<1>1. CASE Clear
  BY <1>1 DEF Clear, ChannelSet
<1>2. ASSUME NEW l \in Lengths, SetChannel(l) PROVE ChannelSet'
  <2>1. chan'.bytes = chan.bytes + l /\ chan.bytes \in Nat /\ l \in Nat
    BY <1>2, TraceAssumption DEF SetChannel, TInv, Channels
  <2>2. l <= chan'.bytes
    BY <2>1
  <2> QED
    BY <2>2 DEF ChannelSet
<1>3. CASE chan' = chan
  BY <1>3 DEF ChannelSet
<1> QED
  BY <1>1, <1>2, <1>3 DEF Next, Command, TraceRun, SetSampleConfig, SetTrigger, Start,
                          StartPolling, Fetch, FetchRest, vars

LEMMA HoldsStep ==
  ASSUME TInv, Holds, ChannelSet, [Next]_vars
  PROVE  Holds'
<1>1. CASE TraceRun
  BY <1>1, RunHolds
<1>2. CASE Clear \/ SetTrigger \/ (\E l \in Lengths : SetChannel(l))
           \/ (\E pre \in PreCounts, post \in PostCounts, rate \in Rates, op \in Ops :
                SetSampleConfig(pre, post, rate, op))
  <2>1. CASE Clear
    BY <2>1 DEF Clear, Holds, InUse
  <2>2. CASE client' = client /\ client.phase = "setup"
    BY <2>2 DEF Holds, InUse
  <2> QED
    BY <1>2, <2>1, <2>2 DEF SetTrigger, SetChannel, SetSampleConfig
<1>3. CASE Start \/ StartPolling
  <2>1. /\ client.phase = "setup" /\ chan' = chan /\ hist' = Fresh /\ chan.num > 0
        /\ \/ client'.phase = "recording" /\ ring' = TraceInitial(pollLen)
           \/ client'.phase = "polling" /\ ring' = TraceInitial(pollLen + 1)
    BY <1>3 DEF Start, StartPolling, ReadyToStart, TInv, Types
  <2>2. pollLen = chan.bytes
    BY <2>1 DEF TInv, Channels
  <2>3. chan.bytes \in Nat
    BY DEF TInv, Channels
  <2>4. PICK u \in Nat : u = Unit' /\ ring' = TraceInitial(u) /\ chan.bytes <= u
    <3>1. CASE client'.phase = "recording" /\ ring' = TraceInitial(pollLen)
      BY <2>1, <2>2, <2>3, <3>1 DEF Unit
    <3>2. CASE client'.phase = "polling" /\ ring' = TraceInitial(pollLen + 1)
      BY <2>1, <2>2, <2>3, <3>2 DEF Unit
    <3> QED
      BY <2>1, <3>1, <3>2
  <2>5. /\ u > 0 /\ Numbers \in Nat /\ BuffLength \div u \in Nat
        /\ (BuffLength \div u) * u \in Nat /\ BuffLength \div u < Numbers
    BY <2>1, <2>4, CapacityOf
  <2>6. Numbers > 0
    BY <2>5
  <2> QED
    BY <2>1, <2>4, <2>5, <2>6, EmptyHolds
<1>4. CASE Fetch \/ FetchRest
  <2>1. /\ client.phase \in {"recording", "sector1"} /\ client'.phase \in {"sector1", "sector2"}
        /\ UNCHANGED <<ring, hist, chan>>
    BY <1>4 DEF Fetch, FetchRest, TInv, Types
  <2>2. Unit' = Unit /\ InUse
    BY <2>1 DEF Unit, InUse
  <2> QED
    BY <2>1, <2>2, HoldsStays
<1>5. CASE UNCHANGED vars
  BY <1>5, HoldsStays DEF vars, Unit, InUse
<1> QED
  BY <1>1, <1>2, <1>3, <1>4, <1>5 DEF Next, Command

LEMMA HoldsInit == Init => Holds /\ ChannelSet
BY DEF Init, Holds, InUse, ChannelSet
-----------------------------------------------------------------------------
(***************************************************************************)
(* The window is the recording.                                            *)
(***************************************************************************)
\* Where the i-th byte of the window lies.
PlaceOf(d, i) == IF i <= d.len1 THEN d.at1 + i - 1 ELSE d.at2 + i - d.len1 - 1

LEMMA PlaceIsBack ==
  ASSUME TInv, Recorded
  PROVE  LET d == DataSector
             w == LeastOf(TotalLen, CurLength(ring))
         IN  /\ d.len1 + d.len2 = w
             /\ \A i \in 1..w : PlaceOf(d, i) = Back(ring, w - i + 1)
<1> DEFINE d == DataSector
           len == ring.len
           rd == ring.rd
           wr == ring.wr
           t == TotalLen
           cur == CurLength(ring)
           w == LeastOf(t, cur)
<1>1. len \in Nat /\ rd \in Nat /\ wr \in Nat /\ rd < len /\ wr < len
  BY DEF TInv, RingShape, Recorded
<1>2. t \in Nat
  BY TotalLenNat
<1>3. d = IF wr >= rd
          THEN IF 0 >= t THEN [at1 |-> 0 - t, len1 |-> t, at2 |-> 0, len2 |-> 0]
               ELSE IF wr - rd > t
               THEN [at1 |-> rd + (wr - rd) - t, len1 |-> t, at2 |-> 0, len2 |-> 0]
               ELSE [at1 |-> rd, len1 |-> wr - rd, at2 |-> 0, len2 |-> 0]
          ELSE IF wr >= t THEN [at1 |-> wr - t, len1 |-> t, at2 |-> 0, len2 |-> 0]
               ELSE IF len - rd + wr > t
               THEN [at1 |-> rd + (len - rd + wr) - t, len1 |-> t - wr, at2 |-> 0, len2 |-> wr]
               ELSE [at1 |-> rd, len1 |-> len - rd, at2 |-> 0, len2 |-> wr]
  <2> DEFINE s == DataSectors(ring)
             cut == [s EXCEPT !.at1 = @ + (s.len1 + s.len2) - t, !.len1 = t - s.len2]
  <2>1. d = IF s.len2 >= t
            THEN [at1 |-> s.at2 + s.len2 - t, len1 |-> t, at2 |-> 0, len2 |-> 0]
            ELSE IF s.len1 + s.len2 > t THEN cut ELSE s
    BY DEF DataSector
  <2>2. s = IF wr >= rd THEN [at1 |-> rd, len1 |-> wr - rd, at2 |-> 0, len2 |-> 0]
                        ELSE [at1 |-> rd, len1 |-> len - rd, at2 |-> 0, len2 |-> wr]
    BY DEF DataSectors
  <2>3. cut = [at1 |-> s.at1 + (s.len1 + s.len2) - t, len1 |-> t - s.len2,
               at2 |-> s.at2, len2 |-> s.len2]
    <3> HIDE DEF t, len, rd, wr, s
    <3>1. s \in [at1 : Int, len1 : Int, at2 : Int, len2 : Int]
      BY <1>1, <2>2
    <3> DEFINE x == s.at1 + (s.len1 + s.len2) - t
               y == t - s.len2
    <3>2. cut = [s EXCEPT !.at1 = x, !.len1 = y]
      BY Zenon
    <3> HIDE DEF x, y, cut
    <3>3. cut = [at1 |-> x, len1 |-> y, at2 |-> s.at2, len2 |-> s.len2]
      BY <3>1, <3>2
    <3> QED
      BY <3>3 DEF x, y
  <2> HIDE DEF d, t, len, rd, wr, s, cut
  <2>4. CASE wr >= rd
    BY <1>1, <1>2, <2>1, <2>2, <2>3, <2>4
  <2>5. CASE ~(wr >= rd)
    BY <1>1, <1>2, <2>1, <2>2, <2>3, <2>5
  <2> QED
    BY <2>4, <2>5
<1>4. cur = IF wr >= rd THEN wr - rd ELSE wr + len - rd
  <2>1. cur = Behind(len, wr, rd)
    BY DEF CurLength, Behind
  <2> HIDE DEF len, wr, rd, cur
  <2>2. rd <= len
    BY <1>1
  <2> QED
    BY <1>1, <2>1, <2>2, BehindIs
<1> HIDE DEF d, t, cur
<1>5. w \in Nat /\ w < len /\ w = IF t <= cur THEN t ELSE cur
  BY <1>1, <1>2, <1>4 DEF LeastOf
<1> HIDE DEF w
<1>6. d.len1 + d.len2 = w
  <2> HIDE DEF len, wr, rd
  <2> QED
    BY <1>1, <1>2, <1>3, <1>4, <1>5
<1>7. ASSUME NEW i \in 1..w PROVE PlaceOf(d, i) = Back(ring, w - i + 1)
  <2>1. Back(ring, w - i + 1) = Behind(len, wr, w - i + 1)
    BY DEF Back
  <2> HIDE DEF len, wr, rd
  <2>2. w - i + 1 \in Nat /\ w - i + 1 <= len
    BY <1>1, <1>5
  <2>3. Behind(len, wr, w - i + 1) =
          IF wr >= w - i + 1 THEN wr - (w - i + 1) ELSE wr + len - (w - i + 1)
    BY <1>1, <2>2, BehindIs
  <2> DEFINE z == Behind(len, wr, w - i + 1)
  <2>4. PlaceOf(d, i) = z
    <3>1. z = IF wr >= w - i + 1 THEN wr - (w - i + 1) ELSE wr + len - (w - i + 1)
      BY <2>3
    <3> HIDE DEF z
    <3>2. CASE wr >= rd
      BY <1>1, <1>2, <1>3, <1>4, <1>5, <3>1, <3>2 DEF PlaceOf
    <3>3. CASE ~(wr >= rd)
      BY <1>1, <1>2, <1>3, <1>4, <1>5, <3>1, <3>3 DEF PlaceOf
    <3> QED
      BY <3>2, <3>3
  <2> QED
    BY <2>1, <2>4
<1> QED
  BY <1>6, <1>7 DEF d, w, t, cur

\* The window, byte by byte from its end.
LEMMA WindowBytes ==
  ASSUME TInv, Recorded
  PROVE  LET w == LeastOf(TotalLen, CurLength(ring))
         IN  /\ Window \in Seq(BytesOf(ring.mem)) /\ Len(Window) = w
             /\ \A i \in 1..w : Window[i] = ring.mem[Back(ring, w - i + 1)]
<1> DEFINE d == DataSector
           w == LeastOf(TotalLen, CurLength(ring))
           r1 == Run(ring.mem, d.at1, d.len1)
           r2 == Run(ring.mem, d.at2, d.len2)
           S == BytesOf(ring.mem)
<1>1. d.at1 \in Nat /\ d.len1 \in Nat /\ d.at2 \in Nat /\ d.len2 \in Nat
  BY WindowInside
<1>8. Window = r1 \o r2
  BY DEF Window, BothRuns
<1>2. d.len1 + d.len2 = w /\ \A i \in 1..w : PlaceOf(d, i) = Back(ring, w - i + 1)
  BY PlaceIsBack
<1> HIDE DEF d, w
<1>3. /\ r1 \in Seq(S) /\ Len(r1) = d.len1 /\ \A k \in 1..d.len1 : r1[k] = ring.mem[d.at1 + k - 1]
  <2>1. d.at1 \in Nat /\ d.len1 \in Nat
    BY <1>1
  <2> QED
    BY <2>1, RunIs, Zenon
<1>4. /\ r2 \in Seq(S) /\ Len(r2) = d.len2 /\ \A k \in 1..d.len2 : r2[k] = ring.mem[d.at2 + k - 1]
  <2>1. d.at2 \in Nat /\ d.len2 \in Nat
    BY <1>1
  <2> QED
    BY <2>1, RunIs, Zenon
<1> HIDE DEF r1, r2, S
<1>5. /\ r1 \o r2 \in Seq(S) /\ Len(r1 \o r2) = Len(r1) + Len(r2)
      /\ \A i \in 1..(Len(r1) + Len(r2)) :
           (r1 \o r2)[i] = IF i <= Len(r1) THEN r1[i] ELSE r2[i - Len(r1)]
  BY <1>3, <1>4, ConcatProperties, Zenon
<1>6. Window \in Seq(S) /\ Len(Window) = w
  BY <1>1, <1>2, <1>3, <1>4, <1>5, <1>8
<1>7. ASSUME NEW i \in 1..w PROVE Window[i] = ring.mem[Back(ring, w - i + 1)]
  <2>1. Window[i] = IF i <= d.len1 THEN r1[i] ELSE r2[i - d.len1]
    BY <1>1, <1>2, <1>3, <1>4, <1>5, <1>8
  <2>2. Window[i] = ring.mem[PlaceOf(d, i)]
    <3>1. CASE i <= d.len1
      <4>1. i \in 1..d.len1
        BY <3>1
      <4> QED
        BY <1>3, <2>1, <3>1, <4>1 DEF PlaceOf
    <3>2. CASE ~(i <= d.len1)
      <4>1. i - d.len1 \in 1..d.len2 /\ d.at2 + (i - d.len1) - 1 = d.at2 + i - d.len1 - 1
        BY <1>1, <1>2, <3>2
      <4>2. r2[i - d.len1] = ring.mem[d.at2 + (i - d.len1) - 1]
        BY <1>4, <4>1
      <4> QED
        BY <2>1, <3>2, <4>1, <4>2 DEF PlaceOf
    <3> QED
      BY <3>1, <3>2
  <2> QED
    BY <1>2, <2>2
<1> QED
  BY <1>6, <1>7 DEF S, w
\* How much the ring holds, in samples.
LEMMA HeldIs ==
  ASSUME TInv, Holds, ChannelSet, InUse
  PROVE  \E t \in Nat : /\ t = LeastOf(hist.taken, Capacity) /\ t < Numbers
                        /\ CurLength(ring) = t * Unit /\ t * Unit \in Nat
<1>1. Capacity \in Nat /\ Capacity < Numbers /\ Unit \in Nat /\ hist.taken \in Nat /\ Numbers \in Nat
  BY CapacityIs DEF Holds
<1> DEFINE t == LeastOf(hist.taken, Capacity)
<1>2. t \in Nat /\ t < Numbers
  BY <1>1 DEF LeastOf
<1>3. CurLength(ring) = t * Unit
  BY DEF Holds
<1> HIDE DEF t
<1>4. t * Unit \in Nat
  BY <1>1, <1>2
<1> QED
  BY <1>2, <1>3, <1>4 DEF t

LEMMA TimesWhole ==
  ASSUME NEW t \in Nat, NEW u \in Nat, u > 0
  PROVE  (t * u) % u = 0
BY SMT

\* The oldest byte is the first of a sample, or of a frame.
LEMMA HoldsWhole ==
  ASSUME TInv, Holds, ChannelSet
  PROVE  RingWhole
<1> SUFFICES ASSUME InUse
             PROVE  /\ CurLength(ring) % Unit = 0
                    /\ HeldBytes # <<>> =>
                         HeldBytes[1][2] = IF client.phase = "polling" THEN 0 ELSE 1
  BY DEF RingWhole, Recorded, InUse
<1>1. /\ chan.bytes \in Nat /\ Unit \in Nat /\ Unit > 0
      /\ Unit = IF client.phase = "polling" THEN chan.bytes + 1 ELSE chan.bytes
  BY CapacityIs
<1>2. PICK t \in Nat : CurLength(ring) = t * Unit /\ t * Unit \in Nat
  BY HeldIs
<1>3. CurLength(ring) % Unit = 0
  BY <1>1, <1>2, TimesWhole
<1>4. ASSUME HeldBytes # <<>>
      PROVE  HeldBytes[1][2] = IF client.phase = "polling" THEN 0 ELSE 1
  <2> DEFINE len == ring.len
             rd == ring.rd
             wr == ring.wr
             d == DataSectors(ring)
             r1 == Run(ring.mem, d.at1, d.len1)
             r2 == Run(ring.mem, d.at2, d.len2)
             cur == CurLength(ring)
  <2>1. len \in Nat /\ rd \in Nat /\ wr \in Nat /\ rd < len /\ wr < len
    BY DEF TInv, RingShape, InUse
  <2>2. cur = IF wr >= rd THEN wr - rd ELSE wr + len - rd
    <3>1. cur = Behind(len, wr, rd)
      BY DEF CurLength, Behind
    <3> HIDE DEF len, wr, rd, cur
    <3>2. rd <= len
      BY <2>1
    <3> QED
      BY <2>1, <3>1, <3>2, BehindIs
  <2>3. /\ d.at1 = rd /\ d.len1 \in Nat /\ d.at2 = 0 /\ d.len2 \in Nat
        /\ rd # wr => d.len1 > 0
        /\ rd = wr => d.len1 = 0 /\ d.len2 = 0
    <3>1. d = IF wr >= rd THEN [at1 |-> rd, len1 |-> wr - rd, at2 |-> 0, len2 |-> 0]
                          ELSE [at1 |-> rd, len1 |-> len - rd, at2 |-> 0, len2 |-> wr]
      BY DEF DataSectors
    <3> HIDE DEF d, len, rd, wr
    <3>2. CASE wr >= rd
      BY <2>1, <3>1, <3>2
    <3>3. CASE ~(wr >= rd)
      BY <2>1, <3>1, <3>3
    <3> QED
      BY <3>2, <3>3
  <2>4. HeldBytes = r1 \o r2
    BY DEF HeldBytes, BothRuns
  <2> HIDE DEF d, cur
  <2>5. /\ r1 \in Seq(BytesOf(ring.mem)) /\ Len(r1) = d.len1
        /\ \A k \in 1..d.len1 : r1[k] = ring.mem[d.at1 + k - 1]
    <3>1. d.at1 \in Nat /\ d.len1 \in Nat
      BY <2>1, <2>3
    <3> QED
      BY <3>1, RunIs, Zenon
  <2>6. r2 \in Seq(BytesOf(ring.mem)) /\ Len(r2) = d.len2
    <3>1. d.at2 \in Nat /\ d.len2 \in Nat
      BY <2>3
    <3> QED
      BY <3>1, RunIs, Zenon
  <2> HIDE DEF r1, r2, len, rd, wr
  <2>7. rd # wr
    <3> SUFFICES ASSUME rd = wr PROVE r1 \o r2 = <<>>
      BY <1>4, <2>4
    <3>1. Len(r1) = 0 /\ Len(r2) = 0
      BY <2>3, <2>5, <2>6
    <3>2. r1 = <<>> /\ r2 = <<>>
      BY <2>5, <2>6, <3>1, EmptySeq
    <3> QED
      BY <3>2
  <2>8. HeldBytes[1] = ring.mem[rd]
    <3>1. (r1 \o r2)[1] = r1[1]
      <4>1. /\ Len(r1 \o r2) = Len(r1) + Len(r2)
            /\ \A i \in 1..(Len(r1) + Len(r2)) :
                 (r1 \o r2)[i] = IF i <= Len(r1) THEN r1[i] ELSE r2[i - Len(r1)]
        BY <2>5, <2>6, ConcatProperties, Zenon
      <4> QED
        BY <2>3, <2>5, <2>6, <2>7, <4>1
    <3>2. r1[1] = ring.mem[rd]
      BY <2>1, <2>3, <2>5, <2>7
    <3> QED
      BY <2>4, <3>1, <3>2
  <2>9. cur > 0 /\ cur \in Nat /\ cur <= len
    BY <2>1, <2>2, <2>7
  <2>10. Back(ring, cur) = rd
    <3>1. Back(ring, cur) = Behind(len, wr, cur)
      BY DEF Back, len, wr
    <3>2. Behind(len, wr, cur) = IF wr >= cur THEN wr - cur ELSE wr + len - cur
      BY <2>1, <2>9, BehindIs
    <3> QED
      BY <2>1, <2>2, <2>7, <3>1, <3>2
  <2>11. t >= 1
    <3>1. t = 0 => t * Unit = 0
      BY <1>1
    <3> QED
      BY <1>2, <2>9, <3>1 DEF cur
  <2>12. t - 1 \in Nat /\ (t - 1) * Unit + Unit = cur
    <3>1. (t - 1) * Unit + Unit = t * Unit
      BY <1>1, <2>11
    <3> QED
      BY <1>2, <2>11, <3>1 DEF cur
  <2>13. ring.mem[rd] = <<(hist.next + Numbers - 1 - (t - 1)) % Numbers, chan.bytes + 1 - Unit>>
    <3>1. Unit \in 1..Unit /\ (t - 1) * Unit + Unit <= CurLength(ring)
      BY <1>1, <2>9, <2>12 DEF cur
    <3>2. ring.mem[Back(ring, (t - 1) * Unit + Unit)] =
            <<(hist.next + Numbers - 1 - (t - 1)) % Numbers, chan.bytes + 1 - Unit>>
      BY <2>12, <3>1 DEF Holds
    <3> QED
      BY <2>10, <2>12, <3>2
  <2>14. HeldBytes[1][2] = chan.bytes + 1 - Unit
    BY <2>8, <2>13
  <2> QED
    BY <1>1, <2>14
<1> QED
  BY <1>3, <1>4

\* As many bytes are asked for as the samples that are have.
LEMMA TotalLenIs ==
  ASSUME NoWrap, TInv, Asked, Recorded
  PROVE  /\ TotalLen = (conf.pre + conf.post) * chan.bytes
         /\ conf.pre + conf.post \in Nat /\ (conf.pre + conf.post) * chan.bytes \in Nat
<1> DEFINE n == conf.pre + conf.post
           b == chan.bytes
<1>1. conf.pre \in PreCounts /\ conf.post \in PostCounts /\ n \in Nat
  <2>1. n > 0
    BY DEF Asked, Recorded
  <2>2. conf.pre \in PreCounts /\ conf.post \in PostCounts
    BY <2>1 DEF Asked
  <2>3. n \in Nat
    BY DEF TInv, Types, ConfState
  <2> HIDE DEF n
  <2> QED
    BY <2>2, <2>3
<1>2. b \in Nat /\ b <= BuffLength /\ pollLen = b /\ BuffLength \in Nat
  BY ChannelsFit, TraceAssumption DEF TInv, Channels, Recorded
<1>3. BuffLength * n < 65536
  BY <1>1 DEF NoWrap
<1>4. TotalLen = (b * n) % 65536
  BY <1>2 DEF TotalLen
<1> HIDE DEF n, b
<1>5. b * n = n * b /\ b * n \in Nat /\ b * n <= BuffLength * n /\ BuffLength * n \in Nat
  BY <1>1, <1>2
<1> DEFINE m == b * n
           all == BuffLength * n
<1>6. m \in Nat /\ all \in Nat /\ m <= all /\ all < 65536 /\ TotalLen = m % 65536
  BY <1>3, <1>4, <1>5
<1> HIDE DEF m, all
<1>7. TotalLen = m
  BY <1>6
<1> QED
  BY <1>1, <1>5, <1>7 DEF m, n, b

LEMMA LeastTimes ==
  ASSUME NEW a \in Nat, NEW b \in Nat, NEW u \in Nat
  PROVE  LeastOf(a * u, b * u) = LeastOf(a, b) * u
<1> DEFINE x == a * u
           y == b * u
<1>1. x \in Nat /\ y \in Nat
  OBVIOUS
<1>2. a <= b => x <= y
  OBVIOUS
<1>3. ~(a <= b) => y <= x
  OBVIOUS
<1> HIDE DEF x, y
<1>4. LeastOf(x, y) = IF a <= b THEN x ELSE y
  BY <1>1, <1>2, <1>3 DEF LeastOf
<1>5. LeastOf(a, b) = IF a <= b THEN a ELSE b
  BY DEF LeastOf
<1> QED
  BY <1>4, <1>5 DEF x, y

LEMMA DivModIs ==
  ASSUME NEW i \in Nat, NEW b \in Nat, b > 0, NEW n \in Nat, i < n * b
  PROVE  /\ i \div b \in Nat /\ i % b \in Nat /\ i % b < b
         /\ i = (i \div b) * b + (i % b) /\ i \div b < n
<1> DEFINE q == i \div b
           r == i % b
<1>1. q \in Nat /\ r \in Nat /\ r < b /\ i = q * b + r
  BY SMT
<1> HIDE DEF q, r
<1>2. ASSUME q >= n PROVE FALSE
  <2>1. q * b >= n * b /\ q * b \in Nat /\ n * b \in Nat
    BY <1>1, <1>2
  <2> QED
    BY <1>1, <2>1
<1>3. q < n
  BY <1>1, <1>2
<1> QED
  BY <1>1, <1>3 DEF q, r

LEMMA HoldsWindow ==
  ASSUME NoWrap, TInv, Asked, Holds, ChannelSet
  PROVE  WindowIsRecording
<1> DEFINE p == conf.pre + conf.post
           b == chan.bytes
           cap == BuffLength \div chan.bytes
           n == LeastOf(p, LeastOf(hist.taken, cap))
           w == LeastOf(TotalLen, CurLength(ring))
<1> SUFFICES ASSUME Recorded PROVE Window = LastSamples(n)
  BY DEF WindowIsRecording
<1>1. InUse /\ client.phase # "polling"
  BY DEF InUse, Recorded
<1>2. b \in Nat /\ b > 0 /\ Unit = b /\ Capacity = cap
  BY <1>1, CapacityIs DEF Capacity
<1>3. PICK t \in Nat : t = LeastOf(hist.taken, cap) /\ t < Numbers /\ CurLength(ring) = t * b
  BY <1>1, <1>2, HeldIs
<1>4. TotalLen = p * b /\ p \in Nat
  BY TotalLenIs
<1>5. n = LeastOf(p, t)
  BY <1>3
<1>6. Window \in Seq(BytesOf(ring.mem)) /\ Len(Window) = w
      /\ \A i \in 1..w : Window[i] = ring.mem[Back(ring, w - i + 1)]
  BY WindowBytes
<1>7. \A m \in Nat, k \in 1..b :
        m * b + k <= CurLength(ring) =>
          ring.mem[Back(ring, m * b + k)] =
            <<(hist.next + Numbers - 1 - m) % Numbers, b + 1 - k>>
  BY <1>1, <1>2 DEF Holds
<1>8. Numbers \in Nat /\ hist.next \in Nat
  BY <1>1, TraceAssumption DEF Holds
<1>9. LastSamples(n) = [i \in 1..(n * b) |->
        <<(hist.next + Numbers - (n - (i - 1) \div b)) % Numbers, ((i - 1) % b) + 1>>]
  BY DEF LastSamples
<1> HIDE DEF p, b, cap, n, w
<1>10. n \in Nat /\ n <= t /\ n < Numbers
  BY <1>3, <1>4, <1>5, <1>8 DEF LeastOf
<1>11. w = n * b
  BY <1>2, <1>3, <1>4, <1>5, LeastTimes DEF w
<1>12. n * b <= t * b /\ n * b \in Nat /\ t * b \in Nat
  BY <1>2, <1>10
<1>13. ASSUME NEW i \in 1..(n * b)
       PROVE  Window[i] = <<(hist.next + Numbers - (n - (i - 1) \div b)) % Numbers,
                            ((i - 1) % b) + 1>>
  <2> DEFINE d == (i - 1) \div b
             r == (i - 1) % b
             m == n - 1 - d
             k == b - r
  <2>1. d \in Nat /\ r \in Nat /\ r < b /\ i - 1 = d * b + r /\ d < n
    <3>1. i - 1 \in Nat /\ i - 1 < n * b
      BY <1>12
    <3> QED
      BY <1>2, <1>10, <3>1, DivModIs
  <2> HIDE DEF d, r
  <2>2. m \in Nat /\ k \in 1..b
    BY <1>2, <1>10, <2>1
  <2>3. m * b + k = n * b - i + 1
    <3>1. m * b = n * b - b - d * b
      BY <1>2, <1>10, <2>1
    <3>2. d * b \in Nat /\ n * b \in Nat
      BY <1>2, <1>10, <2>1
    <3> QED
      BY <1>2, <2>1, <3>1, <3>2
  <2>4. Window[i] = ring.mem[Back(ring, n * b - i + 1)]
    BY <1>6, <1>11
  <2>5. m * b + k <= CurLength(ring)
    BY <1>3, <1>12, <2>3
  <2> HIDE DEF m, k
  <2>6. ring.mem[Back(ring, m * b + k)] = <<(hist.next + Numbers - 1 - m) % Numbers, b + 1 - k>>
    BY <1>7, <2>2, <2>5
  <2>7. hist.next + Numbers - 1 - m = hist.next + Numbers - (n - d) /\ b + 1 - k = r + 1
    BY <1>2, <1>8, <1>10, <2>1 DEF m, k
  <2> QED
    BY <2>3, <2>4, <2>6, <2>7 DEF d, r
<1> DEFINE S == BytesOf(ring.mem)
           s == LastSamples(n)
<1>14. \A i \in 1..(n * b) : Window[i] \in S
  BY <1>6, <1>11, ElementOfSeq
<1>15. s \in Seq(S) /\ Len(s) = n * b /\ \A i \in 1..(n * b) : s[i] = Window[i]
  <2> DEFINE len == n * b
  <2>1. len \in Nat
    BY <1>12
  <2>2. s = [i \in 1..len |-> Window[i]]
    BY <1>9, <1>13
  <2> HIDE DEF len, S, s
  <2>3. \A i \in 1..len : Window[i] \in S
    BY <1>14 DEF len
  <2>4. s \in [1..len -> S] /\ \A i \in 1..len : s[i] = Window[i]
    BY <2>2, <2>3
  <2> QED
    BY <2>1, <2>4 DEF len
<1> HIDE DEF S, s
<1>16. Window \in Seq(S) /\ Len(Window) = n * b
  BY <1>6, <1>11 DEF S
<1>17. Window = s
  BY <1>15, <1>16, SeqEqual
<1> QED
  BY <1>17 DEF s

\* A sample or a frame never stands half in the ring: whatever was recorded,
\* what gives way to a write is whole, in recording and in polling mode.
THEOREM NothingHalf == Spec => []RingWhole
<1>1. Init => TInv /\ Holds /\ ChannelSet
  BY TInvInit, HoldsInit
<1>2. TInv /\ Holds /\ ChannelSet /\ [Next]_vars => (TInv /\ Holds /\ ChannelSet)'
  BY TInvStep, HoldsStep, ChannelSetStep
<1>3. TInv /\ Holds /\ ChannelSet => RingWhole
  BY HoldsWhole
<1> QED
  BY <1>1, <1>2, <1>3, PTL DEF Spec

\* What is sent is at any time the newest samples, whole, in order and none
\* missing, for every memory, channels, counts and rates, as long as the length
\* of the window fits into 16 bits.
THEOREM SendsRecording ==
  ASSUME NoWrap
  PROVE  Spec => []WindowIsRecording
<1>1. Init => TInv /\ Asked /\ Holds /\ ChannelSet
  BY TInvInit, SendingInit, HoldsInit
<1>2. TInv /\ Asked /\ Holds /\ ChannelSet /\ [Next]_vars
        => (TInv /\ Asked /\ Holds /\ ChannelSet)'
  BY TInvStep, AskedKeeps, HoldsStep, ChannelSetStep
<1>3. TInv /\ Asked /\ Holds /\ ChannelSet => WindowIsRecording
  BY HoldsWindow
<1> QED
  BY <1>1, <1>2, <1>3, PTL DEF Spec
=============================================================================
