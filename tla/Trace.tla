------------------------------- MODULE Trace --------------------------------
(***************************************************************************)
(* The trace recorder: trace.c samples variables into a ring in a periodic *)
(* call of TRACE_Run and sends what it recorded; DebugP.c gives it the     *)
(* commands of a client on the serial port.  A byte of a sample is known   *)
(* by the number of the sample and its place in it.  Timeouts are left     *)
(* out: nothing calls TRACE_SetTimeout.                                    *)
(***************************************************************************)
EXTENDS Ring, SequencesExt

CONSTANTS
  BuffLength,    \* TRACE_BUFF_LENGTH
  MaxChannel,    \* TRACE_Max_Channel
  SendUnit,      \* DebugP_TRACE_SEND_UNIT
  WaitRuns,      \* calls of TRACE_Run between two frames: the 6 of TRACE_Run
  Lengths,       \* lengths of the variables a client may trace
  PreCounts,     \* sample counts it may ask for before the trigger,
  PostCounts,    \* and after it
  Rates,         \* sample rates
  ClearsEarly,   \* whether it clears the recorder with a second part unsent
  Numbers        \* bound: samples are numbered modulo this

ASSUME TraceAssumption ==
  /\ BuffLength \in Nat /\ MaxChannel \in Nat \ {0} /\ SendUnit \in Nat \ {0}
  /\ WaitRuns \in Nat /\ ClearsEarly \in BOOLEAN /\ Numbers \in Nat
  /\ Lengths \subseteq 1..BuffLength /\ PreCounts \subseteq Nat /\ PostCounts \subseteq Nat
  /\ Rates \subseteq Nat
  /\ \A l \in Lengths : MaxChannel * l <= BuffLength
  /\ \A l \in Lengths : Numbers > BuffLength \div l
  /\ \A k \in PostCounts : Numbers > k

VARIABLES
  ring,     \* Trace_FIFO and Trace_buff
  chan,     \* Trace_Channel: how many are active, and the bytes of a sample
  pollLen,  \* Trace_PollingLength
  conf,     \* the rest of the configuration
  rec,      \* Trace_Status and the counters of the recording
  tx,       \* what is left to send, and the pause between frames
  client,   \* the client: what it is at, and the bytes it has received
  hist      \* the samples taken since the start: how many, the number of the
            \* next, how many since the triggering one

vars == <<ring, chan, pollLen, conf, rec, tx, client, hist>>

Ops == {"level", "immediate"}   \* a comparison, or TRACE_Immidiately

-----------------------------------------------------------------------------
(***************************************************************************)
(* Samples and the window of them that is sent.                            *)
(***************************************************************************)
\* The bytes of sample n, all channels; a polling frame has a head before them.
Sample(n) == [i \in 1..chan.bytes |-> <<n, i>>]
Frame(n) == <<<<n, 0>>>> \o Sample(n)

InitialUnrounded(unit) ==   \* mutant: the length is no multiple of the unit
  Initial([c \in 0..BuffLength |-> <<>>], BuffLength + 1)

\* TRACE_Initial.  Nothing reads what is left in the memory, so it is blank.
TraceInitial(unit) ==
  Initial([c \in 0..BuffLength |-> <<>>], (BuffLength \div unit) * unit + 1)

TotalLen == (pollLen * (conf.pre + conf.post)) % 65536

DataSectorUncut ==   \* mutant: the second run is never too long
  LET d == DataSectors(ring)
      all == d.len1 + d.len2
  IN  IF all > TotalLen /\ d.len2 < TotalLen
      THEN [d EXCEPT !.at1 = @ + all - TotalLen, !.len1 = TotalLen - d.len2]
      ELSE d

\* TRACE_GetDataSector: the newest TotalLen bytes.
DataSector ==
  LET d == DataSectors(ring)
      all == d.len1 + d.len2
  IN  IF d.len2 >= TotalLen
      THEN [at1 |-> d.at2 + d.len2 - TotalLen, len1 |-> TotalLen, at2 |-> 0, len2 |-> 0]
      ELSE IF all > TotalLen
      THEN [d EXCEPT !.at1 = @ + all - TotalLen, !.len1 = TotalLen - d.len2]
      ELSE d

Window == BothRuns(ring.mem, DataSector)

-----------------------------------------------------------------------------
(***************************************************************************)
(* TRACE_Run.                                                              *)
(***************************************************************************)
Next1(n) == (n + 1) % Numbers

\* A sample or a frame is written, one FIFOA_ForceWrite per channel.
Record(bytes, triggering) ==
  /\ ring' = ForceWrite(ring, bytes)
  /\ hist' = [taken |-> IF hist.taken < Numbers THEN hist.taken + 1 ELSE hist.taken,
              next  |-> Next1(hist.next),
              since |-> IF triggering THEN 0
                        ELSE IF hist.since < Numbers THEN hist.since + 1
                        ELSE hist.since]

\* Trace_CalcTrigerI16Unit and Trace_CalcTrigerF32Unit: whether one trigger
\* hits, and the pre-samples left after asking it.
Hits(op, value, pre) == (op = "level" /\ value) \/ (op = "immediate" /\ pre = 0)
PreAfterStuck(op, pre) == pre   \* mutant: pre-samples are not counted

PreAfter(op, pre) == IF op = "immediate" /\ pre > 0 THEN pre - 1 ELSE pre

\* Trace_CalcTrigger, and the sample that goes with it.  "values" says which
\* comparison holds.
Watch(values) ==
  LET first  == rec.trig = 0
      hit0   == first /\ Hits(conf.ops[0], values[0], rec.pre)
      pre0   == IF first THEN PreAfter(conf.ops[0], rec.pre) ELSE rec.pre
      second == hit0 \/ rec.trig = 1
      hit1   == second /\ Hits(conf.ops[1], values[1], pre0)
  IN  /\ rec.status = "running" /\ ~rec.polling
      /\ rec' = [rec EXCEPT
                   !.status = IF hit1 THEN "trigged" ELSE "running",
                   !.trig = IF hit1 THEN 2 ELSE IF second THEN 1 ELSE @,
                   !.pre = IF second THEN PreAfter(conf.ops[1], pre0) ELSE pre0,
                   !.rateLeft = conf.rate]
      /\ Record(Sample(hist.next), hit1)

\* A frame in polling mode.
Poll ==
  /\ rec.status = "running" /\ rec.polling
  /\ rec' = [rec EXCEPT !.rateLeft = conf.rate]
  /\ Record(Frame(hist.next), FALSE)

\* A sample after the trigger.
Follow ==
  /\ rec.status = "trigged" /\ rec.post > 0
  /\ rec' = [rec EXCEPT !.post = @ - 1, !.rateLeft = conf.rate]
  /\ Record(Sample(hist.next), FALSE)

Finish ==
  /\ rec.status = "trigged" /\ rec.post = 0
  /\ rec' = [rec EXCEPT !.status = "done", !.rateLeft = conf.rate]
  /\ UNCHANGED <<ring, hist>>

Rest ==
  /\ rec.status \in {"idle", "done"}
  /\ rec' = [rec EXCEPT !.rateLeft = conf.rate]
  /\ UNCHANGED <<ring, hist>>

\* Trace_DataCollect in one of Trace_SampleRate calls.
Due == rec.rateLeft <= 1

Skip ==
  /\ ~Due
  /\ rec' = [rec EXCEPT !.rateLeft = @ - 1]
  /\ UNCHANGED <<ring, hist>>

Collect ==
  /\ Due
  /\ \/ \E values \in [{0, 1} -> BOOLEAN] : Watch(values)
     \/ Poll
     \/ Follow
     \/ Finish
     \/ Rest

\* DebugP_SendTraceTriggerBuff: the next bytes from cell "at" on.  The client
\* takes them if it has asked for data.
SendBytes(at, n) ==
  client' = IF client.phase \in {"sector1", "sector2"}
            THEN [client EXCEPT !.got = @ \o Run(ring.mem, at, n)]
            ELSE client

\* How much one frame carries.
FrameSize(p) == IF p.left <= SendUnit THEN p.left ELSE SendUnit

AfterUnsigned(p) ==   \* mutant: the last frame takes a whole unit off
  [at |-> p.at + SendUnit, left |-> (p.left - SendUnit) % 65536]

AfterStuck(p) ==   \* mutant: the place to send from does not move on
  IF p.left <= SendUnit THEN [at |-> 0, left |-> 0]
  ELSE [at |-> p.at, left |-> p.left - SendUnit]

After(p) ==
  IF p.left <= SendUnit THEN [at |-> 0, left |-> 0]
  ELSE [at |-> p.at + SendUnit, left |-> p.left - SendUnit]

SendP1Whole ==   \* mutant: a rest shorter than a frame is not sent
  /\ tx.p1.left >= SendUnit
  /\ SendBytes(tx.p1.at, FrameSize(tx.p1))
  /\ tx' = [tx EXCEPT !.p1 = After(@), !.waiting = TRUE]

SendP1 ==
  /\ tx.p1.left > 0
  /\ SendBytes(tx.p1.at, FrameSize(tx.p1))
  /\ tx' = [tx EXCEPT !.p1 = After(@), !.waiting = TRUE]

\* The code sends the second sector only when one byte of it is left.
SendP2 ==
  /\ tx.p1.left = 0 /\ tx.p2.left = 1
  /\ SendBytes(tx.p2.at, 1)
  /\ tx' = [tx EXCEPT !.p2 = After(@), !.waiting = TRUE]

\* TRACE_SendTraceData; nothing is sent in polling mode.
NothingToSend == rec.polling \/ (tx.p1.left = 0 /\ tx.p2.left # 1)

Send ==
  \/ ~rec.polling /\ (SendP1 \/ SendP2)
  \/ NothingToSend /\ UNCHANGED <<tx, client>>

Pause ==
  /\ tx' = IF tx.pause + 1 > WaitRuns
           THEN [tx EXCEPT !.waiting = FALSE, !.pause = 0]
           ELSE [tx EXCEPT !.pause = @ + 1]
  /\ UNCHANGED client

TraceRun ==
  /\ Skip \/ Collect
  /\ (tx.waiting /\ Pause) \/ (~tx.waiting /\ Send)
  /\ UNCHANGED <<chan, pollLen, conf>>

-----------------------------------------------------------------------------
(***************************************************************************)
(* The commands.  The client clears the recorder, sets it up, starts it,   *)
(* asks for its status until it is done, and fetches the first part of     *)
(* the recording and then, when that has come, the second; it may clear at *)
(* any time.                                                               *)
(***************************************************************************)
\* Before TRACE_Initial, or when nothing reads the ring until its next call.
NoRing == [mem |-> [c \in 0..BuffLength |-> <<>>], len |-> 0, rd |-> 0, wr |-> 0]
Fresh == [taken |-> 0, next |-> 0, since |-> 0]

\* TRACE_Clearall; what is being sent is not cleared.
Clear ==
  /\ ClearsEarly \/ tx.p2.left # 1
  /\ ring' = NoRing /\ hist' = Fresh
  /\ chan' = [num |-> 0, bytes |-> 0]
  /\ pollLen' = 0
  /\ conf' = [conf EXCEPT !.setIdx = 0]
  /\ rec' = [rec EXCEPT !.status = "idle", !.polling = FALSE]
  /\ tx' = [tx EXCEPT !.sector = 0]
  /\ client' = [phase |-> "setup", got |-> <<>>]

SetChannel(l) ==
  /\ client.phase = "setup"
  /\ chan.num < MaxChannel
  /\ chan' = [num |-> chan.num + 1, bytes |-> chan.bytes + l]
  /\ pollLen' = pollLen + l
  /\ UNCHANGED <<ring, conf, rec, tx, client, hist>>

\* TRACE_SetTraceCount, TRACE_SetSampleRate and DebugP_TriggerOp.
SetSampleConfig(pre, post, rate, op) ==
  /\ client.phase = "setup" /\ pre + post > 0
  /\ conf' = [conf EXCEPT !.pre = pre, !.post = post, !.rate = rate, !.op = op]
  /\ rec' = [rec EXCEPT !.pre = pre, !.post = post, !.rateLeft = 0]
  /\ UNCHANGED <<ring, chan, pollLen, tx, client, hist>>

\* TRACE_SetTrigger: the two triggers in turn.
SetTrigger ==
  /\ client.phase = "setup"
  /\ conf' = [conf EXCEPT !.ops[conf.setIdx] = conf.op, !.setIdx = 1 - @]
  /\ UNCHANGED <<ring, chan, pollLen, rec, tx, client, hist>>

\* The client starts with a channel, a sample count and both triggers set, or
\* the triggers of last time.
ReadyToStart ==
  /\ client.phase = "setup"
  /\ chan.num > 0 /\ conf.pre + conf.post > 0 /\ conf.setIdx = 0

StartKeepsPost ==   \* mutant: the samples after the trigger are not reloaded
  /\ ReadyToStart
  /\ ring' = TraceInitial(pollLen)
  /\ rec' = [rec EXCEPT !.status = "running", !.trig = 0, !.pre = conf.pre]
  /\ tx' = [tx EXCEPT !.sector = 0]
  /\ client' = [client EXCEPT !.phase = "recording"]
  /\ hist' = Fresh
  /\ UNCHANGED <<chan, pollLen, conf>>

Start ==
  /\ ReadyToStart
  /\ ring' = TraceInitial(pollLen)
  /\ rec' = [rec EXCEPT !.status = "running", !.trig = 0,
                        !.pre = conf.pre, !.post = conf.post]
  /\ tx' = [tx EXCEPT !.sector = 0]
  /\ client' = [client EXCEPT !.phase = "recording"]
  /\ hist' = Fresh
  /\ UNCHANGED <<chan, pollLen, conf>>

\* TRACE_AutoPolling.
StartPolling ==
  /\ ReadyToStart
  /\ ring' = TraceInitial(pollLen + 1)
  /\ rec' = [rec EXCEPT !.status = "running", !.polling = TRUE]
  /\ client' = [client EXCEPT !.phase = "polling"]
  /\ hist' = Fresh
  /\ UNCHANGED <<chan, pollLen, conf, tx>>

\* TRACE_GetAllBuff: one part of the window, then the other, is put up to be
\* sent; the status the client got names their lengths.
GetAllBuff ==
  IF tx.sector = 0
  THEN tx' = [tx EXCEPT !.sector = 1,
                        !.p1 = IF DataSector.len1 > 0
                               THEN [at |-> DataSector.at1, left |-> DataSector.len1]
                               ELSE @]
  ELSE tx' = [tx EXCEPT !.sector = 0,
                        !.p2 = IF DataSector.len2 > 0
                               THEN [at |-> DataSector.at2, left |-> DataSector.len2]
                               ELSE @]

Fetch ==
  /\ client.phase = "recording" /\ rec.status = "done"
  /\ GetAllBuff
  /\ client' = [client EXCEPT !.phase = "sector1"]
  /\ UNCHANGED <<ring, chan, pollLen, conf, rec, hist>>

FetchRest ==
  /\ client.phase = "sector1" /\ Len(client.got) = DataSector.len1
  /\ GetAllBuff
  /\ client' = [client EXCEPT !.phase = "sector2"]
  /\ UNCHANGED <<ring, chan, pollLen, conf, rec, hist>>

Init ==
  /\ ring = NoRing
  /\ chan = [num |-> 0, bytes |-> 0]
  /\ pollLen = 4
  /\ conf = [pre |-> 0, post |-> 0, rate |-> 0, op |-> "level",
             ops |-> [t \in {0, 1} |-> "level"], setIdx |-> 0]
  /\ rec = [status |-> "idle", polling |-> FALSE, trig |-> 0,
            pre |-> 0, post |-> 0, rateLeft |-> 0]
  /\ tx = [sector |-> 0, p1 |-> [at |-> 0, left |-> 0], p2 |-> [at |-> 0, left |-> 0],
           waiting |-> FALSE, pause |-> 0]
  /\ client = [phase |-> "new", got |-> <<>>]
  /\ hist = Fresh

Command ==
  \/ Clear
  \/ \E l \in Lengths : SetChannel(l)
  \/ \E pre \in PreCounts, post \in PostCounts, rate \in Rates, op \in Ops :
       SetSampleConfig(pre, post, rate, op)
  \/ SetTrigger
  \/ Start
  \/ StartPolling
  \/ Fetch
  \/ FetchRest

Next == TraceRun \/ Command

\* TRACE_Run is called periodically.
Spec == Init /\ [][Next]_vars /\ WF_vars(TraceRun)

-----------------------------------------------------------------------------
(***************************************************************************)
(* What the recorder promises.                                             *)
(***************************************************************************)
\* The counters stay in their ranges and what is sent inside Trace_buff.
TypeOK ==
  /\ ring.len <= BuffLength + 1 /\ DOMAIN ring.mem = 0..BuffLength
  /\ chan.num \in 0..MaxChannel /\ chan.bytes \in 0..BuffLength
  /\ pollLen \in {4, chan.bytes}
  /\ conf.setIdx \in {0, 1} /\ conf.ops \in [{0, 1} -> Ops] /\ conf.op \in Ops
  /\ rec.status \in {"idle", "running", "trigged", "done"}
  /\ rec.trig \in 0..2 /\ rec.pre \in Nat /\ rec.post \in Nat
  /\ tx.sector \in {0, 1} /\ tx.waiting \in BOOLEAN /\ tx.pause \in 0..WaitRuns
  /\ \A p \in {tx.p1, tx.p2} : p.at \in Nat /\ p.left \in Nat /\ p.at + p.left <= BuffLength + 1
  /\ client.phase \in {"new", "setup", "recording", "polling", "sector1", "sector2"}

Recorded == client.phase \in {"recording", "sector1", "sector2"}

\* The ring never ends in the middle of a sample or a frame: its capacity is
\* a whole number of them, so what gives way is the whole oldest one.
Unit == IF client.phase = "polling" THEN chan.bytes + 1 ELSE chan.bytes
HeldBytes == BothRuns(ring.mem, DataSectors(ring))
RingWhole ==
  (Recorded \/ client.phase = "polling") =>
    /\ CurLength(ring) % Unit = 0
    /\ HeldBytes # <<>> =>
         HeldBytes[1][2] = IF client.phase = "polling" THEN 0 ELSE 1

\* The last n samples, one after the other.
LastSamples(n) ==
  [i \in 1..(n * chan.bytes) |->
     LET back == n - (i - 1) \div chan.bytes
     IN  <<(hist.next + Numbers - back) % Numbers, ((i - 1) % chan.bytes) + 1>>]

LeastOf(a, b) == IF a <= b THEN a ELSE b

\* What is sent is at any time the newest samples, whole, in order, none
\* missing: as many as were asked for, or all that were taken, or all that the
\* memory holds.
WindowIsRecording ==
  Recorded =>
    Window = LastSamples(LeastOf(conf.pre + conf.post,
                                 LeastOf(hist.taken, BuffLength \div chan.bytes)))

\* A finished recording ends the asked number of samples after the sample
\* that met the trigger.
TriggerPlace == Recorded /\ rec.status = "done" => hist.since = conf.post

\* What the client receives is the recording from its beginning, in order,
\* and nothing from an earlier recording.
ReceivedInOrder ==
  client.phase \in {"sector1", "sector2"} => IsPrefix(client.got, Window)

\* A recording that waits for nothing but its pre-samples ends.
RecordingEnds ==
  Recorded /\ rec.status = "running" /\ (\A t \in {0, 1} : conf.ops[t] = "immediate")
    ~> rec.status # "running"

\* The first part of the recording arrives, and the client does not wait for
\* ever, unless it clears the recorder.
FirstPartArrives ==
  client.phase = "sector1"
    ~> client.phase # "sector1" \/ Len(client.got) = DataSector.len1
=============================================================================
