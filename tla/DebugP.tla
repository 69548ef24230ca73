------------------------------- MODULE DebugP -------------------------------
(***************************************************************************)
(* The serial debug protocol of DebugP.c: the frame parser, one byte a     *)
(* turn, the commands that read and write memory, and the answers.  The    *)
(* commands of the trace recorder are in module Trace.                     *)
(*                                                                         *)
(* A request is a read or a write of one byte of memory; its body is       *)
(* <<command, address>> or <<command, address, value>>.  On the line it    *)
(* is AA 55 length id 0 body check.  The parser does not look at the check *)
(* byte, so its value is any of Checks.  The client sends a request, waits *)
(* for an answer with its id and, if it Resends, sends it again meanwhile. *)
(***************************************************************************)
EXTENDS Integers, Sequences, SequencesExt

CONSTANTS
  Addresses,    \* of the memory the client works on
  Values,       \* the bytes it writes
  Ids,          \* the two ids it gives its requests in turn
  Checks,       \* the values a check byte may have
  Resends,      \* whether it sends a request again that is not answered yet
  Noise,        \* the values a damaged byte may have
  Capacity,     \* the longest body that cmdBuff and the frame have room for
  MaxRequests,  \* bound: requests the client makes
  MaxLine,      \* bound: bytes on the line
  MaxFaults     \* bound: bytes lost or damaged, answers lost

Head1 == 170
Head2 == 85
RamRead == 0
RamWrite == 1

ASSUME DebugPAssumption ==
  /\ Addresses \subseteq 0..255 /\ Values \subseteq 0..255 /\ Checks \subseteq 0..255
  /\ Noise \subseteq 0..255 /\ 0 \in Values
  /\ Ids \in [0..1 -> 0..255] /\ Ids[0] # Ids[1]
  /\ Capacity \in Nat /\ Capacity >= 3 /\ Resends \in BOOLEAN
  /\ MaxRequests \in Nat /\ MaxLine \in Nat /\ MaxFaults \in Nat

VARIABLES
  line,      \* the bytes the parser has not read yet
  scan,      \* Usbc_CmdScan: the state of the parser and the bytes of the body
  rx,        \* DebugP_RxFrame
  got,       \* ret: a frame was completed in this pass of the background loop
  overrun,   \* a length was accepted that cmdBuff has no room for
  mem,       \* the memory
  client,    \* the client: the number, body and check byte of its request
  expected,  \* the memory as the client has been told it is
  faults     \* how many faults there have been, and whether bytes were damaged

vars == <<line, scan, rx, got, overrun, mem, client, expected, faults>>

Bodies == {<<RamRead, a>> : a \in Addresses}
          \cup {<<RamWrite, a, v>> : a \in Addresses, v \in Values}

-----------------------------------------------------------------------------
(***************************************************************************)
(* The parser: DebugP_ReceiveFrame.                                        *)
(***************************************************************************)
Blank == [status |-> "init", len |-> 0, bytes |-> <<>>]

\* The turn of the loop for a byte that does not complete a frame.
ScanTo(next) ==
  /\ scan' = next
  /\ UNCHANGED <<rx, got, overrun>>

Awaiting(status) == line # <<>> /\ ~overrun /\ scan.status = status

\* The first byte after a start is not looked at.
ScanInit ==
  /\ Awaiting("init")
  /\ ScanTo([scan EXCEPT !.status = "head1"])

ScanHead1 ==
  /\ Awaiting("head1")
  /\ ScanTo([scan EXCEPT !.status = IF Head(line) = Head1 THEN "head2" ELSE "head1"])

Head2Kept ==   \* mutant: the index into cmdBuff is not reset
  IF Head(line) = Head2 THEN [scan EXCEPT !.status = "len", !.len = 0]
  ELSE [scan EXCEPT !.status = "head1"]

AfterHead2 ==
  IF Head(line) = Head2 THEN [status |-> "len", len |-> 0, bytes |-> <<>>]
  ELSE [scan EXCEPT !.status = "head1"]

ScanHead2 == Awaiting("head2") /\ ScanTo(AfterHead2)

LengthNotTooLong(n) == n < 200   \* mutant: the lower bound is dropped

LegalLength(n) == n > 2 /\ n < 200

ScanLen ==
  /\ Awaiting("len")
  /\ LET n == Head(line)
     IN  \/ /\ ~LegalLength(n)
            /\ ScanTo([scan EXCEPT !.status = "head1"])
         \/ /\ LegalLength(n) /\ n <= Capacity + 3
            /\ ScanTo([scan EXCEPT !.status = "body", !.len = n])
         \/ /\ LegalLength(n) /\ n > Capacity + 3
            /\ overrun' = TRUE
            /\ UNCHANGED <<scan, rx, got>>

ScanBody ==
  /\ Awaiting("body")
  /\ Len(scan.bytes) + 1 < scan.len
  /\ ScanTo([scan EXCEPT !.bytes = Append(@, Head(line))])

UnpackShort(bytes) ==   \* mutant: the last byte of the body is not copied
  [id   |-> bytes[1] + 256 * bytes[2],
   len  |-> scan.len - 3,
   buff |-> [i \in 1..Capacity |-> IF i < scan.len - 3 THEN bytes[i + 2] ELSE rx.buff[i]]]

\* The frame is copied out; what a longer one left behind it stays.
Unpack(bytes) ==
  [id   |-> bytes[1] + 256 * bytes[2],
   len  |-> scan.len - 3,
   buff |-> [i \in 1..Capacity |-> IF i <= scan.len - 3 THEN bytes[i + 2] ELSE rx.buff[i]]]

FrameComplete ==
  /\ Awaiting("body")
  /\ Len(scan.bytes) + 1 >= scan.len
  /\ rx' = Unpack(Append(scan.bytes, Head(line)))
  /\ scan' = [scan EXCEPT !.status = "head1", !.len = 0]
  /\ got' = TRUE
  /\ UNCHANGED overrun

ScanByte ==
  /\ \/ ScanInit \/ ScanHead1 \/ ScanHead2 \/ ScanLen \/ ScanBody \/ FrameComplete
  /\ line' = Tail(line)
  /\ UNCHANGED <<mem, client, expected, faults>>

-----------------------------------------------------------------------------
(***************************************************************************)
(* The commands: DebugP_HandleFrame and DebugP_SendFrame, once a pass.     *)
(***************************************************************************)
Byte(a) == IF a \in Addresses THEN mem[a] ELSE 0

Execute ==
  LET command == rx.buff[1]
      address == rx.buff[2]
  IN  mem' = IF command = RamWrite /\ address \in Addresses
             THEN [mem EXCEPT ![address] = rx.buff[3]] ELSE mem

\* The request the client believes is answered.
Answered == client.phase = "waiting" /\ rx.id = Ids[client.number % 2]

\* What the client takes for the answer, the value read if it asked for one.
Receive ==
  IF Answered
  THEN /\ client' = [client EXCEPT !.phase = "idle", !.value = Byte(rx.buff[2])]
       /\ expected' = IF client.body[1] = RamWrite
                      THEN [expected EXCEPT ![client.body[2]] = client.body[3]]
                      ELSE expected
  ELSE UNCHANGED <<client, expected>>

Known == rx.buff[1] \in {RamRead, RamWrite}

\* The pass ends, no further byte having arrived: the last frame completed in
\* it is handled.  An answer may get lost on the way.
HandleFrame ==
  /\ got
  /\ got' = FALSE
  /\ Execute
  /\ \/ /\ Known
        /\ Receive
        /\ UNCHANGED faults
     \/ /\ Known
        /\ faults.count < MaxFaults
        /\ faults' = [faults EXCEPT !.count = @ + 1]
        /\ UNCHANGED <<client, expected>>
     \/ /\ ~Known
        /\ UNCHANGED <<client, expected, faults>>
  /\ UNCHANGED <<line, scan, rx, overrun>>

-----------------------------------------------------------------------------
(***************************************************************************)
(* The client, and the line.                                               *)
(***************************************************************************)
FrameOf(number, body, check) ==
  <<Head1, Head2, Len(body) + 3, Ids[number % 2], 0>> \o body \o <<check>>

Request ==
  /\ client.phase = "idle" /\ client.number < MaxRequests
  /\ \E body \in Bodies, check \in Checks :
       LET frame == FrameOf(client.number + 1, body, check)
       IN  /\ Len(line) + Len(frame) <= MaxLine
           /\ line' = line \o frame
           /\ client' = [client EXCEPT !.phase = "waiting", !.number = @ + 1,
                                       !.body = body, !.before = client.body,
                                       !.check = check]
  /\ UNCHANGED <<scan, rx, got, overrun, mem, expected, faults>>

Resend ==
  /\ Resends
  /\ client.phase = "waiting"
  /\ LET frame == FrameOf(client.number, client.body, client.check)
     IN  /\ Len(line) + Len(frame) <= MaxLine
         /\ line' = line \o frame
  /\ UNCHANGED <<scan, rx, got, overrun, mem, client, expected, faults>>

\* A byte on the line is lost, or arrives as another.
Damage ==
  /\ faults.count < MaxFaults
  /\ \E k \in 1..Len(line) :
       line' \in {RemoveAt(line, k)} \cup {ReplaceAt(line, k, b) : b \in Noise}
  /\ faults' = [count |-> faults.count + 1, damaged |-> TRUE]
  /\ UNCHANGED <<scan, rx, got, overrun, mem, client, expected>>

-----------------------------------------------------------------------------
Init ==
  /\ line = <<>>
  /\ scan = Blank
  /\ rx = [id |-> 0, len |-> 0, buff |-> [i \in 1..Capacity |-> 0]]
  /\ got = FALSE
  /\ overrun = FALSE
  /\ mem = [a \in Addresses |-> 0]
  /\ client = [phase |-> "idle", number |-> 0, body |-> <<>>, before |-> <<>>,
               check |-> 0, value |-> 0]
  /\ expected = mem
  /\ faults = [count |-> 0, damaged |-> FALSE]

Next == ScanByte \/ HandleFrame \/ Request \/ Resend \/ Damage

\* Bytes that were sent arrive and the background loop goes on calling
\* DebugP_Main; a client that Resends does not give up.
Fairness == WF_vars(ScanByte) /\ WF_vars(HandleFrame) /\ WF_vars(Resend)

Spec == Init /\ [][Next]_vars /\ Fairness

-----------------------------------------------------------------------------
(***************************************************************************)
(* Properties.                                                             *)
(***************************************************************************)
\* The variables have their types.
TypeOK ==
  /\ line \in Seq(0..255) /\ Len(line) <= MaxLine
  /\ scan.status \in {"init", "head1", "head2", "len", "body"}
  /\ scan.len \in 0..(Capacity + 3) /\ scan.bytes \in Seq(0..255)
  /\ rx.len \in 0..Capacity /\ rx.buff \in [1..Capacity -> 0..255]
  /\ got \in BOOLEAN /\ overrun \in BOOLEAN
  /\ mem \in [Addresses -> 0..255] /\ expected \in [Addresses -> Values]
  /\ client.phase \in {"idle", "waiting"} /\ client.number \in 0..MaxRequests
  /\ faults.count \in 0..MaxFaults

Holds(body, number) ==
  /\ body # <<>> /\ rx.id = Ids[number % 2] /\ rx.len = Len(body)
  /\ \A i \in 1..Len(body) : rx.buff[i] = body[i]

\* As long as the line is good, a frame the parser completes is the client's
\* request or, late, the one before it: never one put together from the end of
\* one and the beginning of another, although frames are met in the middle
\* (after a start) and sent again.
NoPhantom ==
  got /\ ~faults.damaged =>
    \/ Holds(client.body, client.number)
    \/ Holds(client.before, client.number - 1)

\* As long as no byte is damaged, what the client was told is true: when it has
\* its answer, the memory holds what it last wrote, and it has read just that,
\* whatever was sent twice, answered late, overwritten in one pass, or lost.
AnswersTrue ==
  ~faults.damaged /\ client.phase = "idle" =>
    /\ mem = expected
    /\ client.number > 0 /\ client.body[1] = RamRead =>
         client.value = expected[client.body[2]]

\* A client that sends its request again is answered in the end: the parser
\* finds the beginning of a frame again after any damage, unless a damaged
\* length overruns its buffer.
RequestAnswered == client.phase = "waiting" ~> client.phase = "idle" \/ overrun
=============================================================================
