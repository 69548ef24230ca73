---------------------------- MODULE StoredProofs ----------------------------
(***************************************************************************)
(* What is stored stays.  First, what the master was told stays true: the  *)
(* firmware area holds exactly the image it sent, a file it was told is    *)
(* stored stays listed with the CRC of what it sent, and, if the file lies *)
(* in one run of sectors, reads back as what it sent, whatever the file    *)
(* system, failures and aborts do in between.  Then, of files that are     *)
(* only created, and deleted at the end of the directory, through aborts,  *)
(* failing writes, restarts and power failures anywhere: every listed file *)
(* keeps the sectors it is read from, reads back with the CRC the          *)
(* directory has for it, and is listed again after a start.  Last, the     *)
(* types of the variables, through deletions of any listed file.           *)
(***************************************************************************)
EXTENDS FileManProofs, SequenceTheorems, FiniteSetTheorems

-----------------------------------------------------------------------------
(***************************************************************************)
(* The image in the firmware area.                                         *)
(***************************************************************************)
\* A firmware transfer runs in boot mode, a format transfer does not.  Before
\* its first good packet an image has written nothing; from then on no image is
\* promised, no packet can be swallowed any more, and the area holds what was
\* sent.
Updating ==
  /\ client.phase = "open" /\ client.kind = "format" => ~bBootMode
  /\ client.phase = "open" /\ client.kind = "firmware" =>
       /\ bBootMode
       /\ IF wr.firstIn THEN wr.offset = 0 /\ client.sent = <<>>
          ELSE /\ ~formatFlag /\ image = None
               /\ area = client.sent /\ wr.offset = Len(client.sent)

FInv == FirmwareWhole /\ Updating

-----------------------------------------------------------------------------
LEMMA NotUpdating ==
  ASSUME FirmwareWhole, area' = area, image' = image,
         client'.phase = "open" =>
           /\ client'.kind # "firmware"
           /\ client'.kind = "format" => ~bBootMode'
  PROVE  FInv'
BY DEF FInv, FirmwareWhole, Updating

LEMMA IdleIs == Idle.phase = "idle"
BY DEF Idle

LEMMA FileStepKeepsImage ==
  ASSUME NInv, FInv, NEW size \in Nat, NEW more \in BOOLEAN,
         \/ RefuseName \/ OpenFormat \/ SwallowPacket(size, more)
         \/ DataPacket(size, more) \/ FailedDataWrite(size, more)
         \/ DeletePacket \/ FailedDelete \/ DeleteFaults \/ SwallowEmptyPacket
         \/ Abort \/ Restart \/ PowerFailsInPacket(size, more) \/ PowerFailsInDelete
  PROVE  FInv'
<1>1. UNCHANGED <<bBootMode, area, image>>
  BY DEF RefuseName, OpenFormat, SwallowPacket, DataPacket, FailedDataWrite,
         DeletePacket, FailedDelete, DeleteFaults, SwallowEmptyPacket, Abort, Restart,
         PowerFailsInPacket, PowerFailsInDelete, fwVars
<1>2. FirmwareWhole /\ Updating
  BY DEF FInv
<1>3. CASE client' = Idle
  BY <1>1, <1>2, <1>3, IdleIs, NotUpdating
<1>4. CASE OpenFormat
  <2>1. client'.kind = "format" /\ ~bBootMode
    BY <1>4 DEF OpenFormat
  <2> QED
    BY <1>1, <1>2, <2>1, NotUpdating
<1>5. CASE SwallowPacket(size, more)
  <2>1. /\ formatFlag /\ wr' = wr /\ transfers' = transfers
        /\ IF bBootMode /\ more THEN client' = client ELSE Accepted(size, more)
    BY <1>5 DEF SwallowPacket
  <2>2. CASE bBootMode /\ more
    BY <1>1, <1>2, <2>1, <2>2 DEF FInv, FirmwareWhole, Updating
  <2>3. CASE ~bBootMode /\ more
    <3>1. client'.phase = client.phase /\ client'.kind = client.kind
      BY <2>1, <2>3, AcceptedShape DEF NInv
    <3> QED
      BY <1>1, <1>2, <2>3, <3>1, NotUpdating DEF Updating
  <2>4. CASE ~more
    BY <1>3, <2>1, <2>4 DEF Accepted
  <2> QED
    BY <2>2, <2>3, <2>4
<1>6. CASE DataPacket(size, more)
  <2>1. client.kind = "write"
    BY <1>6, WritingFile DEF DataPacket
  <2>2. client' = Idle \/ (Accepted(size, more) /\ transfers' = transfers)
    BY <1>6 DEF DataPacket, Rejected
  <2>3. client' = Idle \/ client'.kind = "write"
    BY <2>1, <2>2, AcceptedShape DEF NInv
  <2>4. CASE client'.kind = "write"
    BY <1>1, <1>2, <2>4, NotUpdating
  <2> QED
    BY <1>3, <2>3, <2>4
<1>7. CASE DeleteFaults
  BY <1>1, <1>2, <1>7 DEF DeleteFaults, clientVars, FInv, FirmwareWhole, Updating
<1>8. CASE \/ FailedDataWrite(size, more)
           \/ DeletePacket \/ FailedDelete \/ SwallowEmptyPacket \/ Abort
  BY <1>3, <1>8 DEF FailedDataWrite, DeletePacket, FailedDelete,
                    SwallowEmptyPacket, Abort, Rejected
<1>9. CASE Restart \/ PowerFailsInPacket(size, more) \/ PowerFailsInDelete
  BY <1>3, <1>9 DEF Restart, PowerFailsInPacket, PowerFailsInDelete, Boot
<1>10. CASE RefuseName
  <2>1. client' = client /\ client.phase = "idle"
    BY <1>10 DEF RefuseName, clientVars, Ready
  <2> QED
    BY <1>1, <1>2, <2>1, NotUpdating
<1> QED
  BY <1>4, <1>5, <1>6, <1>7, <1>8, <1>9, <1>10

LEMMA OpenFileKeepsImage ==
  ASSUME FInv, NEW name, NEW kind \in {"write", "delete"}, OpenFile(name, kind)
  PROVE  FInv'
<1>1. /\ area' = area /\ image' = image
      /\ \/ client' = Idle
         \/ client' = [phase |-> "open", kind |-> kind, name |-> name, sent |-> <<>>]
  BY DEF OpenFile, fwVars
<1>2. client'.phase = "open" => client'.kind \in {"write", "delete"}
  BY <1>1, IdleIs
<1> QED
  BY <1>1, <1>2, NotUpdating DEF FInv

LEMMA Joined ==
  ASSUME NEW a \in Stream, NEW b \in Stream
  PROVE  a \o b \in Stream /\ Len(a \o b) = Len(a) + Len(b) /\ Len(a) \in Nat
BY DEF Stream

\* A packet in the update area: either no image is promised any more, or it is
\* the one just completed.
LEMMA ProgramKeepsImage ==
  ASSUME NInv, FInv, NEW size \in Nat, NEW more \in BOOLEAN, ProgramFirmware(size, more)
  PROVE  FInv'
<1> DEFINE sent == client.sent \o Packet(size)
<1>1. /\ client.phase = "open" /\ client.kind \in {"format", "firmware"} /\ ~formatFlag
      /\ bBootMode' = bBootMode /\ wr' = [wr EXCEPT !.offset = wr.offset + size, !.firstIn = FALSE]
  BY UpdateKind DEF ProgramFirmware, UpdatePacket
<1>2. wr \in WriteState /\ client.sent \in Stream
  BY DEF NInv, WrShape, ClientShape
<1>3. Packet(size) \in Stream /\ Len(Packet(size)) = size
  BY PacketStream DEF NInv
<1>4. \/ /\ wr.offset + size < FirmwareLimit /\ area' = AreaBefore \o Packet(size)
         /\ Accepted(size, more) /\ transfers' = transfers /\ formatFlag' = formatFlag
         /\ image' = IF bBootMode /\ ~more THEN sent ELSE None
      \/ client' = Idle /\ image' = None
  BY DEF ProgramFirmware, SessionEnds
<1>5. CASE client' = Idle /\ image' = None
  BY <1>5, IdleIs DEF FInv, FirmwareWhole, Updating
<1>6. CASE client.kind = "format"
  <2>1. ~bBootMode /\ image' = None
    BY <1>1, <1>4, <1>6 DEF FInv, Updating
  <2>2. client' = Idle \/ client'.kind = "format"
    BY <1>4, <1>6, AcceptedShape DEF NInv
  <2> QED
    BY <1>1, <2>1, <2>2, IdleIs DEF FInv, FirmwareWhole, Updating
<1>7. CASE /\ client.kind = "firmware"
           /\ wr.offset + size < FirmwareLimit /\ area' = AreaBefore \o Packet(size)
           /\ Accepted(size, more) /\ transfers' = transfers /\ formatFlag' = formatFlag
           /\ image' = IF bBootMode /\ ~more THEN sent ELSE None
  <2>1. bBootMode /\ AreaBefore = client.sent /\ wr.offset = Len(client.sent)
    <3>1. CASE wr.firstIn
      <4>1. client.sent = <<>> /\ wr.offset = 0 /\ bBootMode
        BY <1>1, <1>7, <3>1 DEF FInv, Updating
      <4> QED
        BY <3>1, <4>1 DEF AreaBefore
    <3>2. CASE ~wr.firstIn
      BY <1>1, <1>7, <3>2 DEF FInv, Updating, AreaBefore
    <3> QED
      BY <3>1, <3>2
  <2>2. Len(sent) = Len(client.sent) + size /\ sent \in Stream
    BY <1>2, <1>3, Joined
  <2>3. area' = sent /\ wr'.offset = Len(sent) /\ ~wr'.firstIn /\ Len(sent) < FirmwareLimit
    BY <1>1, <1>2, <1>7, <2>1, <2>2 DEF WriteState
  <2>4. CASE more
    <3>1. client' = [client EXCEPT !.sent = client.sent \o Packet(size)] /\ image' = None
      BY <1>7, <2>4 DEF Accepted
    <3>2. client'.sent = sent /\ client'.kind = "firmware"
      BY <1>7, <3>1 DEF NInv, ClientShape
    <3> HIDE DEF sent
    <3> QED
      BY <1>1, <1>7, <2>1, <2>3, <3>1, <3>2 DEF FInv, FirmwareWhole, Updating
  <2>5. CASE ~more
    <3>1. client' = Idle /\ image' = sent
      BY <1>7, <2>1, <2>5 DEF Accepted
    <3> HIDE DEF sent
    <3> QED
      BY <2>3, <3>1, IdleIs DEF FInv, FirmwareWhole, Updating
  <2> QED
    BY <2>4, <2>5
<1> QED
  BY <1>1, <1>4, <1>5, <1>6, <1>7

LEMMA FirmwareStepKeepsImage ==
  ASSUME NInv, FInv, NEW size \in Nat, NEW more \in BOOLEAN,
         \/ OpenFirmware \/ HeaderRefused(size, more) \/ PowerFailsInFirmware(size, more)
         \/ AbortFirmware \/ SwitchMode
  PROVE  FInv'
<1>1. CASE OpenFirmware
  <2>1. /\ UNCHANGED <<bBootMode, area, image>> /\ bBootMode /\ client.phase = "idle"
        /\ wr' = Fresh(NotFound)
        /\ (client'.kind = "firmware" /\ client'.sent = <<>>) \/ client' = client
    BY <1>1 DEF OpenFirmware, fwVars, Ready
  <2>2. wr'.firstIn /\ wr'.offset = 0
    BY <2>1, FreshShape DEF NInv
  <2> QED
    BY <2>1, <2>2 DEF FInv, FirmwareWhole, Updating
<1>2. CASE HeaderRefused(size, more) \/ AbortFirmware
  <2>1. client' = Idle /\ area' = area /\ image' = image
    BY <1>2 DEF HeaderRefused, HeaderBad, AbortFirmware, SessionEnds, fwVars
  <2> QED
    BY <2>1, IdleIs, NotUpdating DEF FInv
<1>3. CASE PowerFailsInFirmware(size, more)
  <2>1. client' = Idle /\ image' = None
    BY <1>3 DEF PowerFailsInFirmware, Boot
  <2> QED
    BY <2>1, IdleIs DEF FInv, FirmwareWhole, Updating
<1>4. CASE SwitchMode
  BY <1>4, NotUpdating DEF SwitchMode, clientVars, FInv
<1> QED
  BY <1>1, <1>2, <1>3, <1>4

-----------------------------------------------------------------------------
LEMMA FInvInit == Init => FInv
BY IdleIs DEF Init, FInv, FirmwareWhole, Updating

LEMMA FInvStep ==
  ASSUME NInv, FInv, FwNext
  PROVE  FInv'
<1>0. PICK anySize \in Nat, any \in BOOLEAN : any
  OBVIOUS
<1>1. ASSUME NEW n \in Names, NEW kind \in {"write", "delete"}, OpenFile(n, kind) PROVE FInv'
  BY <1>1, OpenFileKeepsImage
<1>2. ASSUME NEW size \in 1..MaxPacket, NEW more \in BOOLEAN,
             \/ SwallowPacket(size, more) \/ DataPacket(size, more)
             \/ FailedDataWrite(size, more) \/ PowerFailsInPacket(size, more)
      PROVE  FInv'
  BY <1>2, PacketSize, FileStepKeepsImage
<1>3. ASSUME \/ RefuseName \/ OpenFormat \/ DeletePacket \/ FailedDelete \/ DeleteFaults
             \/ SwallowEmptyPacket \/ Abort \/ Restart \/ PowerFailsInDelete
      PROVE  FInv'
  BY <1>0, <1>3, FileStepKeepsImage
<1>4. ASSUME NEW size \in 0..MaxPacket, NEW more \in BOOLEAN,
             \/ HeaderRefused(size, more) \/ ProgramFirmware(size, more)
             \/ PowerFailsInFirmware(size, more)
      PROVE  FInv'
  BY <1>4, PacketSize, FirmwareStepKeepsImage, ProgramKeepsImage
<1>5. ASSUME OpenFirmware \/ AbortFirmware \/ SwitchMode PROVE FInv'
  BY <1>0, <1>5, FirmwareStepKeepsImage
<1> QED
  BY <1>1, <1>2, <1>3, <1>4, <1>5 DEF FwNext, Next, Handlers, Environment

\* The update area holds exactly the image the master last sent to its end, but
\* for a packet a pending format swallowed, until a packet with a good header, of
\* an image or of a format transfer, erases it: for images, packets and disks of
\* any size, whatever files are written in between, as long as only files that
\* are listed are deleted.
THEOREM ImageWhole ==
  ASSUME "deleteMissing" \notin Ops
  PROVE  FwSpec => []FirmwareWhole
<1>1. Init => NInv /\ FInv
  BY NInvInit, FInvInit
<1>2. NInv /\ FInv /\ [FwNext]_vars => (NInv /\ FInv)'
  <2> SUFFICES ASSUME NInv, FInv, [FwNext]_vars PROVE NInv' /\ FInv'
    OBVIOUS
  <2>1. NInv'
    BY NInvStep
  <2>2. CASE FwNext
    BY <2>1, <2>2, FInvStep
  <2>3. CASE UNCHANGED vars
    BY <2>1, <2>3 DEF vars, ramVars, clientVars, fwVars, FInv, FirmwareWhole, Updating
  <2> QED
    BY <2>2, <2>3
<1>3. NInv /\ FInv => FirmwareWhole
  BY DEF FInv
<1> QED
  BY <1>1, <1>2, <1>3, PTL DEF FwSpec

-----------------------------------------------------------------------------
(***************************************************************************)
(* The files, for every disk, through rewriting, growing, running out of   *)
(* sectors, aborts and failing writes, as long as nothing is deleted,      *)
(* formatted or restarted.                                                 *)
(***************************************************************************)
OnlyWrites ==
  Ops \cap {"deleteMissing", "deleteLast", "deleteAny", "format", "restart", "powerFail"} = {}

\* The entry of this name in a directory, with this CRC.
Has(d, name) == \E i \in Sectors : i < d.total /\ d.info[i].name = name
HasCrc(d, name, crc) ==
  \E i \in Sectors : i < d.total /\ d.info[i].name = name /\ d.info[i].crc = crc

Writing(name) == client.phase = "open" /\ client.kind = "write" /\ client.name = name

AInv ==
  /\ ~formatFlag /\ ~halted
  /\ client.kind \in {"none", "write", "firmware"}
  /\ client.phase = "open" /\ client.kind = "write" => wr.crc = client.sent
  /\ client.phase = "open" /\ client.kind = "firmware" => bBootMode
  /\ DOMAIN acked = Names /\ acked = [n \in Names |-> acked[n]]
  /\ \A n \in Names : acked[n] # None =>
       IF Writing(n) THEN Has(dir, n) ELSE HasCrc(dir, n, acked[n])

-----------------------------------------------------------------------------
\* What a transfer that ends without a promise leaves.
LEMMA EndWithout ==
  ASSUME AInv, client' = Idle, ~formatFlag', ~halted',
         acked' = IF client.kind = "format" THEN acked
                  ELSE [acked EXCEPT ![client.name] = None],
         client.phase = "open", client.kind = "write",
         \A n \in Names : \A crc : n # client.name /\ HasCrc(dir, n, crc) => HasCrc(dir', n, crc)
  PROVE  AInv'
<1>1. client'.phase = "idle" /\ client'.kind = "none"
  BY DEF Idle
<1>2. acked' = [acked EXCEPT ![client.name] = None]
  OBVIOUS
<1>3. DOMAIN acked' = Names /\ acked' = [n \in Names |-> acked'[n]]
  BY <1>2 DEF AInv
<1>4. ASSUME NEW n \in Names, acked'[n] # None PROVE HasCrc(dir', n, acked'[n])
  <2>1. n # client.name /\ acked'[n] = acked[n]
    BY <1>2, <1>4 DEF AInv
  <2>2. HasCrc(dir, n, acked[n])
    BY <1>4, <2>1 DEF AInv, Writing
  <2> QED
    BY <2>1, <2>2
<1> QED
  BY <1>1, <1>3, <1>4 DEF AInv, Writing

\* A packet leaves the other entries alone; the last one records what was sent.
LEMMA FinalCrc ==
  ASSUME NInv, wr.index \in Sectors, NEW units \in Stream, NEW more \in BOOLEAN,
         client.phase = "open", client.kind = "write"
  PROVE  /\ \A n \in Names : \A crc : n # client.name /\ HasCrc(dir, n, crc) =>
              HasCrc(Grown(units), n, crc) /\ HasCrc(Final(units, more), n, crc)
         /\ Has(dir, client.name) => Has(Grown(units), client.name)
         /\ Commits(units, more) =>
              HasCrc(Final(units, more), client.name, wr.crc \o units)
<1> DEFINE g == Grown(units)
           sum == wr.crc \o units
           size == Offset(units)
           e == Final(units, more)
<1>1. DirShape(g) /\ UniqueIn(g) /\ g.total = dir.total /\ g.info = dir.info
  BY GrownNames
<1>2. sum \in Stream
  BY DEF NInv, WrShape, WriteState, Stream
<1>3. size \in Nat /\ existFlag \in BOOLEAN
  BY OutcomeParts DEF NInv
<1>4. e = IF Commits(units, more)
          THEN Commit(g, g.total, existFlag, wr.index, size, sum) ELSE g
  BY <1>1 DEF Final, NInv
<1>5. /\ dir.info \in [Sectors -> Entry] /\ dir.total \in Nat
      /\ dir.info[wr.index].name = client.name
      /\ existFlag => wr.index < dir.total
      /\ ~existFlag => wr.index = dir.total
  BY SectorNumbers DEF NInv, Opened, DirShape
<1>6. ~existFlag => /\ wr.index = g.total
                    /\ \A i \in Sectors : i < g.total => g.info[i].name # g.info[wr.index].name
  BY <1>1 DEF NInv, Opened
<1> HIDE DEF g, sum, size, e
<1>7. ASSUME e = Commit(g, g.total, existFlag, wr.index, size, sum)
      PROVE  /\ e.total = IF existFlag THEN g.total ELSE g.total + 1
             /\ e.info = [g.info EXCEPT ![wr.index].size = size, ![wr.index].crc = sum]
  BY <1>7 DEF Commit
<1>8. ASSUME Commits(units, more)
      PROVE  /\ e.total \in {dir.total, dir.total + 1} /\ wr.index < e.total
             /\ e.info = [dir.info EXCEPT ![wr.index].size = size, ![wr.index].crc = sum]
  <2>1. e = Commit(g, g.total, existFlag, wr.index, size, sum)
    BY <1>4, <1>8
  <2>2. e.total = IF existFlag THEN dir.total ELSE dir.total + 1
    BY <1>1, <1>7, <2>1
  <2> QED
    BY <1>1, <1>3, <1>5, <1>7, <2>1, <2>2
<1>9. ASSUME Commits(units, more)
      PROVE  /\ \A i \in Sectors : i # wr.index => e.info[i] = dir.info[i]
             /\ e.info[wr.index].name = client.name /\ e.info[wr.index].crc = sum
  BY <1>5, <1>8, <1>9 DEF Entry
<1>10. \A n \in Names : \A crc : HasCrc(dir, n, crc) => HasCrc(g, n, crc)
  BY <1>1 DEF HasCrc
<1>11. ASSUME NEW n \in Names, NEW crc, n # client.name, HasCrc(dir, n, crc)
       PROVE  HasCrc(e, n, crc)
  <2>1. CASE Commits(units, more)
    <3>1. PICK i \in Sectors : i < dir.total /\ dir.info[i].name = n /\ dir.info[i].crc = crc
      BY <1>11 DEF HasCrc
    <3>2. i # wr.index
      BY <1>5, <1>11, <3>1
    <3>3. e.info[i] = dir.info[i]
      BY <1>9, <2>1, <3>2
    <3>4. i < e.total
      BY <1>5, <1>8, <2>1, <3>1, SectorNumbers
    <3> QED
      BY <3>1, <3>3, <3>4 DEF HasCrc
  <2>2. CASE ~Commits(units, more)
    BY <1>4, <1>10, <1>11, <2>2
  <2> QED
    BY <2>1, <2>2
<1>12. Commits(units, more) => HasCrc(e, client.name, sum)
  <2> SUFFICES ASSUME Commits(units, more) PROVE HasCrc(e, client.name, sum)
    OBVIOUS
  <2> QED
    BY <1>8, <1>9 DEF HasCrc
<1>13. Has(dir, client.name) => Has(g, client.name)
  BY <1>1 DEF Has
<1> QED
  BY <1>10, <1>11, <1>12, <1>13 DEF g, e, sum

\* A step that leaves the directory and the promises alone.
LEMMA NothingPromised ==
  ASSUME AInv, UNCHANGED <<dir, acked, formatFlag, halted>>,
         client.phase = "idle" \/ client.kind # "write",
         client'.kind \in {"none", "firmware"},
         client'.phase = "open" => client'.kind = "firmware" /\ bBootMode'
  PROVE  AInv'
BY DEF AInv, Writing, Has, HasCrc

LEMMA OpenAcked ==
  ASSUME NInv, AInv, OnlyWrites, NEW name \in Names, NEW kind \in {"write", "delete"},
         OpenFile(name, kind)
  PROVE  AInv'
<1> DEFINE add == AddFile(name)
<1>1. /\ dir' = add.dir /\ wr' = Fresh(add.index) /\ acked' = acked
      /\ formatFlag' = formatFlag /\ halted' = halted
      /\ client' = IF add.index = NotFound THEN Idle
                   ELSE [phase |-> "open", kind |-> kind, name |-> name, sent |-> <<>>]
      /\ Requests(name, kind) /\ client.phase = "idle"
  BY DEF OpenFile, Ready
<1>2. kind = "write"
  BY <1>1 DEF Requests, OnlyWrites
<1>3. /\ add.index \in Sectors \cup {NotFound} /\ add.dir.total = dir.total
      /\ \A i \in Sectors : i < dir.total => add.dir.info[i] = dir.info[i]
  BY AddFileNames
<1> HIDE DEF add
<1>4. wr'.crc = <<>>
  BY <1>1, <1>3, FreshShape DEF NInv
<1>5. ASSUME NEW n \in Names, acked[n] # None PROVE HasCrc(dir', n, acked[n])
  <2>1. HasCrc(dir, n, acked[n])
    BY <1>1, <1>5 DEF AInv, Writing
  <2> QED
    BY <1>1, <1>3, <2>1 DEF HasCrc
<1>6. \A n \in Names : acked'[n] # None => Has(dir', n) /\ HasCrc(dir', n, acked'[n])
  BY <1>1, <1>5 DEF Has, HasCrc
<1>7. client' = Idle \/ (client'.kind = "write" /\ client'.sent = <<>>)
  BY <1>1, <1>2
<1>8. client'.kind \in {"none", "write"}
  BY <1>7 DEF Idle
<1>9. client'.kind = "write" => client'.sent = <<>>
  BY <1>7 DEF Idle
<1> QED
  BY <1>1, <1>4, <1>6, <1>8, <1>9 DEF AInv

LEMMA DataPacketAcked ==
  ASSUME NInv, AInv, NEW size \in Nat, NEW more \in BOOLEAN, DataPacket(size, more)
  PROVE  AInv'
<1> DEFINE units == Packet(size)
           out == WriteOutcome(units, more)
<1>1. /\ dir' = out.dir /\ wr' = out.wr
      /\ IF out.full THEN Rejected ELSE Accepted(size, more)
      /\ WritesData(size, more) /\ transfers' = transfers
      /\ formatFlag' = formatFlag /\ halted' = halted
  BY DEF DataPacket
<1>2. client.phase = "open" /\ client.kind = "write" /\ wr.index \in Sectors
  BY <1>1, WritingFile
<1>3. /\ out.full = Full(units) /\ out.dir = Final(units, more) /\ out.wr = After(units)
  BY OutcomeIs, Zenon
<1>4. units \in Stream
  BY PacketStream DEF NInv
<1> HIDE DEF out
<1>5. /\ \A n \in Names : \A crc : n # client.name /\ HasCrc(dir, n, crc) => HasCrc(dir', n, crc)
      /\ Has(dir, client.name) => Has(Grown(units), client.name)
      /\ Commits(units, more) => HasCrc(dir', client.name, wr.crc \o units)
  BY <1>1, <1>2, <1>3, <1>4, FinalCrc
<1>6. client.name \in Names /\ wr.crc = client.sent
  BY <1>2 DEF NInv, Opened, AInv
<1>7. CASE Full(units)
  BY <1>1, <1>2, <1>3, <1>5, <1>7, EndWithout DEF Rejected, AInv
<1>8. CASE ~Full(units) /\ ~more
  <2>1. /\ client' = Idle
        /\ acked' = [acked EXCEPT ![client.name] = client.sent \o units]
    BY <1>1, <1>2, <1>3, <1>8 DEF Accepted
  <2>2. client'.phase = "idle" /\ client'.kind = "none"
    BY <2>1 DEF Idle
  <2>3. HasCrc(dir', client.name, client.sent \o units)
    BY <1>5, <1>6, <1>8 DEF Commits
  <2> HIDE DEF units
  <2>4. DOMAIN acked' = Names /\ acked' = [n \in Names |-> acked'[n]]
    BY <2>1 DEF AInv
  <2>5. ASSUME NEW n \in Names, acked'[n] # None PROVE HasCrc(dir', n, acked'[n])
    <3>1. CASE n = client.name
      <4>1. acked'[n] = client.sent \o units
        BY <1>6, <2>1, <3>1 DEF AInv
      <4> QED
        BY <2>3, <3>1, <4>1
    <3>2. CASE n # client.name
      <4>1. acked'[n] = acked[n]
        BY <2>1, <3>2 DEF AInv
      <4>2. HasCrc(dir, n, acked[n])
        BY <2>5, <3>2, <4>1 DEF AInv, Writing
      <4> QED
        BY <1>5, <3>2, <4>1, <4>2
    <3> QED
      BY <3>1, <3>2
  <2> QED
    BY <1>1, <2>2, <2>4, <2>5 DEF AInv, Writing
<1>9. CASE ~Full(units) /\ more
  <2>1. Accepted(size, more)
    BY <1>1, <1>3, <1>9
  <2>2. /\ client'.phase = client.phase /\ client'.kind = client.kind
        /\ client'.name = client.name
    BY <1>1, <1>9, <2>1, AcceptedShape DEF NInv
  <2>3. acked' = acked /\ client' = [client EXCEPT !.sent = client.sent \o units]
    BY <1>9, <2>1 DEF Accepted
  <2>4. client'.sent = client.sent \o units
    BY <2>3 DEF NInv, ClientShape
  <2>5. wr'.crc = wr.crc \o units
    BY <1>1, <1>3, <1>9 DEF After, NInv, WrShape, WriteState
  <2>6. dir' = Grown(units)
    BY <1>1, <1>3, <1>9 DEF Final, Commits
  <2> HIDE DEF units
  <2>7. ASSUME NEW n \in Names, acked'[n] # None
        PROVE  IF Writing(n)' THEN Has(dir', n) ELSE HasCrc(dir', n, acked'[n])
    <3>1. CASE n = client.name
      <4>1. Has(dir, n)
        BY <1>2, <2>3, <2>7, <3>1 DEF AInv, Writing
      <4> QED
        BY <1>2, <1>5, <2>2, <2>6, <3>1, <4>1 DEF Writing
    <3>2. CASE n # client.name
      <4>1. HasCrc(dir, n, acked[n])
        BY <2>3, <2>7, <3>2 DEF AInv, Writing
      <4> QED
        BY <1>5, <2>2, <2>3, <3>2, <4>1 DEF Writing
    <3> QED
      BY <3>1, <3>2
  <2> QED
    BY <1>1, <1>2, <1>6, <2>2, <2>3, <2>4, <2>5, <2>7 DEF AInv
<1> QED
  BY <1>7, <1>8, <1>9

LEMMA FailedDataWriteAcked ==
  ASSUME NInv, AInv, NEW size \in Nat, NEW more \in BOOLEAN, FailedDataWrite(size, more)
  PROVE  AInv'
<1> DEFINE units == Packet(size)
           out == WriteOutcome(units, more)
<1>1. /\ Rejected /\ WritesData(size, more) /\ formatFlag' = formatFlag /\ halted' = halted
      /\ dir' \in {dir, out.grown, out.dir}
  BY DEF FailedDataWrite
<1>2. client.phase = "open" /\ client.kind = "write" /\ wr.index \in Sectors
  BY <1>1, WritingFile
<1>3. out.dir = Final(units, more) /\ out.grown = Grown(units)
  BY OutcomeIs, Zenon
<1>4. units \in Stream
  BY PacketStream DEF NInv
<1> HIDE DEF out
<1>5. \A n \in Names : \A crc : n # client.name /\ HasCrc(dir, n, crc) => HasCrc(dir', n, crc)
  BY <1>1, <1>2, <1>3, <1>4, FinalCrc
<1> QED
  BY <1>1, <1>2, <1>5, EndWithout DEF Rejected, AInv

LEMMA OtherAcked ==
  ASSUME NInv, AInv, OnlyWrites, NEW size \in Nat, NEW more \in BOOLEAN,
         \/ RefuseName \/ OpenFormat \/ SwallowPacket(size, more)
         \/ DeletePacket \/ FailedDelete \/ DeleteFaults \/ SwallowEmptyPacket
         \/ Abort \/ Restart \/ PowerFailsInPacket(size, more) \/ PowerFailsInDelete
         \/ OpenFirmware \/ HeaderRefused(size, more) \/ ProgramFirmware(size, more)
         \/ PowerFailsInFirmware(size, more) \/ AbortFirmware \/ SwitchMode
  PROVE  AInv'
<1>1. CASE OpenFormat \/ Restart \/ PowerFailsInPacket(size, more)
           \/ PowerFailsInDelete \/ PowerFailsInFirmware(size, more)
  BY <1>1 DEF OpenFormat, Restart, PowerFailsInPacket, PowerFailsInDelete,
              PowerFailsInFirmware, OnlyWrites, AInv
<1>2. CASE SwallowPacket(size, more) \/ SwallowEmptyPacket
  BY <1>2 DEF SwallowPacket, SwallowEmptyPacket, AInv
<1>3. CASE DeletePacket \/ FailedDelete \/ DeleteFaults
  BY <1>3 DEF DeletePacket, FailedDelete, DeleteFaults, DeletesFile, AInv
<1>4. CASE RefuseName
  BY <1>4 DEF RefuseName, flashVars, clientVars, fwVars, Ready, AInv, Writing, Has, HasCrc
<1>5. CASE Abort
  <2>1. /\ client.phase = "open" /\ ~bBootMode /\ Rejected
        /\ UNCHANGED <<dir, formatFlag, halted>>
    BY <1>5 DEF Abort, ramVars
  <2>2. client.kind = "write"
    BY <2>1 DEF AInv, NInv, Opened
  <2> QED
    BY <2>1, <2>2, EndWithout DEF Rejected, AInv
<1>6. CASE OpenFirmware
  <2>1. /\ UNCHANGED <<dir, acked, formatFlag, halted>> /\ bBootMode' = bBootMode
        /\ bBootMode /\ client.phase = "idle"
        /\ \/ client' = [phase |-> "open", kind |-> "firmware", name |-> NoName, sent |-> <<>>]
           \/ client' = client
    BY <1>6 DEF OpenFirmware, fileVars, fwVars, Ready
  <2>2. CASE client' = client
    BY <2>1, <2>2 DEF AInv, Writing, Has, HasCrc
  <2>3. CASE client' = [phase |-> "open", kind |-> "firmware", name |-> NoName, sent |-> <<>>]
    BY <2>1, <2>3, NothingPromised
  <2> QED
    BY <2>1, <2>2, <2>3
<1>7. CASE HeaderRefused(size, more) \/ AbortFirmware
  <2>1. /\ UNCHANGED <<dir, acked, formatFlag, halted>> /\ client' = Idle
        /\ client.kind \in {"format", "firmware"}
    BY <1>7, UpdateKind DEF HeaderRefused, AbortFirmware, SessionEnds, fileVars
  <2>2. client'.kind = "none" /\ client'.phase = "idle"
    BY <2>1 DEF Idle
  <2> QED
    BY <2>1, <2>2, NothingPromised
<1>8. CASE ProgramFirmware(size, more)
  <2>0. client.phase = "open" /\ client.kind \in {"format", "firmware"}
    BY <1>8, UpdateKind DEF ProgramFirmware
  <2>1. /\ UNCHANGED <<dir, formatFlag, halted>> /\ transfers' = transfers
        /\ client.kind = "firmware" /\ client.phase = "open" /\ bBootMode /\ bBootMode' = bBootMode
        /\ Accepted(size, more) \/ (client' = Idle /\ acked' = acked)
    BY <1>8, <2>0 DEF ProgramFirmware, SessionEnds, fileVars, AInv
  <2>2. acked' = acked
    BY <2>1 DEF Accepted
  <2>3. client' = Idle \/ (client'.kind = "firmware")
    BY <2>1, AcceptedShape DEF NInv
  <2>4. /\ client'.kind \in {"none", "firmware"}
        /\ client'.phase = "open" => client'.kind = "firmware"
    BY <2>3 DEF Idle
  <2> QED
    BY <2>1, <2>2, <2>4, NothingPromised
<1>9. CASE SwitchMode
  BY <1>9 DEF SwitchMode, ramVars, clientVars, AInv, Writing, Has, HasCrc
<1> QED
  BY <1>1, <1>2, <1>3, <1>4, <1>5, <1>6, <1>7, <1>8, <1>9

-----------------------------------------------------------------------------
LEMMA AInvInit == Init => AInv
BY DEF Init, AInv, Idle

LEMMA AInvStep ==
  ASSUME NInv, AInv, OnlyWrites, FwNext
  PROVE  AInv'
<1>0. PICK anySize \in Nat, any \in BOOLEAN : any
  OBVIOUS
<1>1. ASSUME NEW n \in Names, NEW kind \in {"write", "delete"}, OpenFile(n, kind) PROVE AInv'
  BY <1>1, OpenAcked
<1>2. ASSUME NEW size \in 1..MaxPacket, NEW more \in BOOLEAN,
             \/ SwallowPacket(size, more) \/ DataPacket(size, more)
             \/ FailedDataWrite(size, more) \/ PowerFailsInPacket(size, more)
      PROVE  AInv'
  BY <1>2, PacketSize, DataPacketAcked, FailedDataWriteAcked, OtherAcked
<1>3. ASSUME NEW size \in 0..MaxPacket, NEW more \in BOOLEAN,
             \/ HeaderRefused(size, more) \/ ProgramFirmware(size, more)
             \/ PowerFailsInFirmware(size, more)
      PROVE  AInv'
  BY <1>3, PacketSize, OtherAcked
<1>4. ASSUME \/ RefuseName \/ OpenFormat \/ DeletePacket \/ FailedDelete \/ DeleteFaults
             \/ SwallowEmptyPacket \/ Abort \/ Restart \/ PowerFailsInDelete
             \/ OpenFirmware \/ AbortFirmware \/ SwitchMode
      PROVE  AInv'
  BY <1>0, <1>4, OtherAcked
<1> QED
  BY <1>1, <1>2, <1>3, <1>4 DEF FwNext, Next, Handlers, Environment

LEMMA AInvListed == NInv /\ AInv => AckedListed
<1> SUFFICES ASSUME NInv, AInv, NEW n \in Names, acked[n] # None,
                    ~(client.phase = "open" /\ client.name = n)
             PROVE  LET i == FindFile(dir, fileNum, n)
                    IN  i # NotFound /\ dir.info[i].crc = acked[n]
  BY DEF AckedListed
<1> DEFINE i == FindFile(dir, fileNum, n)
<1>1. PICK j \in Sectors : j < dir.total /\ dir.info[j].name = n /\ dir.info[j].crc = acked[n]
  BY DEF AInv, Writing, HasCrc
<1>2. fileNum \in Nat /\ fileNum = dir.total
  BY SectorNumbers DEF NInv, DirShape
<1>3. i # NotFound
  BY <1>1, <1>2, FileMissing
<1>4. i \in Sectors /\ i < dir.total /\ dir.info[i].name = n
  <2>1. i = FindFile(dir, fileNum, n)
    OBVIOUS
  <2> HIDE DEF i
  <2> QED
    BY <1>2, <1>3, <2>1, FileFound
<1> HIDE DEF i
<1>5. i = j
  BY <1>1, <1>4 DEF NInv, UniqueIn
<1> QED
  BY <1>1, <1>3, <1>5 DEF i

\* A file the master was told is stored is listed under its name with exactly
\* what the master sent, however often files are written, rewritten, grown,
\* broken off or fail in between, on a disk of any size.
THEOREM AckedStaysListed ==
  ASSUME OnlyWrites
  PROVE  FwSpec => []AckedListed
<1>1. Init => NInv /\ AInv
  BY NInvInit, AInvInit
<1>2. NInv /\ AInv /\ [FwNext]_vars => (NInv /\ AInv)'
  <2> SUFFICES ASSUME NInv, AInv, [FwNext]_vars PROVE NInv' /\ AInv'
    OBVIOUS
  <2>1. NInv'
    BY NInvStep DEF OnlyWrites
  <2>2. CASE FwNext
    BY <2>1, <2>2, AInvStep
  <2>3. CASE UNCHANGED vars
    BY <2>1, <2>3 DEF vars, ramVars, clientVars, fwVars, AInv, Writing, Has, HasCrc
  <2> QED
    BY <2>2, <2>3
<1>3. NInv /\ AInv => AckedListed
  BY AInvListed
<1> QED
  BY <1>1, <1>2, <1>3, PTL DEF FwSpec

-----------------------------------------------------------------------------
(***************************************************************************)
(* Reading units programmed into flash, by their address.                  *)
(***************************************************************************)
LEMMA AddressIs ==
  ASSUME NEW a \in Nat
  PROVE  a \div S \in Nat /\ a % S \in 0..(S - 1) /\ a = (a \div S) * S + (a % S)
<1>1. S \in Nat /\ S > 0
  BY Products
<1> DEFINE m == S
<1>2. m \in Nat /\ m > 0
  BY <1>1
<1> HIDE DEF m
<1>3. a = (a \div m) * m + (a % m)
  BY <1>2, Z3T(20)
<1>4. a % m \in 0..(m - 1)
  BY <1>2
<1>5. a \div m \in Nat
  BY <1>2, DivisionNat
<1> QED
  BY <1>3, <1>4, <1>5 DEF m

LEMMA SectorOf ==
  ASSUME NEW a \in Nat, NEW s \in Nat
  PROVE  /\ a < s * S + S => a \div S <= s
         /\ a >= s * S => a \div S >= s
<1> DEFINE q == a \div S
           r == a % S
<1>1. q \in Nat /\ r \in 0..(S - 1) /\ a = q * S + r /\ S \in Nat /\ S > 0
  BY AddressIs, Products
<1> HIDE DEF q, r
<1>2. q * S \in Nat /\ s * S \in Nat
  BY <1>1
<1>3. s < q => s * S + S <= q * S
  BY <1>1, SectorsApart
<1>4. q < s => q * S + S <= s * S
  BY <1>1, SectorsApart
<1> QED
  BY <1>1, <1>2, <1>3, <1>4 DEF q

LEMMA ProgramReads ==
  ASSUME NEW d, NEW addr \in Nat, NEW units \in Stream, NEW a \in Nat, a \div S \in Sectors,
         NEW j, j = a - addr + 1
  PROVE  /\ j \in 1..Len(units) => UnitAt(Program(d, addr, units), a) = units[j]
         /\ j \notin 1..Len(units) => UnitAt(Program(d, addr, units), a) = UnitAt(d, a)
<1> DEFINE q == a \div S
           r == a % S
<1>1. q \in Sectors /\ r \in 0..(S - 1) /\ a = q * S + r
  BY AddressIs
<1>2. UnitAt(Program(d, addr, units), a) = Program(d, addr, units)[q][r] /\ UnitAt(d, a) = d[q][r]
  BY DEF UnitAt
<1> HIDE DEF q, r
<1> DEFINE K(s, o) == s * S + o - addr + 1
           P == Program(d, addr, units)
<1>3. P[q][r] = IF K(q, r) \in 1..Len(units) THEN units[K(q, r)] ELSE d[q][r]
  BY <1>1 DEF Program
<1>4. K(q, r) = j
  <2>1. q \in Nat /\ S \in Nat /\ r \in Int
    BY <1>1, SectorNumbers, Products
  <2>2. q * S \in Nat
    BY <2>1
  <2> QED
    BY <1>1, <2>1, <2>2
<1> HIDE DEF K, P
<1>5. P[q][r] = IF j \in 1..Len(units) THEN units[j] ELSE d[q][r]
  BY <1>3, <1>4
<1>6. UnitAt(P, a) = P[q][r]
  BY <1>2 DEF P
<1> QED
  <2>1. UnitAt(P, a) = IF j \in 1..Len(units) THEN units[j]
                      ELSE UnitAt(d, a)
    BY <1>2, <1>5, <1>6
  <2> QED
    BY <2>1 DEF P

\* The contents p are d with these units programmed from the address on.
Programmed(p, d, addr, units) ==
  \A a \in Nat, j \in Int :
    a \div S \in Sectors /\ j = a - addr + 1 =>
      /\ j \in 1..Len(units) => UnitAt(p, a) = units[j]
      /\ j \notin 1..Len(units) => UnitAt(p, a) = UnitAt(d, a)

LEMMA ProgrammedBy ==
  ASSUME NEW d, NEW addr \in Nat, NEW units \in Stream
  PROVE  Programmed(Program(d, addr, units), d, addr, units)
BY ProgramReads DEF Programmed

LEMMA EraseReads ==
  ASSUME NEW d \in Flash, NEW s \in Sectors, NEW a \in Nat,
         a \div S \in Sectors, a \div S # s
  PROVE  UnitAt(Erase(d, s), a) = UnitAt(d, a)
BY DEF UnitAt, Erase, Flash

\* From this address on flash holds the first n of these units.
Reads(d, base, units, n) == \A k \in 1..n : UnitAt(d, base + k - 1) = units[k]
OnDisk(limit) == \A a \in Nat : a < limit => a \div S \in Sectors

LEMMA ProgramAppends ==
  ASSUME NEW d, NEW base \in Nat, NEW all, NEW n \in Nat, NEW units \in Stream,
         \A k \in 1..Len(units) : units[k] = all[n + k],
         NEW addr, addr = base + n, Reads(d, base, all, n), OnDisk(base + n + Len(units))
  PROVE  Reads(Program(d, addr, units), base, all, n + Len(units))
<1> DEFINE p == Program(d, addr, units)
<1>1. Len(units) \in Nat
  BY DEF Stream
<1>2. addr \in Nat
  BY <1>1
<1>3. Programmed(p, d, addr, units)
  BY <1>2, ProgrammedBy
<1> HIDE DEF p
<1>4. ASSUME NEW k \in 1..(n + Len(units)) PROVE UnitAt(p, base + k - 1) = all[k]
  <2>1. PICK a \in Nat, j \in Int : a = base + k - 1 /\ j = k - n
    BY <1>1
  <2>2. a - addr + 1 = j /\ a < base + n + Len(units)
    BY <1>1, <2>1
  <2>3. a \div S \in Sectors
    BY <2>2 DEF OnDisk
  <2>4. j = a - addr + 1
    BY <2>2
  <2>5. /\ j \in 1..Len(units) => UnitAt(p, a) = units[j]
        /\ j \notin 1..Len(units) => UnitAt(p, a) = UnitAt(d, a)
    <3>1. /\ addr \in Nat /\ units \in Stream /\ a \in Nat /\ a \div S \in Sectors
          /\ j = a - addr + 1
      BY <1>2, <2>3, <2>4
    <3> QED
      BY <1>3, <3>1 DEF Programmed
  <2>6. CASE k <= n
    <3>1. j \notin 1..Len(units)
      BY <1>1, <2>1, <2>6
    <3>2. UnitAt(d, a) = all[k]
      BY <1>1, <2>1, <2>6 DEF Reads
    <3> QED
      BY <2>1, <2>5, <3>1, <3>2
  <2>7. CASE k > n
    <3>1. j \in 1..Len(units) /\ n + j = k
      BY <1>1, <2>1, <2>7
    <3>2. units[j] = all[k]
      BY <3>1
    <3> QED
      BY <2>1, <2>5, <3>1, <3>2
  <2> QED
    BY <1>1, <2>6, <2>7
<1> QED
  BY <1>4 DEF Reads, p

LEMMA EraseKeeps ==
  ASSUME NEW d \in Flash, NEW s \in Sectors, NEW base \in Nat, NEW all, NEW n \in Nat,
         Reads(d, base, all, n), base + n <= s * S
  PROVE  Reads(Erase(d, s), base, all, n)
<1>1. s \in Nat /\ s * S \in Nat /\ S \in Nat
  BY SectorNumbers, Products
<1>2. ASSUME NEW k \in 1..n PROVE UnitAt(Erase(d, s), base + k - 1) = all[k]
  <2> DEFINE a == base + k - 1
  <2>1. a \in Nat /\ a < s * S
    BY <1>1
  <2>2. a \div S # s
    <3> SUFFICES ASSUME a \div S = s PROVE FALSE
      OBVIOUS
    <3>1. a = s * S + (a % S) /\ a % S \in 0..(S - 1)
      BY <2>1, AddressIs
    <3> HIDE DEF a
    <3> QED
      BY <1>1, <2>1, <3>1
  <2>3. a \div S \in Sectors
    <3> HIDE DEF a
    <3>1. a \div S \in Nat /\ a \div S <= s
      <4>1. a < s * S + S
        BY <1>1, <2>1
      <4> QED
        BY <1>1, <2>1, <4>1, AddressIs, SectorOf
    <3> QED
      BY <1>1, <3>1, SectorNumbers
  <2>4. UnitAt(Erase(d, s), a) = UnitAt(d, a)
    BY <2>1, <2>2, <2>3, EraseReads
  <2> QED
    BY <2>4 DEF Reads
<1> QED
  BY <1>2 DEF Reads

\* Nothing between the place a search starts and the sector it finds has the owner.
LEMMA FirstAtFirst ==
  ASSUME NEW table, NEW from \in Nat, NEW owner, NEW s \in Sectors, s >= from,
         table[s] = owner
  PROVE  FirstAt(table, from, owner) # NotFound /\ FirstAt(table, from, owner) <= s
<1> DEFINE hits == {t \in from..(N - 1) : table[t] = owner}
<1>1. s \in hits
  BY SectorNumbers DEF Sectors
<1>2. hits \subseteq Nat
  OBVIOUS
<1>3. Lowest(hits) \in hits /\ Lowest(hits) <= s
  BY <1>1, <1>2, LowestIs
<1>4. FirstAt(table, from, owner) = Lowest(hits)
  BY <1>1 DEF FirstAt
<1>5. Lowest(hits) # NotFound
  BY <1>3, SectorNumbers
<1> QED
  BY <1>3, <1>4, <1>5

\* A file goes on behind the sector it has reached, and in the very next one
\* if that one is marked with it.
LEMMA NextIsBeyond ==
  ASSUME NEW d, NEW exist, NEW idx \in Sectors, NEW home \in Sectors, NEW pos \in Nat,
         pos <= S, exist => pos < S, d.table[home] = idx + 1,
         NEW next, next = NextWriteSector(d, exist, idx, home * S + pos), next # NotFound
  PROVE  /\ next \in Sectors /\ next >= home + 1
         /\ exist /\ next # home + 1 => home + 1 \in Sectors /\ d.table[home + 1] # idx + 1
<1> DEFINE addr == home * S + pos
           start == addr \div S
           own == FirstAt(d.table, start + 1, idx + 1)
           free == FirstAt(d.table, start, 0)
<1>1. home \in Nat /\ idx \in Nat /\ S \in Nat /\ S > 0 /\ home * S \in Nat /\ addr \in Nat
  BY SectorNumbers, Products
<1>2. start \in Nat /\ start >= home /\ (exist => start = home)
  <2>1. start \in Nat /\ start >= home
    BY <1>1, AddressIs, SectorOf
  <2>2. pos < S => start <= home
    <3>1. pos < S => addr < home * S + S
      BY <1>1
    <3> HIDE DEF addr
    <3> QED
      BY <1>1, <3>1, SectorOf
  <2> HIDE DEF start
  <2> QED
    BY <1>1, <2>1, <2>2
<1>3. \/ exist /\ own # NotFound /\ next = own
      \/ ~(exist /\ own # NotFound) /\ next = free
  BY DEF NextWriteSector
<1>a. start + 1 \in Nat
  BY <1>2
<1>b. /\ own # NotFound => own \in Sectors /\ own >= start + 1 /\ d.table[own] = idx + 1
      /\ free # NotFound => free \in Sectors /\ free >= start /\ d.table[free] = 0
  <2> HIDE DEF start
  <2> QED
    BY <1>2, <1>a, FirstAtFinds
<1>c. ASSUME NEW s \in Sectors, s >= start + 1, d.table[s] = idx + 1
      PROVE  own # NotFound /\ own <= s
  <2> HIDE DEF start
  <2> QED
    BY <1>c, <1>a, FirstAtFirst
<1> HIDE DEF start, own, free, addr
<1>d. home \in Nat /\ (next \in Sectors => next \in Nat)
  BY <1>1, SectorNumbers
<1>4. CASE exist /\ own # NotFound /\ next = own
  <2>1. next \in Sectors /\ next >= home + 1
    BY <1>1, <1>2, <1>4, <1>b
  <2>2. next # home + 1 => home + 1 \in Sectors
    BY <1>1, <2>1, SectorNumbers
  <2>3. ASSUME next # home + 1, d.table[home + 1] = idx + 1 PROVE FALSE
    <3>1. own <= home + 1
      BY <1>1, <1>2, <1>4, <2>2, <2>3, <1>c
    <3>2. own = next /\ next \in Nat
      BY <1>4, <1>d, <2>1
    <3> QED
      BY <1>d, <2>1, <2>3, <3>1, <3>2
  <2> QED
    BY <2>1, <2>2, <2>3
<1>5. CASE ~(exist /\ own # NotFound) /\ next = free
  <2>0. free \in Sectors /\ free >= start /\ d.table[free] = 0 /\ next = free
    BY <1>5, <1>b
  <2>1. next \in Sectors /\ d.table[next] = 0
    BY <2>0
  <2>a. next >= home
    BY <1>2, <1>d, <2>0, SectorNumbers
  <2>2. next >= home + 1
    <3>1. next # home
      BY <1>1, <2>1
    <3> QED
      BY <1>d, <2>1, <2>a, <3>1
  <2>3. home + 1 \in Sectors
    BY <1>1, <2>1, <2>2, SectorNumbers
  <2>4. ASSUME exist, d.table[home + 1] = idx + 1 PROVE FALSE
    BY <1>1, <1>2, <1>5, <2>3, <2>4, <1>c
  <2> QED
    BY <2>1, <2>2, <2>3, <2>4
<1> QED
  BY <1>3, <1>4, <1>5

-----------------------------------------------------------------------------
(***************************************************************************)
(* The file being written.                                                 *)
(***************************************************************************)
\* How it lies in flash: it has reached at least as many sectors behind its
\* first as it fills; if it is rewritten and further along than that, a sector in
\* between is not marked with it; if it is not further along, what was sent lies
\* there from its first sector on.
Along(d, flash, w, sent, exist, current) ==
  LET first == d.info[w.index].sector
  IN  /\ current >= first + w.sector
      /\ exist => \/ current = first + w.sector
                  \/ \E t \in Sectors : /\ t >= first /\ t <= first + w.sector
                                        /\ d.table[t] # w.index + 1
      /\ current = first + w.sector => Reads(flash, first * S, sent, Len(sent))

Filling ==
  client.phase = "open" /\ client.kind = "write" =>
    /\ wr.offset = Len(client.sent)
    /\ ~wr.firstIn =>
         /\ existFlag => wr.offset < S * (wr.sector + 1)
         /\ \E current \in Sectors :
              At(current) /\ Along(dir, data, wr, client.sent, existFlag, current)

LEMMA SmallFirst ==
  ASSUME NEW m \in Nat, NEW k \in Nat, m > 0, NEW pos \in Nat, m * k + pos < m * (k + 1)
  PROVE  pos < m
<1>1. m * (k + 1) = m * k + m /\ m * k \in Nat
  BY SMT
<1> QED
  BY <1>1

\* Where the packet starts, and what lies before it.
LEMMA FillsFrom ==
  ASSUME NInv, OInv, Filling, client.phase = "open", client.kind = "write",
         wr.index \in Sectors, NEW units \in Stream
  PROVE  \E home \in Sectors, pos \in Nat :
           /\ dir.table[home] = wr.index + 1 /\ Placed(home, pos, units)
           /\ existFlag => pos < S
           /\ Along(dir, Begun, wr, client.sent, existFlag, home)
<1> DEFINE first == dir.info[wr.index].sector
<1>1. first \in Sectors /\ first \in Nat /\ wr.firstIn \in BOOLEAN /\ S \in Nat /\ S > 0
      /\ wr.sector \in Nat /\ wr.offset \in Nat
  BY SectorNumbers, Products DEF NInv, DirShape, Entry, WrShape, WriteState
<1>2. CASE wr.firstIn
  <2>1. dir.table[first] = wr.index + 1 /\ wr.offset = 0 /\ wr.sector = 0 /\ Home(first)
    BY <1>2 DEF OInv, Position, Home
  <2>2. PICK pos \in Nat : Placed(first, pos, units)
    BY <1>1, <2>1, PositionIn
  <2>3. pos = 0
    BY <1>1, <2>1, <2>2 DEF Placed
  <2>4. Len(client.sent) = 0
    BY <2>1 DEF Filling
  <2> HIDE DEF first
  <2>5. Reads(Begun, first * S, client.sent, Len(client.sent))
    BY <2>4 DEF Reads
  <2>6. Along(dir, Begun, wr, client.sent, existFlag, first)
    <3>1. first >= first + wr.sector /\ first = first + wr.sector
      BY <1>1, <2>1
    <3> QED
      BY <2>5, <3>1 DEF Along, first
  <2> QED
    BY <1>1, <2>1, <2>2, <2>3, <2>6
<1>3. CASE ~wr.firstIn
  <2>1. PICK home \in Sectors :
          At(home) /\ Along(dir, data, wr, client.sent, existFlag, home)
    BY <1>3 DEF Filling
  <2>2. Home(home) /\ dir.table[home] = wr.index + 1
    BY <1>3, <2>1 DEF Home, At
  <2>3. PICK pos \in Nat : Placed(home, pos, units)
    BY <2>2, PositionIn
  <2>4. existFlag => pos < S
    <3>1. existFlag => S * wr.sector + pos < S * (wr.sector + 1)
      BY <1>3, <2>3 DEF Filling, Placed
    <3> QED
      BY <1>1, <3>1, SmallFirst
  <2>5. Begun = data
    BY <1>3 DEF Begun
  <2> QED
    BY <2>1, <2>2, <2>3, <2>4, <2>5
<1> QED
  BY <1>1, <1>2, <1>3

\* The two halves of a packet, and the packet behind what was sent before.
LEMMA HalvesAre ==
  ASSUME NEW units \in Stream, NEW over \in Nat, over <= Len(units)
  PROVE  /\ \A k \in 1..(Len(units) - over) :
              SubSeq(units, 1, Len(units) - over)[k] = units[k]
         /\ \A k \in 1..over :
              SubSeq(units, Len(units) - over + 1, Len(units))[k] = units[Len(units) - over + k]
<1> DEFINE front == Len(units) - over
<1>1. front \in Nat /\ Len(units) = front + over /\ front <= Len(units) /\ Len(units) \in Nat
  BY DEF Stream
<1> HIDE DEF front
<1>2. \A k \in 1..front : SubSeq(units, 1, front)[k] = units[k]
  BY <1>1 DEF Stream
<1>3. \A k \in 1..over : SubSeq(units, front + 1, Len(units))[k] = units[front + k]
  <2> SUFFICES ASSUME NEW k \in 1..over
               PROVE  SubSeq(units, front + 1, Len(units))[k] = units[front + k]
    OBVIOUS
  <2>1. k \in 1..(Len(units) - (front + 1) + 1) /\ (front + 1) + k - 1 = front + k
    BY <1>1
  <2> QED
    BY <1>1, <2>1 DEF Stream
<1> QED
  BY <1>2, <1>3 DEF front

LEMMA BehindSent ==
  ASSUME NEW sent \in Stream, NEW units \in Stream
  PROVE  /\ sent \o units \in Stream
         /\ Len(sent \o units) = Len(sent) + Len(units)
         /\ \A k \in 1..Len(sent) : (sent \o units)[k] = sent[k]
         /\ \A k \in 1..Len(units) : (sent \o units)[Len(sent) + k] = units[k]
<1>1. Len(sent) \in Nat /\ Len(units) \in Nat
  BY DEF Stream
<1>2. sent \o units \in Stream /\ Len(sent \o units) = Len(sent) + Len(units)
  BY <1>1 DEF Stream
<1>3. \A k \in 1..Len(sent) : (sent \o units)[k] = sent[k]
  BY <1>1 DEF Stream
<1>4. \A k \in 1..Len(units) : (sent \o units)[Len(sent) + k] = units[k]
  <2> SUFFICES ASSUME NEW k \in 1..Len(units)
               PROVE  (sent \o units)[Len(sent) + k] = units[k]
    OBVIOUS
  <2>1. Len(sent) + k \in 1..(Len(sent) + Len(units)) /\ Len(sent) + k > Len(sent)
        /\ Len(sent) + k - Len(sent) = k
    BY <1>1
  <2> QED
    BY <1>1, <2>1 DEF Stream
<1> QED
  BY <1>2, <1>3, <1>4

LEMMA SectorsAdd ==
  ASSUME NEW a \in Nat, NEW b \in Nat
  PROVE  (a + b) * S = a * S + S * b /\ (a + 1) * S = a * S + S
<1> DEFINE m == S
<1>1. m \in Nat
  BY Products
<1> HIDE DEF m
<1>2. (a + b) * m = a * m + m * b /\ (a + 1) * m = a * m + m
  BY <1>1, SMTT(30)
<1> QED
  BY <1>2 DEF m

LEMMA DiskTo ==
  ASSUME NEW s \in Sectors, NEW limit \in Nat, limit <= s * S + S
  PROVE  OnDisk(limit)
<1>1. s \in Nat /\ s * S \in Nat /\ S \in Nat
  BY SectorNumbers, Products
<1> SUFFICES ASSUME NEW a \in Nat, a < limit PROVE a \div S \in Sectors
  BY DEF OnDisk
<1>2. a < s * S + S
  BY <1>1
<1>3. a \div S \in Nat /\ a \div S <= s
  BY <1>1, <1>2, AddressIs, SectorOf
<1> QED
  BY <1>1, <1>3, SectorNumbers

LEMMA FlashImages ==
  ASSUME NInv, OInv, client.phase = "open", client.kind = "write", wr.index \in Sectors,
         NEW units \in Stream, Len(units) <= S
  PROVE  /\ Begun \in Flash /\ FrontDone(units) \in Flash
         /\ NextErased(units) \in Flash /\ RestDone(units) \in Flash
BY PacketUntouched DEF Untouched

\* The head of a packet goes behind what its sector already holds, the rest to
\* the start of the next sector.
LEMMA HeadReads ==
  ASSUME NEW d, NEW base \in Nat, NEW all, NEW n \in Nat, NEW f \in Stream,
         NEW home \in Sectors, NEW pos \in Nat, base + n = home * S + pos, pos + Len(f) <= S,
         \A k \in 1..Len(f) : f[k] = all[n + k], Reads(d, base, all, n)
  PROVE  Reads(Program(d, home * S + pos, f), base, all, n + Len(f))
<1>1. home \in Nat /\ home * S \in Nat /\ S \in Nat /\ Len(f) \in Nat
  BY SectorNumbers, Products DEF Stream
<1> DEFINE at == home * S
<1>2. at \in Nat /\ base + n = at + pos
  BY <1>1
<1> HIDE DEF at
<1>3. base + n + Len(f) \in Nat /\ base + n + Len(f) <= at + S
  BY <1>1, <1>2
<1>4. OnDisk(base + n + Len(f))
  BY <1>3, DiskTo DEF at
<1>5. at + pos \in Nat /\ at + pos = base + n
  BY <1>2
<1>6. Reads(Program(d, at + pos, f), base, all, n + Len(f))
  BY <1>4, <1>5, ProgramAppends
<1> QED
  BY <1>6 DEF at

LEMMA TailReads ==
  ASSUME NEW d \in Flash, NEW base \in Nat, NEW all, NEW n \in Nat, NEW r \in Stream,
         NEW next \in Sectors, base + n = next * S, Len(r) <= S,
         \A k \in 1..Len(r) : r[k] = all[n + k], Reads(d, base, all, n)
  PROVE  Reads(Program(Erase(d, next), next * S, r), base, all, n + Len(r))
<1>1. next \in Nat /\ next * S \in Nat /\ S \in Nat /\ Len(r) \in Nat
  BY SectorNumbers, Products DEF Stream
<1> DEFINE at == next * S
<1>2. at \in Nat /\ base + n = at
  BY <1>1
<1> HIDE DEF at
<1>3. Reads(Erase(d, next), base, all, n)
  BY <1>2, EraseKeeps DEF at
<1>4. base + n + Len(r) \in Nat /\ base + n + Len(r) <= at + S
  BY <1>1, <1>2
<1>5. OnDisk(base + n + Len(r))
  BY <1>4, DiskTo DEF at
<1>6. Reads(Program(Erase(d, next), at, r), base, all, n + Len(r))
  BY <1>2, <1>3, <1>5, ProgramAppends
<1> QED
  BY <1>6 DEF at

\* A file that has reached exactly the sectors it fills holds the packet behind
\* what was sent before it.
LEMMA PacketReads ==
  ASSUME NInv, OInv, client.phase = "open", client.kind = "write", wr.index \in Sectors,
         NEW units \in Stream, Len(units) <= S, ~Full(units),
         NEW home \in Sectors, NEW pos \in Nat, Placed(home, pos, units),
         NEW first \in Nat, home = first + wr.sector,
         NEW next, next = Following(units), Crosses(units) => next = home + 1,
         NEW sent \in Stream, Len(sent) = wr.offset, Reads(Begun, first * S, sent, Len(sent))
  PROVE  Reads(RestDone(units), first * S, sent \o units, Len(sent \o units))
<1>1. PICK over, sec, base, at, n, len \in Nat :
         /\ over = Over(units) /\ sec = S * wr.sector /\ base = first * S /\ at = home * S
         /\ n = Len(sent) /\ len = Len(units)
  <2>1. Over(units) \in Nat /\ wr.sector \in Nat /\ home \in Nat
    BY SectorNumbers, OutcomeParts DEF NInv, WrShape, WriteState
  <2>2. S * wr.sector \in Nat /\ first * S \in Nat /\ home * S \in Nat
    <3>1. S \in Nat
      BY Products
    <3>2. S * wr.sector \in Nat
      BY <2>1, <3>1
    <3>3. first * S \in Nat /\ home * S \in Nat
      BY <2>1, Products
    <3> QED
      BY <3>2, <3>3
  <2>3. Len(sent) \in Nat /\ Len(units) \in Nat
    BY DEF Stream
  <2> QED
    BY <2>1, <2>2, <2>3
<1>2. at = base + sec
  <2>1. wr.sector \in Nat
    BY DEF NInv, WrShape, WriteState
  <2> QED
    <3>1. (first + wr.sector) * S = first * S + S * wr.sector
      BY <2>1, SectorsAdd
    <3> QED
      BY <1>1, <3>1
<1>3. /\ Start = at + pos /\ pos <= S /\ n = sec + pos
      /\ over = IF pos + len > S THEN pos + len - S ELSE 0
  <2>1. /\ Start = at + pos /\ pos <= S /\ wr.offset = sec + pos
        /\ over = IF pos + len > S THEN pos + len - S ELSE 0
    BY <1>1 DEF Placed
  <2> QED
    BY <1>1, <2>1
<1>4. S \in Nat /\ S > 0 /\ home \in Nat
  BY SectorNumbers, Products
<1>5. over <= len /\ over <= S /\ at + pos = base + n
  <2>1. len <= S
    BY <1>1
  <2> QED
    BY <1>2, <1>3, <1>4, <2>1
<1>6. PICK all, f, r \in Stream : all = sent \o units /\ f = Front(units) /\ r = Rest(units)
  <2>1. sent \o units \in Stream
    BY BehindSent
  <2>2. Front(units) \in Stream /\ Rest(units) \in Stream
    BY <1>1, <1>5, PartLength DEF Front, Rest
  <2> QED
    BY <2>1, <2>2
<1>7. /\ Len(all) = n + len
      /\ \A k \in 1..n : all[k] = sent[k]
      /\ \A k \in 1..len : all[n + k] = units[k]
  <2>1. /\ Len(sent \o units) = Len(sent) + Len(units)
        /\ \A k \in 1..Len(sent) : (sent \o units)[k] = sent[k]
        /\ \A k \in 1..Len(units) : (sent \o units)[Len(sent) + k] = units[k]
    BY BehindSent
  <2>2. all = sent \o units /\ n = Len(sent) /\ len = Len(units)
    BY <1>1, <1>6
  <2> QED
    BY <2>1, <2>2
<1>8. /\ Len(f) = len - over /\ \A k \in 1..Len(f) : f[k] = units[k]
      /\ Len(r) = over /\ \A k \in 1..Len(r) : r[k] = units[len - over + k]
  <2>1. over \in Nat /\ over <= Len(units) /\ len = Len(units)
    BY <1>1, <1>5
  <2>2. f = SubSeq(units, 1, Len(units) - over)
        /\ r = SubSeq(units, Len(units) - over + 1, Len(units))
    BY <1>1, <1>6 DEF Front, Rest
  <2>3. Len(f) = len - over /\ Len(r) = over
    BY <2>1, <2>2, PartLength
  <2>4. /\ \A k \in 1..(len - over) : f[k] = units[k]
        /\ \A k \in 1..over : r[k] = units[len - over + k]
    <3>1. /\ \A k \in 1..(Len(units) - over) : SubSeq(units, 1, Len(units) - over)[k] = units[k]
          /\ \A k \in 1..over :
               SubSeq(units, Len(units) - over + 1, Len(units))[k] = units[Len(units) - over + k]
      BY <2>1, HalvesAre, Zenon
    <3> QED
      BY <2>1, <2>2, <3>1, Zenon
  <2> QED
    BY <2>3, <2>4
<1>9. Reads(Begun, base, all, n)
  <2>1. Reads(Begun, base, sent, n)
    BY <1>1
  <2> QED
    BY <1>7, <2>1 DEF Reads
<1>10. Len(f) \in Nat /\ pos + Len(f) <= S /\ Len(f) <= len
  <2>1. Len(f) = len - over /\ over <= len
    BY <1>5, <1>8
  <2>2. pos <= S /\ over = IF pos + len > S THEN pos + len - S ELSE 0
    BY <1>3
  <2>3. pos \in Nat /\ over \in Nat /\ len \in Nat /\ S \in Nat
    BY <1>4
  <2> QED
    BY <2>1, <2>2, <2>3
<1>11. Reads(FrontDone(units), base, all, n + Len(f))
  <2>1. FrontDone(units) = Program(Begun, home * S + pos, f)
    BY <1>1, <1>3, <1>6 DEF FrontDone
  <2>2. \A k \in 1..Len(f) : f[k] = all[n + k]
    BY <1>7, <1>8, <1>10
  <2>3. base + n = home * S + pos
    BY <1>1, <1>5
  <2>4. Reads(Program(Begun, home * S + pos, f), base, all, n + Len(f))
    BY <1>9, <1>10, <2>2, <2>3, HeadReads
  <2> QED
    BY <2>1, <2>4
<1>12. ASSUME ~Crosses(units) PROVE Reads(RestDone(units), base, all, Len(all))
  <2>1. RestDone(units) = FrontDone(units)
    BY <1>12 DEF RestDone, NextErased
  <2>2. over = 0
    BY <1>1, <1>12 DEF Crosses
  <2>3. n + Len(f) = Len(all)
    BY <1>7, <1>8, <2>2
  <2> QED
    BY <1>11, <2>1, <2>3
<1>13. ASSUME Crosses(units) PROVE Reads(RestDone(units), base, all, Len(all))
  <2>1. next = home + 1 /\ next \in Sectors /\ over > 0
    <3>1. Following(units) \in Sectors
      BY <1>13, OutcomeParts
    <3>2. over > 0
      BY <1>1, <1>13 DEF Crosses
    <3> QED
      BY <1>13, <3>1, <3>2
  <2>2. pos + len = S + over
    BY <1>3, <1>4, <2>1
  <2>3. next * S = at + S
    BY <1>1, <1>4, <2>1, SectorsAdd
  <2>4. base + (n + Len(f)) = next * S
    <3>1. Len(f) = len - over
      BY <1>8
    <3>2. at + pos = base + n /\ pos + len = S + over /\ next * S = at + S
      BY <1>5, <2>2, <2>3
    <3>3. base + (n + (len - over)) = at + S
      BY <1>4, <3>2
    <3> QED
      BY <3>1, <3>2, <3>3
  <2>5. RestDone(units) = Program(Erase(FrontDone(units), next), next * S, r)
    BY <1>6, <1>13 DEF RestDone, NextErased
  <2>6. FrontDone(units) \in Flash
    BY FlashImages
  <2>7. \A k \in 1..Len(r) : r[k] = all[n + Len(f) + k]
    <3> SUFFICES ASSUME NEW k \in 1..over PROVE r[k] = all[n + Len(f) + k]
      BY <1>8
    <3>1. r[k] = units[len - over + k]
      BY <1>8
    <3>2. len - over + k \in 1..len /\ n + (len - over + k) = n + Len(f) + k
      BY <1>5, <1>8
    <3> QED
      BY <1>7, <3>1, <3>2
  <2>8. n + Len(f) \in Nat /\ Len(r) <= S /\ n + Len(f) + Len(r) = Len(all)
    BY <1>5, <1>7, <1>8, <1>10
  <2>9. Reads(Program(Erase(FrontDone(units), next), next * S, r), base, all, n + Len(f) + Len(r))
    BY <1>11, <2>1, <2>4, <2>6, <2>7, <2>8, TailReads
  <2> QED
    BY <2>5, <2>8, <2>9
<1> QED
  BY <1>1, <1>6, <1>12, <1>13

\* The mark a packet may add, and no other.
LEMMA GrownMarks ==
  ASSUME NInv, OInv, wr.index \in Sectors, NEW units \in Stream, NEW t \in Sectors
  PROVE  Grown(units).table[t] =
           IF Crosses(units) /\ t = Following(units) THEN wr.index + 1 ELSE dir.table[t]
<1>1. CASE Crosses(units)
  <2>1. Following(units) \in Sectors
    BY <1>1, OutcomeParts
  <2>2. Grown(units).table = [dir.table EXCEPT ![Following(units)] = wr.index + 1]
    BY <1>1 DEF Grown, Claim, NInv, DirShape
  <2>3. dir.table \in [Sectors -> Nat]
    BY DEF OInv, Owns
  <2> QED
    BY <1>1, <2>1, <2>2, <2>3
<1>2. CASE ~Crosses(units)
  BY <1>2 DEF Grown
<1> QED
  BY <1>1, <1>2

\* A packet that did not run out of sectors leaves a file being written that
\* lies in flash as Along says, with everything sent so far.
LEMMA FillsTo ==
  ASSUME NInv, OInv, Filling, client.phase = "open", client.kind = "write",
         wr.index \in Sectors, NEW units \in Stream, Len(units) > 0, Len(units) <= S,
         ~Full(units), NEW w, w = After(units), NEW all, all = client.sent \o units,
         NEW g, g = Grown(units)
  PROVE  /\ w.offset = Len(all) /\ w.offset > S * w.sector
         /\ \E current \in Sectors :
              /\ g.table[current] = wr.index + 1
              /\ w.offset >= S * w.sector /\ w.offset <= S * (w.sector + 1)
              /\ w.addr = current * S + (w.offset - S * w.sector)
              /\ Along(g, RestDone(units), w, all, existFlag, current)
<1>1. PICK home \in Sectors, pos \in Nat :
        /\ dir.table[home] = wr.index + 1 /\ Placed(home, pos, units)
        /\ existFlag => pos < S
        /\ Along(dir, Begun, wr, client.sent, existFlag, home)
  BY FillsFrom
<1>2. PICK next, current : /\ next = Following(units)
                           /\ current = IF Crosses(units) THEN next ELSE home
  OBVIOUS
<1>3. /\ current \in Sectors
      /\ w.sector = (IF Crosses(units) THEN wr.sector + 1 ELSE wr.sector)
      /\ g.table[current] = wr.index + 1
      /\ w.offset >= S * w.sector /\ w.offset <= S * (w.sector + 1)
      /\ w.addr = current * S + (w.offset - S * w.sector)
  BY <1>1, <1>2, PositionAfter
<1>4. PICK first, sector, len \in Nat :
        first = dir.info[wr.index].sector /\ sector = wr.sector /\ len = Len(units)
  <2>1. dir.info[wr.index].sector \in Nat
    BY SectorNumbers DEF NInv, DirShape, Entry
  <2>2. wr.sector \in Nat /\ Len(units) \in Nat
    BY DEF NInv, WrShape, WriteState, Stream
  <2> QED
    BY <2>1, <2>2
<1>5. w.index = wr.index /\ w.offset = wr.offset + len /\ g.info = dir.info
  <2>1. w.index = wr.index
    BY OutcomePosition
  <2>2. w.offset = wr.offset + len
    BY <1>4 DEF After, Offset, NInv, WrShape, WriteState
  <2> QED
    BY <2>1, <2>2, PacketOwns
<1>6. wr.offset = Len(client.sent) /\ client.sent \in Stream
  BY DEF Filling, NInv, ClientShape
<1>7. w.offset = Len(all)
  BY <1>4, <1>5, <1>6, BehindSent
<1>8. w.offset > S * w.sector
  <2>1. PICK sec \in Nat : sec = S * sector /\ S * (sector + 1) = sec + S
    <3>1. S \in Nat /\ sector \in Nat
      BY Products
    <3>2. S * sector \in Nat /\ S * (sector + 1) = S * sector + S
      BY <3>1
    <3> QED
      BY <3>2
  <2>2. /\ wr.offset = sec + pos
        /\ Over(units) = IF pos + len > S THEN pos + len - S ELSE 0
    BY <1>1, <1>4, <2>1 DEF Placed
  <2>3. S \in Nat /\ len > 0
    BY <1>4, Products
  <2>4. CASE Crosses(units)
    <3>1. S * w.sector = sec + S /\ Over(units) > 0
      BY <1>3, <1>4, <2>1, <2>4 DEF Crosses
    <3> QED
      BY <1>5, <2>2, <2>3, <3>1
  <2>5. CASE ~Crosses(units)
    <3>1. S * w.sector = sec
      BY <1>3, <1>4, <2>1, <2>5
    <3> QED
      BY <1>5, <2>2, <2>3, <3>1
  <2> QED
    BY <2>4, <2>5
<1>9. /\ home >= first + sector
      /\ existFlag => \/ home = first + sector
                      \/ \E t \in Sectors : /\ t >= first /\ t <= first + sector
                                            /\ dir.table[t] # wr.index + 1
      /\ home = first + sector => Reads(Begun, first * S, client.sent, Len(client.sent))
  BY <1>1, <1>4 DEF Along
<1>10. home \in Nat
  BY SectorNumbers
<1>11. Crosses(units) =>
         /\ next \in Sectors /\ next \in Nat /\ next >= home + 1
         /\ existFlag /\ next # home + 1 =>
              home + 1 \in Sectors /\ dir.table[home + 1] # wr.index + 1
  <2> SUFFICES ASSUME Crosses(units)
               PROVE  /\ next \in Sectors /\ next \in Nat /\ next >= home + 1
                      /\ existFlag /\ next # home + 1 =>
                           home + 1 \in Sectors /\ dir.table[home + 1] # wr.index + 1
    OBVIOUS
  <2>1. next = NextWriteSector(dir, existFlag, wr.index, home * S + pos) /\ next # NotFound
    BY <1>1, <1>2 DEF Crosses, Full, Following, Placed
  <2>2. pos <= S
    BY <1>1 DEF Placed
  <2> HIDE DEF Crosses
  <2>3. /\ next \in Sectors /\ next >= home + 1
        /\ existFlag /\ next # home + 1 =>
             home + 1 \in Sectors /\ dir.table[home + 1] # wr.index + 1
    BY <1>1, <2>1, <2>2, NextIsBeyond
  <2> QED
    BY <2>3, SectorNumbers
<1>12. home = first + sector /\ (Crosses(units) => next = home + 1) =>
         Reads(RestDone(units), first * S, all, Len(all))
  BY <1>1, <1>2, <1>4, <1>6, <1>9, PacketReads
<1>13. /\ current >= first + w.sector
       /\ existFlag => \/ current = first + w.sector
                       \/ \E t \in Sectors : /\ t >= first /\ t <= first + w.sector
                                             /\ g.table[t] # wr.index + 1
       /\ current = first + w.sector => Reads(RestDone(units), first * S, all, Len(all))
  <2>1. CASE Crosses(units)
    <3>1. w.sector = sector + 1 /\ current = next
      BY <1>2, <1>3, <1>4, <2>1
    <3>2. next \in Sectors /\ next \in Nat /\ next >= home + 1
      BY <1>11, <2>1
    <3>3. ASSUME NEW t \in Sectors, t >= first, t <= first + sector + 1, t # next,
                 dir.table[t] # wr.index + 1
          PROVE  \E u \in Sectors : /\ u >= first /\ u <= first + w.sector
                                    /\ g.table[u] # wr.index + 1
      <4>1. g.table[t] # wr.index + 1
        BY <1>2, <3>3, GrownMarks
      <4>2. t <= first + w.sector
        BY <3>1, <3>3
      <4> QED
        BY <3>3, <4>1, <4>2
    <3>4. ASSUME existFlag, current # first + w.sector
          PROVE  \E u \in Sectors : /\ u >= first /\ u <= first + w.sector
                                    /\ g.table[u] # wr.index + 1
      <4>1. CASE home = first + sector
        <5>1. next # home + 1
          <6>1. first + w.sector = home + 1
            BY <3>1, <4>1
          <6> QED
            BY <3>1, <3>4, <6>1
        <5>2. home + 1 \in Sectors /\ dir.table[home + 1] # wr.index + 1
          BY <1>11, <2>1, <3>4, <5>1
        <5>3. home + 1 >= first /\ home + 1 <= first + sector + 1
          BY <4>1
        <5> QED
          BY <3>3, <5>1, <5>2, <5>3
      <4>2. CASE home # first + sector
        <5>1. PICK t \in Sectors : /\ t >= first /\ t <= first + sector
                                   /\ dir.table[t] # wr.index + 1
          BY <1>9, <3>4, <4>2
        <5>2. t \in Nat
          BY SectorNumbers
        <5>3. t <= first + sector + 1 /\ t # next
          <6>1. t <= first + sector /\ home >= first + sector /\ next >= home + 1
            BY <1>9, <3>2, <5>1
          <6>2. first + sector \in Nat /\ next \in Nat
            BY <3>2
          <6> QED
            BY <1>10, <5>2, <6>1, <6>2
        <5> QED
          BY <3>3, <5>1, <5>3
      <4> QED
        BY <4>1, <4>2
    <3>5. current >= first + w.sector
      <4>1. home >= first + sector /\ next >= home + 1 /\ next \in Nat
        BY <1>9, <3>2
      <4>2. next >= first + (sector + 1)
        BY <1>10, <4>1
      <4> QED
        BY <3>1, <4>2
    <3>6. ASSUME current = first + w.sector
          PROVE  Reads(RestDone(units), first * S, all, Len(all))
      <4>1. home = first + sector /\ next = home + 1
        <5>1. next = first + sector + 1
          BY <3>1, <3>6
        <5>2. home >= first + sector
          BY <1>9
        <5> QED
          BY <1>10, <3>2, <5>1, <5>2
      <4> QED
        BY <1>12, <4>1
    <3> QED
      BY <3>4, <3>5, <3>6
  <2>2. CASE ~Crosses(units)
    <3>1. w.sector = sector /\ current = home
      BY <1>2, <1>3, <1>4, <2>2
    <3>2. \A t \in Sectors : g.table[t] = dir.table[t]
      BY <2>2, GrownMarks
    <3> QED
      BY <1>9, <1>12, <2>2, <3>1, <3>2
  <2> QED
    BY <2>1, <2>2
<1>14. Along(g, RestDone(units), w, all, existFlag, current)
  BY <1>4, <1>5, <1>13 DEF Along
<1> QED
  BY <1>3, <1>7, <1>8, <1>14

-----------------------------------------------------------------------------
(***************************************************************************)
(* The last packet of a file.                                              *)
(***************************************************************************)
LEMMA MultipleMod ==
  ASSUME NEW k \in Nat
  PROVE  (S * k) % S = 0
<1> DEFINE a == S * k
           q == a \div S
           r == a % S
<1>1. S \in Nat /\ S > 0
  BY Products
<1>2. a \in Nat /\ a = k * S + 0 /\ k * S \in Nat
  BY <1>1
<1>3. q \in Nat /\ r \in 0..(S - 1) /\ a = q * S + r
  BY <1>2, AddressIs
<1> HIDE DEF q, r, a
<1>4. q * S \in Nat
  BY <1>1, <1>3
<1>5. q < k => q * S + S <= k * S
  BY <1>1, <1>3, SectorsApart
<1>6. k < q => k * S + S <= q * S
  BY <1>1, <1>3, SectorsApart
<1>7. q = k => q * S = k * S
  OBVIOUS
<1> DEFINE x == q * S
           y == k * S
<1>8. r = 0
  <2>1. x \in Nat /\ y \in Nat /\ a = x + r /\ a = y /\ (q < k => x + S <= y)
        /\ (k < q => y + S <= x) /\ (q = k => x = y)
    BY <1>2, <1>3, <1>4, <1>5, <1>6, <1>7
  <2> HIDE DEF x, y
  <2> QED
    BY <1>1, <1>3, <2>1
<1> QED
  BY <1>8 DEF r, a

LEMMA CeilIs ==
  ASSUME NEW k \in Nat, NEW size \in Nat, size > S * k, size <= S * (k + 1)
  PROVE  CeilSectors(size) = k + 1
<1> DEFINE a == size + S - 1
           b == (k + 1) * S
<1>1. S \in Nat /\ S > 0 /\ k + 1 \in Nat
  BY Products
<1>2. b = S * k + S /\ b = S * (k + 1) /\ b \in Nat /\ S * k \in Nat
  BY <1>1, SMTT(30)
<1> HIDE DEF b
<1>3. a \in Nat /\ a >= b /\ a < b + S
  BY <1>1, <1>2
<1> HIDE DEF a
<1>4. a \div S <= k + 1 /\ a \div S >= k + 1 /\ a \div S \in Nat
  BY <1>1, <1>3, SectorOf, AddressIs DEF b
<1>5. CeilSectors(size) = a \div S
  BY DEF CeilSectors, a
<1>6. a \div S = k + 1
  BY <1>1, <1>4
<1> QED
  BY <1>5, <1>6

\* OneRun, of any directory.
Marks(d, i) == {s \in Sectors : d.table[s] = i + 1}
RunIn(d, i) ==
  Marks(d, i) = d.info[i].sector .. (d.info[i].sector + CeilSectors(d.info[i].size) - 1)

\* The directory a packet leaves, entry by entry and mark by mark.
LEMMA FinalIs ==
  ASSUME NInv, OInv, client.phase = "open", client.kind = "write", wr.index \in Sectors,
         NEW units \in Stream, NEW more \in BOOLEAN, Commits(units, more),
         NEW e, e = Final(units, more), NEW g, g = Grown(units)
  PROVE  /\ e.total = IF existFlag THEN dir.total ELSE dir.total + 1
         /\ \A i \in Sectors : i # wr.index => e.info[i] = dir.info[i]
         /\ e.info[wr.index].sector = dir.info[wr.index].sector
         /\ e.info[wr.index].size = After(units).offset
         /\ \A t \in Sectors : /\ ~existFlag => e.table[t] = g.table[t]
                               /\ e.table[t] # g.table[t] =>
                                    e.table[t] = 0 /\ g.table[t] = wr.index + 1
<1> DEFINE surplus == IF existFlag THEN Surplus(g, wr.index, Offset(units)) ELSE {}
           crc == wr.crc \o units
<1>1. e = Commit(g, fileNum, existFlag, wr.index, Offset(units), crc)
  BY DEF Final
<1>2. /\ e.total = IF existFlag THEN fileNum ELSE fileNum + 1
      /\ e.table = [s \in Sectors |-> IF s \in surplus THEN 0 ELSE g.table[s]]
      /\ e.info = [g.info EXCEPT ![wr.index].size = Offset(units), ![wr.index].crc = crc]
  BY <1>1 DEF Commit
<1>3. g.info = dir.info /\ dir.info \in [Sectors -> Entry] /\ fileNum = dir.total
  BY PacketOwns DEF NInv, DirShape
<1>4. After(units).offset = Offset(units)
  BY DEF After, NInv, WrShape, WriteState
<1>5. \A t \in surplus : existFlag /\ g.table[t] = wr.index + 1
  BY DEF Surplus
<1> HIDE DEF surplus, crc
<1>6. \A t \in Sectors : /\ ~existFlag => e.table[t] = g.table[t]
                         /\ e.table[t] # g.table[t] =>
                              e.table[t] = 0 /\ g.table[t] = wr.index + 1
  BY <1>2, <1>5
<1>7. /\ \A i \in Sectors : i # wr.index => e.info[i] = dir.info[i]
      /\ e.info[wr.index].sector = dir.info[wr.index].sector
      /\ e.info[wr.index].size = Offset(units)
  BY <1>2, <1>3 DEF Entry
<1> QED
  BY <1>2, <1>3, <1>4, <1>6, <1>7

\* If the sectors marked for the file are one run when it is complete, it reads
\* back as everything sent.
LEMMA CommitReads ==
  ASSUME NInv, OInv, Filling, client.phase = "open", client.kind = "write",
         wr.index \in Sectors, NEW units \in Stream, Len(units) > 0, Len(units) <= S,
         NEW more \in BOOLEAN, Commits(units, more), NEW e, e = Final(units, more),
         RunIn(e, wr.index), NEW all, all = client.sent \o units
  PROVE  ReadBack(RestDone(units), e.info[wr.index]) = all
<1>1. PICK w, g : w = After(units) /\ g = Grown(units)
  OBVIOUS
<1>2. ~Full(units) /\ existFlag \in BOOLEAN
  BY DEF Commits, NInv
<1>3. /\ w.offset = Len(all) /\ w.offset > S * w.sector
      /\ \E current \in Sectors :
           /\ g.table[current] = wr.index + 1
           /\ w.offset >= S * w.sector /\ w.offset <= S * (w.sector + 1)
           /\ w.addr = current * S + (w.offset - S * w.sector)
           /\ Along(g, RestDone(units), w, all, existFlag, current)
  BY <1>1, <1>2, FillsTo
<1>4. PICK current \in Sectors : /\ g.table[current] = wr.index + 1
                                 /\ w.offset <= S * (w.sector + 1)
                                 /\ Along(g, RestDone(units), w, all, existFlag, current)
  BY <1>3
<1>5. /\ e.info[wr.index].sector = dir.info[wr.index].sector
      /\ e.info[wr.index].size = w.offset
      /\ \A t \in Sectors : /\ ~existFlag => e.table[t] = g.table[t]
                            /\ e.table[t] # g.table[t] =>
                                 e.table[t] = 0 /\ g.table[t] = wr.index + 1
  BY <1>1, FinalIs
<1>6. w.index = wr.index /\ w.sector \in Nat /\ w.offset \in Nat /\ g.info = dir.info
  BY <1>1, OutcomePosition, PacketOwns DEF WriteState
<1>7. PICK first \in Nat : first = dir.info[wr.index].sector
  BY SectorNumbers DEF NInv, DirShape, Entry
<1>8. Marks(e, wr.index) = first .. (first + w.sector)
  <2>1. CeilSectors(w.offset) = w.sector + 1
    BY <1>3, <1>4, <1>6, CeilIs
  <2>2. first + (w.sector + 1) - 1 = first + w.sector
    BY <1>6
  <2>3. Marks(e, wr.index) = first .. (first + (w.sector + 1) - 1)
    BY <1>5, <1>7, <2>1 DEF RunIn
  <2> QED
    BY <2>2, <2>3
<1>9. /\ current >= first + w.sector
      /\ existFlag => \/ current = first + w.sector
                      \/ \E t \in Sectors : /\ t >= first /\ t <= first + w.sector
                                            /\ g.table[t] # wr.index + 1
      /\ current = first + w.sector => Reads(RestDone(units), first * S, all, Len(all))
  BY <1>4, <1>6, <1>7 DEF Along
<1>10. wr.index \in Nat /\ current \in Nat
  BY SectorNumbers
<1>11. current = first + w.sector
  <2>1. CASE existFlag
    <3> SUFFICES ASSUME current # first + w.sector PROVE FALSE
      OBVIOUS
    <3>1. PICK t \in Sectors : /\ t >= first /\ t <= first + w.sector
                               /\ g.table[t] # wr.index + 1
      BY <1>9, <2>1
    <3>2. t \in Nat
      BY SectorNumbers
    <3>3. t \in Marks(e, wr.index)
      BY <1>6, <1>8, <3>1, <3>2
    <3>4. e.table[t] = wr.index + 1
      BY <3>3 DEF Marks
    <3> QED
      BY <1>5, <3>1, <3>4
  <2>2. CASE ~existFlag
    <3>1. current \in Marks(e, wr.index)
      BY <1>4, <1>5, <2>2 DEF Marks
    <3>2. current <= first + w.sector
      BY <1>8, <3>1
    <3> QED
      <4>1. first + w.sector \in Nat /\ current >= first + w.sector
        BY <1>6, <1>9
      <4> QED
        BY <1>10, <3>2, <4>1
  <2> QED
    BY <2>1, <2>2
<1>12. Reads(RestDone(units), first * S, all, Len(all))
  BY <1>9, <1>11
<1>13. all \in Stream
  BY BehindSent DEF NInv, ClientShape
<1>14. ReadBack(RestDone(units), e.info[wr.index]) =
         [k \in 1..Len(all) |-> UnitAt(RestDone(units), first * S + k - 1)]
  BY <1>3, <1>5, <1>7 DEF ReadBack
<1>15. all = [k \in 1..Len(all) |-> all[k]]
  <2>1. all \in [1..Len(all) -> Nat \X Nat]
    BY <1>13, LenProperties DEF Stream
  <2> QED
    BY <2>1
<1> QED
  BY <1>12, <1>14, <1>15 DEF Reads

-----------------------------------------------------------------------------
(***************************************************************************)
(* The files that are not being written.                                   *)
(***************************************************************************)
LEMMA AddFileMarks ==
  ASSUME NInv, OInv, NEW name \in Names, NEW add, add = AddFile(name),
         NEW i \in Sectors, i < dir.total
  PROVE  Marks(add.dir, i) = Marks(dir, i)
<1> DEFINE found == FindFile(dir, fileNum, name)
           free == FirstAt(dir.table, 0, 0)
           idx == dir.total
           refused == [index |-> NotFound, dir |-> dir, exist |-> existFlag]
           claimed == Claim(dir, free, idx)
           filled == [claimed EXCEPT !.info[idx] =
                        [@ EXCEPT !.name = name, !.sector = free, !.size = 0]]
<1>1. \/ add = refused
      \/ found # NotFound /\ add = [refused EXCEPT !.index = found, !.exist = TRUE]
      \/ free # NotFound /\ add = [index |-> idx, dir |-> filled, exist |-> FALSE]
  BY SectorNumbers DEF AddFile
<1>2. free # NotFound => free \in Sectors /\ dir.table[free] = 0
  BY FirstAtFinds
<1>3. dir = [total |-> dir.total, occupy |-> dir.occupy, table |-> dir.table, info |-> dir.info]
      /\ dir.table \in [Sectors -> Nat] /\ idx \in Nat
  BY SectorNumbers DEF NInv, DirShape, OInv, Owns
<1> HIDE DEF found, free
<1>4. CASE add = refused
  BY <1>4
<1>5. CASE found # NotFound /\ add = [refused EXCEPT !.index = found, !.exist = TRUE]
  BY <1>5
<1>6. CASE free # NotFound /\ add = [index |-> idx, dir |-> filled, exist |-> FALSE]
  <2>1. claimed = [total |-> dir.total, occupy |-> dir.occupy,
                   table |-> [dir.table EXCEPT ![free] = idx + 1], info |-> dir.info]
    BY <1>3 DEF Claim
  <2>2. add.dir.table = [dir.table EXCEPT ![free] = idx + 1]
    <3> HIDE DEF claimed
    <3>1. filled.table = claimed.table
      BY <2>1
    <3> QED
      BY <1>6, <2>1, <3>1
  <2>3. i \in Nat /\ i # idx
    BY SectorNumbers, <1>3
  <2>4. \A s \in Sectors : add.dir.table[s] = i + 1 <=> dir.table[s] = i + 1
    <3> SUFFICES ASSUME NEW s \in Sectors
                 PROVE  add.dir.table[s] = i + 1 <=> dir.table[s] = i + 1
      OBVIOUS
    <3>1. CASE s = free
      <4>1. add.dir.table[s] = idx + 1 /\ dir.table[s] = 0
        BY <1>2, <1>3, <1>6, <2>2, <3>1
      <4> QED
        BY <1>3, <2>3, <4>1
    <3>2. CASE s # free
      BY <1>3, <2>2, <3>2
    <3> QED
      BY <3>1, <3>2
  <2> QED
    BY <2>4 DEF Marks
<1> QED
  BY <1>1, <1>4, <1>5, <1>6

\* A packet changes neither the entry nor the marks of another listed file, and
\* lists no other file.
LEMMA ForeignEntry ==
  ASSUME NInv, OInv, client.phase = "open", client.kind = "write", wr.index \in Sectors,
         NEW units \in Stream, NEW more \in BOOLEAN,
         NEW e \in {dir, Grown(units), Final(units, more)},
         NEW i \in Sectors, i < e.total, i # wr.index
  PROVE  i < dir.total /\ e.info[i] = dir.info[i] /\ Marks(e, i) = Marks(dir, i)
<1> DEFINE g == Grown(units)
<1>1. i \in Nat /\ wr.index \in Nat /\ dir.total \in Nat
  BY SectorNumbers DEF NInv, DirShape
<1>2. g.total = dir.total /\ g.info = dir.info
  BY GrownNames
<1>3. Marks(g, i) = Marks(dir, i)
  <2>1. \A t \in Sectors : g.table[t] = i + 1 <=> dir.table[t] = i + 1
    <3> SUFFICES ASSUME NEW t \in Sectors PROVE g.table[t] = i + 1 <=> dir.table[t] = i + 1
      OBVIOUS
    <3>1. g.table[t] = IF Crosses(units) /\ t = Following(units) THEN wr.index + 1
                       ELSE dir.table[t]
      BY GrownMarks
    <3>2. Crosses(units) => dir.table[Following(units)] \in {0, wr.index + 1}
      BY OutcomeParts
    <3> HIDE DEF g
    <3> QED
      BY <1>1, <3>1, <3>2
  <2> HIDE DEF g
  <2> QED
    BY <2>1 DEF Marks
<1>4. CASE e = dir
  BY <1>4
<1>5. CASE e = g
  BY <1>2, <1>3, <1>5
<1>6. CASE e = Final(units, more) /\ ~Commits(units, more)
  <2>1. e = g
    BY <1>6 DEF Final
  <2> QED
    BY <1>5, <2>1
<1>7. CASE e = Final(units, more) /\ Commits(units, more)
  <2> HIDE DEF g
  <2>1. /\ e.total = (IF existFlag THEN dir.total ELSE dir.total + 1)
        /\ e.info[i] = dir.info[i]
        /\ \A t \in Sectors : e.table[t] # g.table[t] =>
                                 e.table[t] = 0 /\ g.table[t] = wr.index + 1
    BY <1>7, FinalIs DEF g
  <2>2. i < dir.total
    <3>1. ~existFlag => wr.index = dir.total
      BY DEF NInv, Opened
    <3> QED
      BY <1>1, <2>1, <3>1
  <2>3. \A t \in Sectors : e.table[t] = i + 1 <=> g.table[t] = i + 1
    BY <1>1, <2>1
  <2>4. Marks(e, i) = Marks(g, i)
    BY <2>3 DEF Marks
  <2> QED
    BY <1>3, <2>1, <2>2, <2>4
<1> QED
  BY <1>4, <1>5, <1>6, <1>7

\* What the master was told is stored in one run of sectors reads back.
Promised(i) ==
  /\ i < dir.total /\ dir.info[i].name \in Names /\ acked[dir.info[i].name] # None
  /\ ~Writing(dir.info[i].name)
  /\ RunIn(dir, i)

Stored ==
  \A i \in Sectors : Promised(i) => ReadBack(data, dir.info[i]) = acked[dir.info[i].name]

LEMMA StoredStays ==
  ASSUME NInv, Stored, Kept, NEW i \in Sectors, Promised(i)',
         i < dir.total, dir'.info[i] = dir.info[i], Marks(dir', i) = Marks(dir, i),
         acked'[dir.info[i].name] = acked[dir.info[i].name], ~Writing(dir.info[i].name),
         i # wr.index \/ data' = data
  PROVE  ReadBack(data', dir'.info[i]) = acked'[dir'.info[i].name]
<1>1. RunIn(dir, i)
  BY DEF Promised, RunIn, Marks
<1>2. Promised(i)
  BY <1>1 DEF Promised
<1>3. ReadBack(data, dir.info[i]) = acked[dir.info[i].name]
  BY <1>2 DEF Stored
<1>4. OneRun(i)
  BY <1>1 DEF RunIn, Marks, OneRun, FileSectors
<1>5. ReadBack(data', dir.info[i]) = ReadBack(data, dir.info[i])
  BY <1>4, ReadsStay
<1> QED
  BY <1>3, <1>5

\* A transfer that ends without a promise leaves what was promised before.
LEMMA StoredWithout ==
  ASSUME NInv, OInv, AInv, Stored, Kept, client.phase = "open", client.kind = "write",
         wr.index \in Sectors, client' = Idle, acked' = [acked EXCEPT ![client.name] = None],
         NEW units \in Stream, NEW more \in BOOLEAN,
         dir' \in {dir, Grown(units), Final(units, more)}
  PROVE  Stored'
<1> SUFFICES ASSUME NEW i \in Sectors, Promised(i)'
             PROVE  ReadBack(data', dir'.info[i]) = acked'[dir'.info[i].name]
  BY DEF Stored
<1>1. i < dir'.total /\ dir'.info[i].name \in Names /\ acked'[dir'.info[i].name] # None
  BY DEF Promised
<1>2. dir'.info[i].name # client.name /\ acked'[dir'.info[i].name] = acked[dir'.info[i].name]
  BY <1>1 DEF AInv
<1>3. dir.info[wr.index].name = client.name /\ dir'.info[wr.index].name = client.name
  <2>1. dir.info[wr.index].name = client.name
    BY DEF NInv, Opened
  <2>2. Grown(units).info = dir.info
    BY GrownNames
  <2>3. Final(units, more).info[wr.index].name = client.name
    <3>1. CASE Commits(units, more)
      <4>1. Final(units, more).info =
              [Grown(units).info EXCEPT ![wr.index].size = Offset(units),
                                        ![wr.index].crc = wr.crc \o units]
        BY <3>1 DEF Final, Commit
      <4>2. dir.info \in [Sectors -> Entry]
        BY DEF NInv, DirShape
      <4> QED
        BY <2>1, <2>2, <4>1, <4>2 DEF Entry
    <3>2. CASE ~Commits(units, more)
      BY <2>1, <2>2, <3>2 DEF Final
    <3> QED
      BY <3>1, <3>2
  <2> QED
    BY <2>1, <2>2, <2>3
<1>4. i # wr.index
  BY <1>2, <1>3
<1>5. i < dir.total /\ dir'.info[i] = dir.info[i] /\ Marks(dir', i) = Marks(dir, i)
  BY <1>1, <1>4, ForeignEntry
<1>6. ~Writing(dir.info[i].name)
  BY <1>2, <1>5 DEF Writing
<1> QED
  BY <1>2, <1>4, <1>5, <1>6, StoredStays

-----------------------------------------------------------------------------
(***************************************************************************)
(* One lemma for each handler.                                             *)
(***************************************************************************)
LEMMA SessionEndsFilling ==
  ASSUME client'.phase # "open" \/ client'.kind # "write"
  PROVE  Filling'
BY DEF Filling

\* A step that leaves the files, the promises and the session of a write alone.
LEMMA NothingStored ==
  ASSUME Stored, UNCHANGED <<data, dir, acked>>, client.phase # "open" \/ client.kind # "write"
  PROVE  Stored'
<1>1. \A n : ~Writing(n)
  BY DEF Writing
<1>2. \A i : Promised(i)' => Promised(i)
  BY <1>1 DEF Promised, RunIn, Marks
<1> QED
  BY <1>2 DEF Stored, ReadBack

LEMMA OpenReads ==
  ASSUME NInv, OInv, AInv, Filling, Stored, OnlyWrites, NEW name \in Names,
         NEW kind \in {"write", "delete"}, OpenFile(name, kind)
  PROVE  Filling' /\ Stored'
<1> DEFINE add == AddFile(name)
<1>1. /\ dir' = add.dir /\ wr' = Fresh(add.index) /\ acked' = acked /\ data' = data
      /\ client' = IF add.index = NotFound THEN Idle
                   ELSE [phase |-> "open", kind |-> kind, name |-> name, sent |-> <<>>]
      /\ client.phase = "idle"
  BY DEF OpenFile, Ready, flashVars
<1>2. /\ add.index \in Sectors \cup {NotFound} /\ add.dir.total = dir.total
      /\ \A i \in Sectors : i < dir.total => add.dir.info[i] = dir.info[i]
  BY AddFileNames
<1>3. \A i \in Sectors : i < dir.total => Marks(add.dir, i) = Marks(dir, i)
  BY AddFileMarks
<1> HIDE DEF add
<1>4. wr'.firstIn /\ wr'.offset = 0
  BY <1>1, <1>2, FreshShape DEF NInv
<1>5. client'.phase = "open" => client'.sent = <<>>
  BY <1>1 DEF Idle
<1>6. Filling'
  <2>1. Len(<<>>) = 0
    OBVIOUS
  <2> QED
    BY <1>4, <1>5, <2>1 DEF Filling
<1>7. Kept
  BY <1>1 DEF Kept
<1>8. ASSUME NEW i \in Sectors, Promised(i)'
      PROVE  ReadBack(data', dir'.info[i]) = acked'[dir'.info[i].name]
  <2>1. i < dir.total
    BY <1>1, <1>2, <1>8 DEF Promised
  <2>2. dir'.info[i] = dir.info[i] /\ Marks(dir', i) = Marks(dir, i)
    BY <1>1, <1>2, <1>3, <2>1
  <2>3. ~Writing(dir.info[i].name)
    BY <1>1 DEF Writing
  <2> QED
    BY <1>1, <1>7, <1>8, <2>1, <2>2, <2>3, StoredStays
<1> QED
  BY <1>6, <1>8 DEF Stored

LEMMA FailedDataWriteReads ==
  ASSUME NInv, OInv, AInv, Stored, NEW size \in 1..MaxPacket, NEW more \in BOOLEAN,
         FailedDataWrite(size, more)
  PROVE  Filling' /\ Stored'
<1> DEFINE units == Packet(size)
           out == WriteOutcome(units, more)
<1>1. /\ Rejected /\ WritesData(size, more) /\ dir' \in {dir, out.grown, out.dir}
  BY DEF FailedDataWrite
<1>2. /\ client.phase = "open" /\ client.kind = "write" /\ wr.index \in Sectors
      /\ units \in Stream
  BY <1>1, WritingPacket
<1> HIDE DEF units
<1>3. out.dir = Final(units, more) /\ out.grown = Grown(units)
  BY OutcomeIs, Zenon
<1> HIDE DEF out
<1>4. dir' \in {dir, Grown(units), Final(units, more)}
  BY <1>1, <1>3
<1>5. client' = Idle /\ acked' = [acked EXCEPT ![client.name] = None]
  BY <1>1, <1>2 DEF Rejected
<1>6. Stored'
  BY <1>2, <1>4, <1>5, FailedDataWriteOwns, StoredWithout
<1> QED
  BY <1>5, <1>6, SessionEndsFilling DEF Idle

\* A packet with more to follow does not end a rewritten file at the boundary
\* of a sector.
LEMMA NotAtBoundary ==
  ASSUME NInv, Filling, "aligned" \notin Ops, NEW size \in 1..MaxPacket, Sends(size, TRUE),
         existFlag, client.phase = "open", client.kind = "write", wr.index \in Sectors,
         NEW k \in Nat
  PROVE  wr.offset + size # S * (k + 1)
<1>1. ~((Len(client.sent) + size) % S = 0)
  BY SectorNumbers DEF Sends, Rewriting
<1>2. wr.offset = Len(client.sent)
  BY DEF Filling
<1>3. k + 1 \in Nat
  OBVIOUS
<1>4. (S * (k + 1)) % S = 0
  BY <1>3, MultipleMod
<1> QED
  BY <1>1, <1>2, <1>4

LEMMA DataPacketReads ==
  ASSUME NInv, OInv, AInv, Filling, Stored, "aligned" \notin Ops,
         NEW size \in 1..MaxPacket, NEW more \in BOOLEAN, DataPacket(size, more)
  PROVE  Filling' /\ Stored'
<1> DEFINE units == Packet(size)
           out == WriteOutcome(units, more)
           sent == client.sent \o units
<1>1. /\ dir' = out.dir /\ wr' = out.wr /\ data' = out.images[4]
      /\ IF out.full THEN Rejected ELSE Accepted(size, more)
      /\ existFlag' = (IF out.commits THEN FALSE ELSE existFlag)
      /\ WritesData(size, more) /\ transfers' = transfers
  BY DEF DataPacket
<1>2. /\ client.phase = "open" /\ client.kind = "write" /\ wr.index \in Sectors
      /\ units \in Stream /\ Len(units) <= S
  BY <1>1, WritingPacket
<1>3. Len(units) = size /\ size \in Nat /\ size > 0
  BY PacketSize, PacketStream DEF NInv
<1>4. Accepted(size, more) =>
        IF more THEN client' = [client EXCEPT !.sent = sent] /\ acked' = acked
        ELSE client' = Idle /\ acked' = [acked EXCEPT ![client.name] = sent]
  BY <1>2 DEF Accepted
<1> HIDE DEF units
<1>5. /\ out.full = Full(units) /\ out.commits = Commits(units, more)
      /\ out.dir = Final(units, more) /\ out.wr = After(units)
  BY OutcomeIs, Zenon
<1>6. out.images = <<Begun, FrontDone(units), NextErased(units), RestDone(units)>>
  BY ImagesAre, Zenon
<1> HIDE DEF out, sent
<1>7. data' = RestDone(units) /\ dir' = Final(units, more) /\ wr' = After(units)
  BY <1>1, <1>5, <1>6
<1>8. Kept
  BY DataPacketOwns
<1>9. dir.info[wr.index].name = client.name /\ client.name \in Names
  BY <1>2 DEF NInv, Opened
<1>10. CASE Full(units)
  <2>1. client' = Idle /\ acked' = [acked EXCEPT ![client.name] = None]
    BY <1>1, <1>2, <1>5, <1>10 DEF Rejected
  <2>2. Stored'
    BY <1>2, <1>7, <1>8, <2>1, StoredWithout
  <2> QED
    BY <2>1, <2>2, SessionEndsFilling DEF Idle
<1>11. CASE ~Full(units) /\ more
  <2>1. Accepted(size, more) /\ ~Commits(units, more)
    BY <1>1, <1>5, <1>11 DEF Commits
  <2>2. /\ client' = [client EXCEPT !.sent = sent] /\ acked' = acked /\ existFlag' = existFlag
        /\ dir' = Grown(units)
    BY <1>1, <1>4, <1>5, <1>7, <1>11, <2>1 DEF Final
  <2>3. /\ client'.phase = "open" /\ client'.kind = "write" /\ client'.name = client.name
        /\ client'.sent = sent
    BY <1>2, <2>2 DEF NInv, ClientShape
  <2>4. /\ wr'.offset = Len(sent) /\ wr'.offset > S * wr'.sector
        /\ \E current \in Sectors :
             /\ dir'.table[current] = wr.index + 1
             /\ wr'.offset >= S * wr'.sector /\ wr'.offset <= S * (wr'.sector + 1)
             /\ wr'.addr = current * S + (wr'.offset - S * wr'.sector)
             /\ Along(dir', data', wr', sent, existFlag, current)
    BY <1>2, <1>3, <1>7, <1>11, <2>2, FillsTo DEF sent
  <2>5. wr'.index = wr.index /\ wr'.sector \in Nat /\ wr'.offset = wr.offset + size
        /\ wr'.offset \in Nat
    <3>1. After(units).index = wr.index /\ After(units) \in WriteState
      BY <1>2, OutcomePosition
    <3>2. After(units).offset = wr.offset + size
      BY <1>3 DEF After, Offset, NInv, WrShape, WriteState
    <3> QED
      BY <1>7, <3>1, <3>2 DEF WriteState
  <2>6. existFlag => wr'.offset < S * (wr'.sector + 1)
    <3>1. ASSUME existFlag PROVE wr.offset + size # S * (wr'.sector + 1)
      <4>1. Sends(size, TRUE)
        BY <1>1, <1>11 DEF WritesData
      <4> QED
        BY <1>2, <2>5, <3>1, <4>1, NotAtBoundary
    <3>2. wr'.offset <= S * (wr'.sector + 1)
      BY <2>4
    <3>3. S * (wr'.sector + 1) \in Nat
      BY <2>5, Products
    <3> QED
      BY <2>5, <3>1, <3>2, <3>3
  <2>7. Filling'
    <3>1. PICK current \in Sectors :
            /\ dir'.table[current] = wr'.index + 1
            /\ wr'.offset >= S * wr'.sector /\ wr'.offset <= S * (wr'.sector + 1)
            /\ wr'.addr = current * S + (wr'.offset - S * wr'.sector)
            /\ Along(dir', data', wr', client'.sent, existFlag', current)
      BY <2>2, <2>3, <2>4, <2>5
    <3>2. At(current)'
      BY <3>1, Zenon DEF At, InSector
    <3>3. Along(dir, data, wr, client.sent, existFlag, current)'
      BY <3>1, Zenon DEF Along, Reads, UnitAt
    <3>4. wr'.offset = Len(client'.sent) /\ (existFlag' => wr'.offset < S * (wr'.sector + 1))
      BY <2>2, <2>3, <2>4, <2>6
    <3> QED
      BY <3>2, <3>3, <3>4, Zenon DEF Filling
  <2>8. ASSUME NEW i \in Sectors, Promised(i)'
        PROVE  ReadBack(data', dir'.info[i]) = acked'[dir'.info[i].name]
    <3>1. dir'.info = dir.info
      BY <1>2, <2>2, GrownNames
    <3>2. i < dir'.total /\ dir.info[i].name # client.name
      BY <2>3, <2>8, <3>1 DEF Promised, Writing
    <3>3. i # wr.index
      BY <1>9, <3>2
    <3>4. i < dir.total /\ dir'.info[i] = dir.info[i] /\ Marks(dir', i) = Marks(dir, i)
      BY <1>2, <2>2, <3>2, <3>3, ForeignEntry
    <3>5. ~Writing(dir.info[i].name)
      BY <3>2 DEF Writing
    <3> QED
      BY <1>8, <2>2, <2>8, <3>3, <3>4, <3>5, StoredStays
  <2> QED
    BY <2>7, <2>8 DEF Stored
<1>12. CASE ~Full(units) /\ ~more
  <2>1. Accepted(size, more) /\ Commits(units, more)
    BY <1>1, <1>5, <1>12 DEF Commits
  <2>2. client' = Idle /\ acked' = [acked EXCEPT ![client.name] = sent]
    BY <1>4, <1>12, <2>1
  <2>3. DOMAIN acked = Names
    BY DEF AInv
  <2>4. ASSUME NEW i \in Sectors, Promised(i)', i # wr.index
        PROVE  ReadBack(data', dir'.info[i]) = acked'[dir'.info[i].name]
    <3>1. i < dir'.total
      BY <2>4 DEF Promised
    <3>2. i < dir.total /\ dir'.info[i] = dir.info[i] /\ Marks(dir', i) = Marks(dir, i)
      BY <1>2, <1>7, <2>4, <3>1, ForeignEntry
    <3>3. dir.info[i].name # client.name
      BY <1>2, <1>9, <2>4, <3>2 DEF NInv, Opened, UniqueIn
    <3>4. acked'[dir.info[i].name] = acked[dir.info[i].name]
      BY <2>2, <3>3 DEF AInv
    <3>5. ~Writing(dir.info[i].name)
      BY <3>3 DEF Writing
    <3> QED
      BY <1>8, <2>4, <3>2, <3>4, <3>5, StoredStays
  <2>5. ASSUME NEW i \in Sectors, Promised(i)', i = wr.index
        PROVE  ReadBack(data', dir'.info[i]) = acked'[dir'.info[i].name]
    <3>1. RunIn(dir', i)
      BY <2>5 DEF Promised, RunIn, Marks
    <3>2. ReadBack(data', dir'.info[i]) = sent
      BY <1>2, <1>3, <1>7, <2>1, <2>5, <3>1, CommitReads DEF sent
    <3>3. dir'.info[wr.index].name = client.name
      <4>1. dir'.info = [Grown(units).info EXCEPT ![wr.index].size = Offset(units),
                                                  ![wr.index].crc = wr.crc \o units]
        BY <1>7, <2>1 DEF Final, Commit
      <4>2. Grown(units).info = dir.info /\ dir.info \in [Sectors -> Entry]
        BY <1>2, GrownNames DEF NInv, DirShape
      <4> QED
        BY <1>2, <1>9, <4>1, <4>2 DEF Entry
    <3>4. acked'[client.name] = sent
      BY <1>9, <2>2, <2>3
    <3> QED
      BY <2>5, <3>2, <3>3, <3>4
  <2>6. Stored'
    BY <2>4, <2>5 DEF Stored
  <2> QED
    BY <2>2, <2>6, SessionEndsFilling DEF Idle
<1> QED
  BY <1>10, <1>11, <1>12

LEMMA OtherReads ==
  ASSUME NInv, OInv, AInv, Filling, Stored, OnlyWrites,
         NEW size \in 0..MaxPacket, NEW more \in BOOLEAN,
         \/ RefuseName \/ OpenFormat \/ SwallowPacket(size, more)
         \/ DeletePacket \/ FailedDelete \/ DeleteFaults \/ SwallowEmptyPacket
         \/ Abort \/ Restart \/ PowerFailsInPacket(size, more) \/ PowerFailsInDelete
         \/ OpenFirmware \/ HeaderRefused(size, more) \/ ProgramFirmware(size, more)
         \/ PowerFailsInFirmware(size, more) \/ AbortFirmware \/ SwitchMode
  PROVE  Filling' /\ Stored'
<1>1. CASE OpenFormat \/ Restart \/ PowerFailsInPacket(size, more)
           \/ PowerFailsInDelete \/ PowerFailsInFirmware(size, more)
  BY <1>1 DEF OpenFormat, Restart, PowerFailsInPacket, PowerFailsInDelete,
              PowerFailsInFirmware, OnlyWrites, AInv
<1>2. CASE SwallowPacket(size, more) \/ SwallowEmptyPacket
  BY <1>2 DEF SwallowPacket, SwallowEmptyPacket, AInv
<1>3. CASE DeletePacket \/ FailedDelete \/ DeleteFaults
  BY <1>3 DEF DeletePacket, FailedDelete, DeleteFaults, DeletesFile, AInv
<1>4. CASE RefuseName
  <2>1. UNCHANGED <<data, dir, acked, client>> /\ client.phase = "idle"
    BY <1>4 DEF RefuseName, flashVars, clientVars, Ready
  <2> QED
    BY <2>1, NothingStored, SessionEndsFilling
<1>5. CASE Abort
  <2>1. /\ client.phase = "open" /\ ~bBootMode /\ Rejected
        /\ dir' = dir /\ data' = data
    BY <1>5 DEF Abort, ramVars, flashVars
  <2>2. client.kind = "write"
    BY <2>1 DEF AInv, NInv, Opened
  <2>3. wr.index \in Sectors /\ client' = Idle
        /\ acked' = [acked EXCEPT ![client.name] = None]
    BY <2>1, <2>2 DEF NInv, Opened, Rejected
  <2>4. <<>> \in Stream /\ TRUE \in BOOLEAN
    BY DEF Stream
  <2>5. Stored'
    BY <2>1, <2>2, <2>3, <2>4, StoredWithout DEF Kept
  <2> QED
    BY <2>3, <2>5, SessionEndsFilling DEF Idle
<1>6. CASE OpenFirmware
  <2>1. /\ UNCHANGED <<data, dir, acked>> /\ client.phase = "idle"
        /\ \/ client' = [phase |-> "open", kind |-> "firmware", name |-> NoName, sent |-> <<>>]
           \/ client' = client
    BY <1>6 DEF OpenFirmware, fileVars, Ready
  <2>2. client'.phase # "open" \/ client'.kind # "write"
    BY <2>1
  <2> QED
    BY <2>1, <2>2, NothingStored, SessionEndsFilling
<1>7. CASE HeaderRefused(size, more) \/ AbortFirmware
  <2>1. /\ UNCHANGED <<data, dir, acked>> /\ client' = Idle
        /\ client.kind \in {"format", "firmware"}
    BY <1>7, UpdateKind DEF HeaderRefused, AbortFirmware, SessionEnds, fileVars
  <2> QED
    BY <2>1, NothingStored, SessionEndsFilling DEF Idle
<1>8. CASE ProgramFirmware(size, more)
  <2>1. /\ UNCHANGED <<data, dir>> /\ transfers' = transfers
        /\ client.kind \in {"format", "firmware"}
        /\ Accepted(size, more) \/ (client' = Idle /\ acked' = acked)
    BY <1>8, UpdateKind DEF ProgramFirmware, SessionEnds, fileVars
  <2>2. acked' = acked
    BY <2>1 DEF Accepted
  <2>3. client' = Idle \/ client'.kind \in {"format", "firmware"}
    BY <2>1, PacketSize, AcceptedShape DEF NInv
  <2> QED
    BY <2>1, <2>2, <2>3, NothingStored, SessionEndsFilling DEF Idle
<1>9. CASE SwitchMode
  <2>1. /\ UNCHANGED <<data, dir, acked, client>> /\ client.phase = "idle"
    BY <1>9 DEF SwitchMode, flashVars, ramVars, clientVars
  <2> QED
    BY <2>1, NothingStored, SessionEndsFilling
<1> QED
  BY <1>1, <1>2, <1>3, <1>4, <1>5, <1>6, <1>7, <1>8, <1>9

LEMMA ReadsInit == Init => Filling /\ Stored
<1> SUFFICES ASSUME Init PROVE Filling /\ Stored
  OBVIOUS
<1>1. client.phase = "idle" /\ acked = [n \in Names |-> None]
  BY DEF Init, Idle
<1> QED
  BY <1>1 DEF Filling, Stored, Promised

LEMMA ReadsStep ==
  ASSUME NInv, OInv, AInv, Filling, Stored, OnlyWrites, "aligned" \notin Ops, FwNext
  PROVE  Filling' /\ Stored'
<1>0. PICK anySize \in 1..MaxPacket, any \in BOOLEAN : any
  <2>1. MaxPacket \in 1..MaxPacket
    BY SizesAssumption
  <2> QED
    BY <2>1
<1>1. ASSUME NEW n \in Names, NEW kind \in {"write", "delete"}, OpenFile(n, kind)
      PROVE  Filling' /\ Stored'
  BY <1>1, OpenReads
<1>2. ASSUME NEW size \in 1..MaxPacket, NEW more \in BOOLEAN,
             DataPacket(size, more) \/ FailedDataWrite(size, more)
      PROVE  Filling' /\ Stored'
  BY <1>2, DataPacketReads, FailedDataWriteReads
<1>3. ASSUME NEW size \in 1..MaxPacket, NEW more \in BOOLEAN,
             SwallowPacket(size, more) \/ PowerFailsInPacket(size, more)
      PROVE  Filling' /\ Stored'
  BY <1>3, ZeroUp, OtherReads
<1>5. ASSUME NEW size \in 0..MaxPacket, NEW more \in BOOLEAN,
             \/ HeaderRefused(size, more) \/ ProgramFirmware(size, more)
             \/ PowerFailsInFirmware(size, more)
      PROVE  Filling' /\ Stored'
  BY <1>5, OtherReads
<1>4. ASSUME \/ RefuseName \/ OpenFormat \/ DeletePacket \/ FailedDelete \/ DeleteFaults
             \/ SwallowEmptyPacket \/ Abort \/ Restart \/ PowerFailsInDelete
             \/ OpenFirmware \/ AbortFirmware \/ SwitchMode
      PROVE  Filling' /\ Stored'
  BY <1>0, <1>4, ZeroUp, OtherReads
<1> QED
  BY <1>1, <1>2, <1>3, <1>4, <1>5 DEF FwNext, Next, Handlers, Environment

LEMMA StoredReadsBack == NInv /\ AInv /\ Stored => OneRunReadsBack
<1> SUFFICES ASSUME NInv, AInv, Stored, NEW n \in Names, acked[n] # None,
                    ~(client.phase = "open" /\ client.name = n),
                    NEW i, i = FindFile(dir, fileNum, n)
             PROVE  i # NotFound /\ (OneRun(i) => ReadBack(data, dir.info[i]) = acked[n])
  BY DEF OneRunReadsBack
<1>1. i # NotFound
  BY AInvListed DEF AckedListed
<1>2. fileNum \in Nat /\ fileNum = dir.total
  BY SectorNumbers DEF NInv, DirShape
<1>3. i \in Sectors /\ i < dir.total /\ dir.info[i].name = n
  <2>1. i \in Sectors /\ i < fileNum /\ dir.info[i].name = n
    <3>1. i = FindFile(dir, fileNum, n) /\ fileNum \in Nat /\ i # NotFound
      BY <1>1, <1>2
    <3> QED
      BY <3>1, FileFound
  <2> QED
    BY <1>2, <2>1
<1>4. OneRun(i) => Promised(i)
  BY <1>3 DEF OneRun, FileSectors, Promised, RunIn, Marks, Writing
<1> QED
  BY <1>1, <1>3, <1>4 DEF Stored

\* A file the master was told is stored, and that lies in one run of sectors,
\* reads back as exactly what the master sent: however often it was rewritten,
\* grew into the next sector, became shorter and gave sectors back, and whatever
\* was written, ran out of sectors, failed or was broken off beside it.
THEOREM AckedReadsBackInOneRun ==
  ASSUME OnlyWrites, "aligned" \notin Ops
  PROVE  FwSpec => []OneRunReadsBack
<1>0. NoDeletes
  BY DEF OnlyWrites, NoDeletes
<1>1. Init => AInv /\ Filling /\ Stored
  BY AInvInit, ReadsInit
<1>2. NInv /\ OInv /\ AInv /\ Filling /\ Stored /\ (NInv /\ OInv)' /\ [FwNext]_vars
        => (AInv /\ Filling /\ Stored)'
  <2> SUFFICES ASSUME NInv, OInv, AInv, Filling, Stored, NInv', OInv', [FwNext]_vars
               PROVE  AInv' /\ Filling' /\ Stored'
    OBVIOUS
  <2>1. CASE FwNext
    BY <2>1, AInvStep, ReadsStep
  <2>2. CASE UNCHANGED vars
    <3>1. UNCHANGED <<data, dir, acked, client, wr, existFlag, formatFlag, halted, bBootMode>>
      BY <2>2 DEF vars, flashVars, ramVars, clientVars, fwVars
    <3>2. AInv'
      BY <3>1 DEF AInv, Writing, Has, HasCrc
    <3>3. Filling'
      BY <3>1 DEF Filling, At, InSector, Along, Reads, UnitAt
    <3>4. Stored'
      BY <3>1 DEF Stored, Promised, Writing, RunIn, Marks, ReadBack, UnitAt
    <3> QED
      BY <3>2, <3>3, <3>4
  <2> QED
    BY <2>1, <2>2
<1>3. NInv /\ AInv /\ Stored => OneRunReadsBack
  BY StoredReadsBack
<1>4. FwSpec => [](NInv /\ OInv)
  BY <1>0, BothInvariants
<1> QED
  BY <1>1, <1>2, <1>3, <1>4, PTL DEF FwSpec

-----------------------------------------------------------------------------
(***************************************************************************)
(* Files that are only created, and deleted at the end of the directory.   *)
(***************************************************************************)
\* Nothing is rewritten, deleted before the end of the directory, or formatted.
OnlyAppends == Ops \cap {"rewrite", "deleteMissing", "deleteAny", "format"} = {}

\* The marked sectors come first, in the order of the files.
Rising(table) ==
  \A p, q \in Sectors : p < q /\ table[q] # 0 => table[p] # 0 /\ table[p] <= table[q]

\* A file lies in one run of sectors, all of them marked with it, and within
\* what the directory counts as taken.
End(info) == info.sector + CeilSectors(info.size)
Lies(d, i) ==
  /\ d.info[i].size > 0 /\ End(d.info[i]) <= d.occupy
  /\ \A s \in d.info[i].sector .. (End(d.info[i]) - 1) : s \in Sectors /\ d.table[s] = i + 1

\* The marks of a transfer that was broken off are those of the file after the
\* last one.
Orderly(d) ==
  /\ d.table \in [Sectors -> Nat] /\ d.occupy \in 0..N
  /\ Rising(d.table)
  /\ \A s \in Sectors : d.table[s] <= d.total + 1
  /\ \A i \in Sectors : i < d.total => Lies(d, i)

Whole(flash, d) ==
  \A i \in Sectors : i < d.total => ReadBack(flash, d.info[i]) = d.info[i].crc

\* A directory a start accepts, up to a total or a count of sectors of 0, lists
\* what RAM lists.
AsOnDisk ==
  disk # NoDir /\ disk.total < N /\ disk.occupy < N =>
    /\ disk.total = dir.total
    /\ \A i \in Sectors : i < dir.total => disk.info[i] = dir.info[i]

Behind(current) == \A s \in Sectors : s > current => dir.table[s] = 0

\* The file being written has filled the sectors from its first to its current
\* one, and the disk is free behind it.
Appending ==
  client.phase = "open" /\ client.kind = "write" =>
    LET first == dir.info[wr.index].sector
    IN  /\ ~existFlag /\ wr.offset = Len(wr.crc)
        /\ dir.table[first] = wr.index + 1
        /\ IF wr.firstIn THEN wr.offset = 0 /\ wr.sector = 0 /\ Behind(first)
           ELSE /\ first + wr.sector \in Sectors
                /\ At(first + wr.sector) /\ Behind(first + wr.sector)
                /\ wr.offset > S * wr.sector
                /\ Reads(data, first * S, wr.crc, Len(wr.crc))

\* The file being deleted is the last one, and no other marks lie behind it.
Deleting ==
  client.phase = "open" /\ client.kind = "delete" =>
    /\ wr.index = dir.total - 1
    /\ \A s \in Sectors : dir.table[s] <= dir.total

CInv ==
  /\ ~formatFlag
  /\ data \in Flash /\ Whole(data, dir)
  /\ Orderly(dir)
  /\ disk # NoDir => Orderly(disk)
  /\ AsOnDisk /\ Appending /\ Deleting

-----------------------------------------------------------------------------
(***************************************************************************)
(* Where a listed file lies.                                               *)
(***************************************************************************)
\* A file that is not empty has a last sector, which its last unit lies in.
LEMMA CeilFrom ==
  ASSUME NEW size \in Nat, size > 0
  PROVE  /\ CeilSectors(size) \in Nat /\ CeilSectors(size) >= 1
         /\ size <= CeilSectors(size) * S
<1>1. PICK a, q, r \in Nat :
        a = size + S - 1 /\ q = a \div S /\ r = a % S /\ a = q * S + r /\ r < S
  <2>1. size + S - 1 \in Nat
    BY Products
  <2>2. PICK a \in Nat : a = size + S - 1
    BY <2>1
  <2>3. a \div S \in Nat /\ a % S \in 0..(S - 1) /\ a = (a \div S) * S + (a % S)
    BY <2>2, AddressIs
  <2>4. a % S \in Nat /\ a % S < S
    BY <2>3, Products
  <2> QED
    BY <2>2, <2>3, <2>4
<1>2. CeilSectors(size) = q
  BY <1>1 DEF CeilSectors
<1>3. S \in Nat /\ S > 0 /\ q * S \in Nat
  BY <1>1, Products
<1>4. size <= q * S
  BY <1>1, <1>3
<1>5. q # 0
  <2> SUFFICES ASSUME q = 0 PROVE FALSE
    OBVIOUS
  <2>1. q * S = 0
    BY <1>3
  <2> QED
    BY <1>4, <2>1
<1> QED
  BY <1>1, <1>2, <1>4, <1>5

LEMMA LiesFrom ==
  ASSUME NEW d, DirShape(d), Orderly(d), NEW i \in Sectors, i < d.total
  PROVE  /\ d.info[i].sector \in Sectors /\ d.info[i].sector \in Nat
         /\ d.table[d.info[i].sector] = i + 1
         /\ CeilSectors(d.info[i].size) \in Nat /\ CeilSectors(d.info[i].size) >= 1
         /\ End(d.info[i]) \in Nat /\ End(d.info[i]) - 1 \in Sectors
         /\ d.table[End(d.info[i]) - 1] = i + 1
         /\ End(d.info[i]) <= N /\ End(d.info[i]) <= d.occupy
         /\ d.info[i].size \in Nat /\ d.info[i].size > 0
<1>1. PICK first, size \in Nat : first = d.info[i].sector /\ size = d.info[i].size
  BY SectorNumbers DEF DirShape, Entry
<1>2. /\ size > 0 /\ End(d.info[i]) <= d.occupy /\ d.occupy \in 0..N
      /\ \A s \in first .. (End(d.info[i]) - 1) : s \in Sectors /\ d.table[s] = i + 1
  BY <1>1 DEF Orderly, Lies
<1>3. PICK c \in Nat : c = CeilSectors(size) /\ c >= 1
  BY <1>1, <1>2, CeilFrom
<1>4. End(d.info[i]) = first + c
  BY <1>1, <1>3 DEF End
<1>5. first \in first .. (first + c - 1) /\ first + c - 1 \in first .. (first + c - 1)
  BY <1>3
<1>6. /\ first \in Sectors /\ d.table[first] = i + 1
      /\ first + c - 1 \in Sectors /\ d.table[first + c - 1] = i + 1
  BY <1>2, <1>4, <1>5
<1>7. first + c <= N
  BY <1>2, <1>4, SectorNumbers
<1> QED
  BY <1>1, <1>2, <1>3, <1>4, <1>6, <1>7

LEMMA OrderlyOwns ==
  ASSUME NEW d, DirShape(d), Orderly(d)
  PROVE  Owns(d)
BY LiesFrom DEF Owns, Orderly

\* What a start makes of the directory in flash is in order if that one was.
LEMMA LoadOrderly ==
  ASSUME NEW dk, dk # NoDir => DirShape(dk) /\ Orderly(dk), NEW d, d = LoadDir(dk)
  PROVE  /\ Orderly(d) /\ d \in {dk, ZeroDir}
         /\ dk # NoDir /\ dk.total < N /\ dk.occupy < N =>
              /\ dk.total = d.total
              /\ \A i \in Sectors : i < d.total => dk.info[i] = d.info[i]
<1>1. Orderly(ZeroDir)
  <2>1. 0 \in 0..N /\ 0 \in Nat
    BY SectorNumbers
  <2>2. /\ ZeroDir.table = [s \in Sectors |-> 0] /\ ZeroDir.total = 0 /\ ZeroDir.occupy = 0
    BY DEF ZeroDir
  <2>3. Rising(ZeroDir.table)
    BY <2>2 DEF Rising
  <2>4. \A i \in Sectors : ~(i < 0)
    BY SectorNumbers
  <2> QED
    BY <2>1, <2>2, <2>3, <2>4 DEF Orderly
<1>2. d \in {dk, ZeroDir} /\ Orderly(d)
  BY <1>1 DEF LoadDir
<1>3. ASSUME dk # NoDir, dk.total < N, dk.occupy < N
      PROVE  /\ dk.total = d.total
             /\ \A i \in Sectors : i < d.total => dk.info[i] = d.info[i]
  <2>1. dk.total \in 0..N /\ dk.occupy \in 0..N /\ N \in Nat
    BY <1>3, SectorNumbers DEF DirShape, Orderly
  <2>2. CASE d = dk
    BY <2>2
  <2>3. CASE d # dk
    <3>1. d = ZeroDir /\ (dk.total = 0 \/ dk.occupy = 0)
      <4>1. ~(dk.total \in 1..(N - 1) /\ dk.occupy \in 1..(N - 1))
        BY <1>3, <2>3 DEF LoadDir
      <4> QED
        BY <1>2, <1>3, <2>1, <2>3, <4>1
    <3>2. dk.total = 0
      <4> SUFFICES ASSUME dk.total > 0 PROVE FALSE
        BY <2>1
      <4>1. 0 \in Sectors /\ 0 < dk.total /\ dk.occupy = 0
        BY <3>1, <2>1, SectorNumbers
      <4>2. PICK c, e, f \in Nat : /\ e = End(dk.info[0]) /\ f = dk.info[0].sector
                                   /\ c = CeilSectors(dk.info[0].size)
                                   /\ c >= 1 /\ e <= dk.occupy
        BY <1>3, <4>1, LiesFrom
      <4>3. e = f + c
        BY <4>2 DEF End
      <4> QED
        BY <4>1, <4>2, <4>3
    <3>3. d.total = 0 /\ \A i \in Sectors : ~(i < 0)
      BY <3>1, SectorNumbers DEF ZeroDir
    <3> QED
      BY <3>2, <3>3
  <2> QED
    BY <2>2, <2>3
<1> QED
  BY <1>2, <1>3

-----------------------------------------------------------------------------
(***************************************************************************)
(* The deletion of the last file.                                          *)
(***************************************************************************)
\* What the loop of a deletion makes of a table whose largest mark is the
\* owner's: the marks of the other files stay where they are.
Dropped(table, owner, left) ==
  /\ left \in [Sectors -> Nat] /\ Rising(left)
  /\ \A s \in Sectors : left[s] <= owner
  /\ \A s \in Sectors : table[s] \notin {0, owner} => left[s] = table[s]

LEMMA DropOne ==
  ASSUME NEW table, NEW owner \in Nat, owner > 0, NEW left, Dropped(table, owner, left),
         NEW s \in Sectors, left[s] = owner, NEW e, e = DropSector(left, s)
  PROVE  Dropped(table, owner, e)
<1>1. /\ left \in [Sectors -> Nat] /\ N \in Nat /\ N > 0
      /\ \A t \in Sectors : t \in Nat /\ t < N
      /\ \A t \in Nat : t < N => t \in Sectors
  BY SizesAssumption, SectorNumbers DEF Dropped
<1>2. \A t \in Sectors : /\ t < s => left[t] # 0
                         /\ t >= s => left[t] \in {0, owner}
  BY <1>1 DEF Dropped, Rising
<1>3. \A t \in Sectors :
        e[t] = IF t < s THEN left[t] ELSE IF t < N - 1 THEN left[t + 1]
               ELSE IF t = s THEN 0 ELSE left[t]
  BY DEF DropSector
<1>4. \A t \in Sectors : /\ t < s => e[t] = left[t] /\ e[t] # 0
                         /\ t >= s => e[t] \in {0, owner}
  BY <1>1, <1>2, <1>3
<1>5. e \in [Sectors -> Nat]
  <2>1. \A t \in Sectors : e[t] \in Nat
    BY <1>1, <1>4
  <2>2. e = [t \in Sectors |-> e[t]]
    BY DEF DropSector
  <2> QED
    BY <2>1, <2>2
<1>6. Rising(e)
  <2> SUFFICES ASSUME NEW p \in Sectors, NEW q \in Sectors, p < q, e[q] # 0
               PROVE  e[p] # 0 /\ e[p] <= e[q]
    BY DEF Rising
  <2>1. CASE q < s
    <3>1. p < s /\ e[p] = left[p] /\ e[q] = left[q]
      BY <1>1, <1>4, <2>1
    <3> QED
      BY <3>1 DEF Dropped, Rising
  <2>2. CASE p < s /\ q >= s
    BY <1>1, <1>4, <2>2 DEF Dropped
  <2>3. CASE p >= s
    <3>1. e[q] = owner
      BY <1>1, <1>4, <2>3
    <3>2. p < N - 1 /\ p + 1 \in Sectors /\ e[p] = left[p + 1] /\ p + 1 <= q
      BY <1>1, <1>3, <2>3
    <3>3. PICK r \in Sectors : r >= q /\ left[r] # 0
      BY <1>1, <1>3, <2>3
    <3>4. left[p + 1] # 0
      <4>1. CASE p + 1 = r
        BY <3>3, <4>1
      <4>2. CASE p + 1 < r
        BY <3>2, <3>3, <4>2 DEF Dropped, Rising
      <4> QED
        BY <1>1, <3>2, <3>3, <4>1, <4>2
    <3> QED
      BY <1>1, <1>4, <2>3, <3>1, <3>2, <3>4
  <2> QED
    BY <1>1, <2>1, <2>2, <2>3
<1>7. \A t \in Sectors : e[t] <= owner
  BY <1>1, <1>4 DEF Dropped
<1>8. \A t \in Sectors : table[t] \notin {0, owner} => e[t] = table[t]
  <2> SUFFICES ASSUME NEW t \in Sectors, table[t] \notin {0, owner} PROVE e[t] = table[t]
    OBVIOUS
  <2>1. left[t] = table[t]
    BY DEF Dropped
  <2>2. t < s
    BY <1>1, <1>2, <2>1
  <2> QED
    BY <1>4, <2>1, <2>2
<1> QED
  BY <1>5, <1>6, <1>7, <1>8 DEF Dropped

\* One turn of the loop, and what turns of it leave.
Turn(p, owner) ==
  LET s == FirstAt(p.table, p.at, owner)
  IN  IF ~p.ok \/ s = NotFound THEN [p EXCEPT !.ok = FALSE]
      ELSE [ok |-> TRUE, table |-> DropSector(p.table, s), at |-> s]
Turns(f, table, owner, n) ==
  f = [k \in 0..n |-> IF k = 0 THEN [ok |-> TRUE, table |-> table, at |-> 0]
                      ELSE Turn(f[k - 1], owner)]

LEMMA DropIs ==
  ASSUME NEW table, NEW owner, NEW turns \in Nat
  PROVE  \E f : Turns(f, table, owner, turns) /\ DropSectors(table, owner, turns) = f[turns]
<1>1. DropSectors(table, owner, turns) = (CHOOSE f : Turns(f, table, owner, turns))[turns]
  BY DEF DropSectors, Turns, Turn
<1>2. \E f : Turns(f, table, owner, turns)
  <2> SUFFICES ASSUME NEW none, none = {n \in Nat : ~\E f : Turns(f, table, owner, n)},
                      none # {}
               PROVE  FALSE
    OBVIOUS
  <2> DEFINE m == Lowest(none)
  <2>1. m \in none /\ \A n \in none : m <= n
    BY LowestIs
  <2> HIDE DEF m
  <2>2. m \in Nat /\ ~\E f : Turns(f, table, owner, m)
    BY <2>1
  <2>3. CASE m = 0
    <3> DEFINE f == [k \in 0..0 |-> [ok |-> TRUE, table |-> table, at |-> 0]]
    <3>1. Turns(f, table, owner, 0)
      BY DEF Turns
    <3> QED
      BY <2>2, <2>3, <3>1
  <2>4. CASE m > 0
    <3>1. m - 1 \in Nat /\ m - 1 \notin none
      BY <2>1, <2>2, <2>4
    <3>2. PICK g : Turns(g, table, owner, m - 1)
      BY <3>1
    <3> DEFINE f == [k \in 0..m |-> IF k < m THEN g[k] ELSE Turn(g[m - 1], owner)]
    <3>3. \A k \in 0..(m - 1) :
            g[k] = IF k = 0 THEN [ok |-> TRUE, table |-> table, at |-> 0]
                   ELSE Turn(g[k - 1], owner)
      BY <3>2, Zenon DEF Turns
    <3>4. \A k \in 0..m :
            f[k] = IF k = 0 THEN [ok |-> TRUE, table |-> table, at |-> 0]
                   ELSE Turn(f[k - 1], owner)
      <4> SUFFICES ASSUME NEW k \in 0..m
                   PROVE  f[k] = IF k = 0 THEN [ok |-> TRUE, table |-> table, at |-> 0]
                                 ELSE Turn(f[k - 1], owner)
        OBVIOUS
      <4>1. CASE k < m
        <5>1. k \in 0..(m - 1) /\ f[k] = g[k] /\ (k # 0 => k - 1 \in 0..m /\ f[k - 1] = g[k - 1])
          BY <2>2, <4>1
        <5> QED
          BY <3>3, <5>1
      <4>2. CASE k = m
        <5>1. f[k] = Turn(g[m - 1], owner) /\ f[m - 1] = g[m - 1] /\ k # 0
          BY <2>2, <2>4, <4>2
        <5> QED
          BY <4>2, <5>1
      <4> QED
        BY <2>2, <4>1, <4>2
    <3>5. f = [k \in 0..m |-> f[k]]
      OBVIOUS
    <3> HIDE DEF f
    <3>6. Turns(f, table, owner, m)
      BY <3>4, <3>5 DEF Turns
    <3> QED
      BY <2>2, <3>6
  <2> QED
    BY <2>2, <2>3, <2>4
<1> QED
  BY <1>1, <1>2

LEMMA DropKeeps ==
  ASSUME NEW table \in [Sectors -> Nat], Rising(table), NEW owner \in Nat, owner > 0,
         \A s \in Sectors : table[s] <= owner, NEW turns \in Nat
  PROVE  Dropped(table, owner, DropSectors(table, owner, turns).table)
<1>1. PICK f : Turns(f, table, owner, turns) /\ DropSectors(table, owner, turns) = f[turns]
  BY DropIs
<1>2. \A k \in 0..turns : f[k] = IF k = 0 THEN [ok |-> TRUE, table |-> table, at |-> 0]
                             ELSE Turn(f[k - 1], owner)
  BY <1>1, Zenon DEF Turns
<1>3. ASSUME NEW p, p.at \in Nat, Dropped(table, owner, p.table), NEW q, q = Turn(p, owner),
             p = [ok |-> p.ok, table |-> p.table, at |-> p.at]
      PROVE  /\ q.at \in Nat /\ Dropped(table, owner, q.table)
             /\ q = [ok |-> q.ok, table |-> q.table, at |-> q.at]
  <2> DEFINE s == FirstAt(p.table, p.at, owner)
  <2>1. \/ q = [p EXCEPT !.ok = FALSE]
        \/ s # NotFound /\ q = [ok |-> TRUE, table |-> DropSector(p.table, s), at |-> s]
    BY <1>3 DEF Turn
  <2>2. s # NotFound => s \in Sectors /\ s \in Nat /\ p.table[s] = owner
    BY <1>3, FirstAtFinds, SectorNumbers
  <2> HIDE DEF s
  <2>3. CASE q = [p EXCEPT !.ok = FALSE]
    <3>1. q = [ok |-> FALSE, table |-> p.table, at |-> p.at]
      BY <1>3, <2>3
    <3> QED
      BY <1>3, <3>1
  <2>4. CASE s # NotFound /\ q = [ok |-> TRUE, table |-> DropSector(p.table, s), at |-> s]
    BY <1>3, <2>2, <2>4, DropOne
  <2> QED
    BY <2>1, <2>3, <2>4
<1> DEFINE Good(k) == /\ f[k].at \in Nat /\ Dropped(table, owner, f[k].table)
                      /\ f[k] = [ok |-> f[k].ok, table |-> f[k].table, at |-> f[k].at]
<1>4. Good(0)
  <2>0. 0 \in 0..turns
    OBVIOUS
  <2>1. f[0] = [ok |-> TRUE, table |-> table, at |-> 0]
    BY <1>2, <2>0
  <2>2. Dropped(table, owner, table)
    BY DEF Dropped
  <2> QED
    BY <2>1, <2>2
<1>5. ASSUME NEW k \in Nat, k > 0, k <= turns, Good(k - 1) PROVE Good(k)
  <2>1. f[k] = Turn(f[k - 1], owner)
    BY <1>2, <1>5, SectorNumbers
  <2> QED
    BY <1>3, <1>5, <2>1
<1>6. ASSUME NEW bad, bad = {k \in Nat : k <= turns /\ ~Good(k)}, bad # {} PROVE FALSE
  <2> DEFINE m == Lowest(bad)
  <2>1. bad \subseteq Nat
    BY <1>6
  <2>2. m \in bad /\ \A k \in bad : m <= k
    BY <1>6, <2>1, LowestIs
  <2> HIDE DEF m, Good
  <2>3. m \in Nat /\ m <= turns /\ ~Good(m)
    BY <1>6, <2>2
  <2>4. m # 0
    BY <1>4, <2>3
  <2>5. m - 1 \in Nat /\ m - 1 <= turns /\ m - 1 \notin bad
    BY <2>2, <2>3, <2>4, SectorNumbers
  <2>6. Good(m - 1)
    BY <1>6, <2>5
  <2> QED
    BY <1>5, <2>3, <2>4, <2>6
<1>7. Good(turns)
  <2> HIDE DEF Good
  <2>1. PICK bad : bad = {k \in Nat : k <= turns /\ ~Good(k)}
    OBVIOUS
  <2>2. bad = {}
    BY <1>6, <2>1
  <2> QED
    BY <2>1, <2>2
<1> QED
  BY <1>1, <1>7

\* A file before the last one ends where the last one begins, or before it.
LEMMA EndsBefore ==
  ASSUME NEW d, DirShape(d), Orderly(d), NEW i \in Sectors, NEW j \in Sectors,
         i < j, j < d.total
  PROVE  End(d.info[i]) <= d.info[j].sector
<1>1. PICK e \in Nat, f \in Nat : e = End(d.info[i]) /\ f = d.info[j].sector
  BY LiesFrom, SectorNumbers DEF DirShape
<1>2. i \in Nat /\ j \in Nat /\ d.total \in Nat /\ i < d.total
  BY SectorNumbers DEF DirShape
<1>3. /\ e - 1 \in Sectors /\ d.table[e - 1] = i + 1
      /\ f \in Sectors /\ d.table[f] = j + 1
  BY <1>1, <1>2, LiesFrom
<1>4. ~(f < e - 1)
  BY <1>2, <1>3 DEF Orderly, Rising
<1>5. f # e - 1
  BY <1>2, <1>3
<1> QED
  BY <1>1, <1>4, <1>5

LEMMA DeleteOrderly ==
  ASSUME NInv, Orderly(dir), NEW idx \in Sectors, idx = dir.total - 1,
         \A s \in Sectors : dir.table[s] <= dir.total,
         NEW e, e = DeleteEntry(idx)
  PROVE  /\ Orderly(e) /\ e.total = dir.total - 1 /\ e.total \in Nat
         /\ \A i \in Sectors : i < e.total => e.info[i] = dir.info[i]
<1>1. /\ DirShape(dir) /\ fileNum = dir.total /\ dir.total \in 1..N /\ idx \in Nat
      /\ N \in Nat /\ idx < dir.total
  BY SectorNumbers DEF NInv, DirShape
<1>2. PICK held, f \in Nat : /\ held = CeilSectors(dir.info[idx].size) /\ held >= 1
                             /\ f = dir.info[idx].sector
                             /\ f + held <= N /\ f + held <= dir.occupy
  <2>1. PICK held, f \in Nat : held = CeilSectors(dir.info[idx].size) /\ f = dir.info[idx].sector
    BY <1>1, LiesFrom
  <2>2. /\ held >= 1 /\ End(dir.info[idx]) <= N /\ End(dir.info[idx]) <= dir.occupy
    BY <1>1, <2>1, LiesFrom
  <2> QED
    BY <2>1, <2>2 DEF End
<1>3. HeldSectors(idx) = held
  BY <1>2 DEF HeldSectors
<1>4. dir.table \in [Sectors -> Nat] /\ Rising(dir.table) /\ dir.occupy \in 0..N
  BY DEF Orderly
<1>5. PICK left : left = DropSectors(dir.table, idx + 1, held).table
  OBVIOUS
<1>6. Dropped(dir.table, idx + 1, left)
  <2>1. held \in 0..N /\ idx + 1 \in Nat /\ idx + 1 > 0 /\ idx + 1 = dir.total
    BY <1>1, <1>2
  <2> QED
    BY <1>4, <1>5, <2>1, DropKeeps
<1>7. Decrement(dir.total) = dir.total - 1
  BY <1>1, DecrementIs
<1>8. (dir.occupy + Wrap - held) % Wrap = dir.occupy - held
  <2>1. PICK o \in Nat : o = dir.occupy - held
    BY <1>2, <1>4
  <2>2. Wrap \in Nat /\ o < Wrap /\ dir.occupy + Wrap - held = o + Wrap
    BY <1>1, <1>2, <1>4, <2>1, SizesAssumption
  <2> QED
    BY <2>1, <2>2, Modulus
<1>9. /\ e.total = dir.total - 1 /\ e.occupy = dir.occupy - held /\ e.table = left
      /\ e.info = [dir.info EXCEPT ![idx] = BlankInfo]
  <2>1. fileNum = idx + 1
    BY <1>1
  <2> QED
    BY <1>3, <1>5, <1>7, <1>8, <2>1, Zenon DEF DeleteEntry
<1>10. \A i \in Sectors : i < e.total => e.info[i] = dir.info[i] /\ i < idx
  BY <1>1, <1>9, SectorNumbers DEF DirShape
<1>11. ASSUME NEW i \in Sectors, i < e.total PROVE Lies(e, i)
  <2>1. i < idx /\ e.info[i] = dir.info[i] /\ i < dir.total /\ i \in Nat
    <3>1. i \in Nat /\ i < idx /\ e.info[i] = dir.info[i]
      BY <1>10, <1>11, SectorNumbers
    <3> QED
      BY <1>1, <3>1
  <2>2. Lies(dir, i) /\ End(dir.info[i]) \in Nat
    BY <1>1, <2>1, LiesFrom DEF Orderly
  <2>3. End(dir.info[i]) <= f
    BY <1>1, <1>2, <2>1, EndsBefore
  <2>4. End(e.info[i]) <= e.occupy
    BY <1>2, <1>4, <1>9, <2>1, <2>2, <2>3
  <2>5. ASSUME NEW s \in dir.info[i].sector .. (End(dir.info[i]) - 1)
        PROVE  s \in Sectors /\ left[s] = i + 1
    <3>1. s \in Sectors /\ dir.table[s] = i + 1
      BY <2>2 DEF Lies
    <3>2. dir.table[s] \notin {0, idx + 1}
      BY <1>1, <2>1, <3>1
    <3> QED
      BY <1>6, <3>1, <3>2 DEF Dropped
  <2> QED
    BY <1>9, <2>1, <2>2, <2>4, <2>5 DEF Lies
<1>12. e.table \in [Sectors -> Nat] /\ Rising(e.table) /\ e.occupy \in 0..N
  BY <1>2, <1>4, <1>6, <1>9, SectorNumbers DEF Dropped
<1>13. \A s \in Sectors : e.table[s] <= e.total + 1
  BY <1>1, <1>6, <1>9 DEF Dropped
<1> QED
  BY <1>1, <1>9, <1>10, <1>11, <1>12, <1>13 DEF Orderly

-----------------------------------------------------------------------------
(***************************************************************************)
(* The file being created.                                                 *)
(***************************************************************************)
\* Marking the first free sector with the file after the last one.
Claimed(d, s, e) ==
  /\ e.table = [d.table EXCEPT ![s] = d.total + 1] /\ e.total = d.total
  /\ e.occupy = d.occupy /\ \A i \in Sectors : i < d.total => e.info[i] = d.info[i]

LEMMA ClaimOrderly ==
  ASSUME NEW d, DirShape(d), Orderly(d), NEW s \in Sectors, d.table[s] = 0,
         \A t \in Sectors : t < s => d.table[t] # 0,
         NEW e, Claimed(d, s, e)
  PROVE  /\ Orderly(e) /\ e.table[s] = d.total + 1
         /\ \A t \in Sectors : t > s => e.table[t] = 0
<1>0. /\ e.table = [d.table EXCEPT ![s] = d.total + 1] /\ e.total = d.total
      /\ e.occupy = d.occupy /\ \A i \in Sectors : i < d.total => e.info[i] = d.info[i]
  BY DEF Claimed
<1>1. /\ d.table \in [Sectors -> Nat] /\ Sectors \subseteq Nat /\ d.total \in Nat
      /\ \A t \in Sectors : d.table[t] <= d.total + 1
  BY SectorNumbers DEF DirShape, Orderly
<1>2. \A t \in Sectors : t > s => d.table[t] = 0
  BY <1>1 DEF Orderly, Rising
<1>3. /\ e.table \in [Sectors -> Nat] /\ e.table[s] = d.total + 1
      /\ \A t \in Sectors : t # s => e.table[t] = d.table[t]
  BY <1>0, <1>1
<1>4. Rising(e.table)
  <2> SUFFICES ASSUME NEW p \in Sectors, NEW q \in Sectors, p < q, e.table[q] # 0
               PROVE  e.table[p] # 0 /\ e.table[p] <= e.table[q]
    BY DEF Rising
  <2>1. q <= s /\ p # s /\ e.table[p] = d.table[p] /\ d.table[p] # 0
    BY <1>1, <1>2, <1>3
  <2>2. CASE q = s
    BY <1>1, <1>3, <2>1, <2>2
  <2>3. CASE q # s
    BY <1>3, <2>1, <2>3 DEF Orderly, Rising
  <2> QED
    BY <2>2, <2>3
<1>5. ASSUME NEW i \in Sectors, i < e.total PROVE Lies(e, i)
  <2>1. e.info[i] = d.info[i] /\ Lies(d, i)
    BY <1>0, <1>5 DEF Orderly
  <2>2. \A t \in Sectors : d.table[t] = i + 1 => e.table[t] = i + 1
    BY <1>1, <1>3
  <2> QED
    BY <1>0, <2>1, <2>2 DEF Lies
<1>6. \A t \in Sectors : e.table[t] <= e.total + 1
  BY <1>0, <1>1, <1>3
<1>7. e.occupy \in 0..N
  BY <1>0 DEF Orderly
<1> QED
  BY <1>2, <1>3, <1>4, <1>5, <1>6, <1>7 DEF Orderly

\* The entry a new name gets, and the sector its file begins in.
LEMMA AddOrderly ==
  ASSUME NInv, Orderly(dir), NEW name \in Names, ~Listed(name), NEW add, add = AddFile(name)
  PROVE  /\ Orderly(add.dir) /\ add.dir.total = dir.total
         /\ \A i \in Sectors : i < dir.total => add.dir.info[i] = dir.info[i]
         /\ add.index # NotFound =>
              LET first == add.dir.info[add.index].sector
              IN  /\ ~add.exist /\ first \in Sectors
                  /\ add.dir.table[first] = add.index + 1
                  /\ \A s \in Sectors : s > first => add.dir.table[s] = 0
<1> DEFINE free == FirstAt(dir.table, 0, 0)
           idx == dir.total
           filled == [Claim(dir, free, idx) EXCEPT !.info[idx] =
                        [@ EXCEPT !.name = name, !.sector = free, !.size = 0]]
<1>1. /\ DirShape(dir) /\ fileNum = dir.total /\ dir.total \in 0..N
      /\ dir.table \in [Sectors -> Nat] /\ Sectors \subseteq Nat /\ N \in Nat
  BY SectorNumbers DEF NInv, DirShape, Orderly
<1>2. \/ add = [index |-> NotFound, dir |-> dir, exist |-> existFlag]
      \/ /\ idx < N /\ free # NotFound
         /\ add = [index |-> idx, dir |-> filled, exist |-> FALSE]
  BY <1>1 DEF AddFile, Listed
<1>3. CASE add = [index |-> NotFound, dir |-> dir, exist |-> existFlag]
  BY <1>3
<1>4. CASE /\ idx < N /\ free # NotFound
           /\ add = [index |-> idx, dir |-> filled, exist |-> FALSE]
  <2>1. free \in Sectors /\ dir.table[free] = 0 /\ idx \in Sectors
    BY <1>1, <1>4, FirstAtFinds, SectorNumbers
  <2> HIDE DEF free
  <2>2. \A t \in Sectors : t < free => dir.table[t] # 0
    <3> SUFFICES ASSUME NEW t \in Sectors, t < free, dir.table[t] = 0 PROVE FALSE
      OBVIOUS
    <3>1. 0 \in Nat /\ t >= 0 /\ t \in Nat /\ free \in Nat
      BY <1>1, <2>1
    <3>2. free <= t
      BY <3>1, FirstAtFirst DEF free
    <3> QED
      BY <3>1, <3>2
  <2>3. PICK entry : entry = [dir.info[idx] EXCEPT !.name = name, !.sector = free, !.size = 0]
    OBVIOUS
  <2>4. entry.sector = free
    BY <1>1, <2>1, <2>3 DEF DirShape, Entry
  <2>5. filled = [total |-> dir.total, occupy |-> dir.occupy,
                  table |-> [dir.table EXCEPT ![free] = idx + 1],
                  info |-> [dir.info EXCEPT ![idx] = entry]]
    <3>1. Claim(dir, free, idx) =
            [total |-> dir.total, occupy |-> dir.occupy,
             table |-> [dir.table EXCEPT ![free] = idx + 1], info |-> dir.info]
      BY <1>1 DEF Claim, DirShape
    <3> QED
      BY <2>3, <3>1
  <2> HIDE DEF filled
  <2>6. /\ filled.total = dir.total /\ filled.occupy = dir.occupy
        /\ filled.table = [dir.table EXCEPT ![free] = dir.total + 1]
        /\ filled.info[idx].sector = free
        /\ \A i \in Sectors : i < dir.total => filled.info[i] = dir.info[i]
    BY <1>1, <2>1, <2>4, <2>5 DEF DirShape
  <2>7. /\ Orderly(filled) /\ filled.table[free] = dir.total + 1
        /\ \A t \in Sectors : t > free => filled.table[t] = 0
    <3> HIDE DEF idx
    <3>1. PICK d, e, s : d = dir /\ e = filled /\ s = free
      OBVIOUS
    <3>2. Claimed(d, s, e)
      BY <2>6, <3>1 DEF Claimed
    <3>3. /\ DirShape(d) /\ Orderly(d) /\ s \in Sectors /\ d.table[s] = 0
          /\ \A t \in Sectors : t < s => d.table[t] # 0
      BY <1>1, <2>1, <2>2, <3>1
    <3>4. /\ Orderly(e) /\ e.table[s] = d.total + 1
          /\ \A t \in Sectors : t > s => e.table[t] = 0
      BY <3>2, <3>3, ClaimOrderly
    <3> QED
      BY <3>1, <3>4
  <2>8. add.index = idx /\ add.dir = filled /\ add.exist = FALSE
    BY <1>4
  <2> QED
    BY <2>1, <2>6, <2>7, <2>8
<1> QED
  BY <1>2, <1>3, <1>4

\* A new file is written as the lemmas about the transfers of files say.
LEMMA CreatingOwns ==
  ASSUME NInv, CInv, client.phase = "open", client.kind = "write"
  PROVE  OInv /\ ~existFlag /\ wr.index \in Sectors /\ wr.index = dir.total
<1>1. Owns(dir) /\ (disk # NoDir => Owns(disk)) /\ data \in Flash
  BY OrderlyOwns DEF NInv, CInv
<1>2. wr.index \in Sectors
  BY DEF NInv, Opened
<1>3. dir.info[wr.index].sector \in Nat /\ wr.sector \in Nat
  BY <1>2, SectorNumbers DEF NInv, DirShape, Entry, WrShape, WriteState
<1>4. Position /\ ~existFlag
  BY <1>2, <1>3 DEF CInv, Appending, Position
<1> QED
  BY <1>1, <1>2, <1>4 DEF OInv, NInv, Opened

\* Where a packet of a new file goes: the disk is free behind the sector it
\* begins in, which follows those filled before.
Growing(home, pos, units) ==
  LET first == dir.info[wr.index].sector
  IN  /\ dir.table[home] = wr.index + 1 /\ Placed(home, pos, units)
      /\ first \in Sectors /\ dir.table[first] = wr.index + 1 /\ home = first + wr.sector
      /\ Behind(home)
      /\ wr.offset = Len(wr.crc) /\ Reads(Begun, first * S, wr.crc, Len(wr.crc))
      /\ Crosses(units) => Following(units) = home + 1

LEMMA CreatingAt ==
  ASSUME NInv, CInv, client.phase = "open", client.kind = "write", NEW units \in Stream
  PROVE  \E home \in Sectors, pos \in Nat : Growing(home, pos, units)
<1>1. OInv /\ ~existFlag /\ wr.index \in Sectors /\ wr.index = dir.total
  BY CreatingOwns
<1>2. PICK first \in Sectors : first = dir.info[wr.index].sector
  BY <1>1 DEF NInv, DirShape, Entry
<1>3. wr.sector \in Nat /\ first \in Nat
  BY SectorNumbers DEF NInv, WrShape, WriteState
<1>4. PICK home : home = first + wr.sector
  OBVIOUS
<1>5. /\ home \in Sectors /\ home \in Nat /\ Home(home) /\ Behind(home)
      /\ dir.table[home] = wr.index + 1 /\ dir.table[first] = wr.index + 1
      /\ wr.offset = Len(wr.crc)
      /\ Reads(Begun, first * S, wr.crc, Len(wr.crc))
  <2>1. CASE wr.firstIn
    <3>1. /\ wr.offset = 0 /\ wr.sector = 0 /\ Behind(first) /\ wr.offset = Len(wr.crc)
          /\ dir.table[first] = wr.index + 1
      BY <1>2, <2>1 DEF CInv, Appending
    <3>2. home = first /\ Home(home)
      BY <1>2, <1>3, <1>4, <2>1, <3>1 DEF Home
    <3>3. Reads(Begun, first * S, wr.crc, Len(wr.crc))
      BY <3>1 DEF Reads
    <3> QED
      BY <1>3, <3>1, <3>2, <3>3
  <2>2. CASE ~wr.firstIn
    <3>1. /\ home \in Sectors /\ At(home) /\ Behind(home) /\ wr.offset = Len(wr.crc)
          /\ dir.table[first] = wr.index + 1
          /\ Reads(data, first * S, wr.crc, Len(wr.crc))
      BY <1>2, <1>4, <2>2 DEF CInv, Appending
    <3>2. Begun = data /\ Home(home)
      BY <2>2, <3>1 DEF Begun, Home, At
    <3> QED
      BY <3>1, <3>2, SectorNumbers DEF At, InSector
  <2> QED
    BY <2>1, <2>2
<1>6. PICK pos \in Nat : Placed(home, pos, units)
  BY <1>1, <1>5, PositionIn
<1>7. ASSUME Crosses(units) PROVE Following(units) = home + 1
  <2>1. PICK next : next = Following(units)
    OBVIOUS
  <2>2. pos <= S /\ Start = home * S + pos
    BY <1>6 DEF Placed
  <2>3. next = NextWriteSector(dir, FALSE, wr.index, home * S + pos) /\ next # NotFound
    <3>1. existFlag = FALSE
      BY <1>1 DEF NInv
    <3> QED
      BY <1>7, <2>1, <2>2, <3>1 DEF Following, Crosses, Full
  <2>4. next \in Sectors /\ next >= home + 1
    BY <1>1, <1>5, <1>6, <2>2, <2>3, NextIsBeyond
  <2>5. home + 1 \in Sectors
    BY <1>5, <2>4, SectorNumbers
  <2>6. dir.table[home + 1] = 0
    BY <1>5, <2>5 DEF Behind
  <2>7. PICK from \in Nat : from = (home * S + pos) \div S /\ from <= home + 1
    <3>1. home * S \in Nat /\ (home + 1) * S = home * S + S /\ S \in Nat /\ S > 0
      BY <1>5, Products, SectorsAdd
    <3>2. home * S + pos \in Nat /\ home * S + pos < (home + 1) * S + S
      BY <1>6, <2>2, <3>1
    <3>3. (home * S + pos) \div S <= home + 1 /\ (home * S + pos) \div S \in Nat
      BY <1>5, <3>2, SectorOf, AddressIs
    <3> QED
      BY <3>3
  <2>8. next = FirstAt(dir.table, from, 0)
    BY <2>3, <2>7 DEF NextWriteSector
  <2>9. next <= home + 1
    BY <2>5, <2>6, <2>7, <2>8, FirstAtFirst
  <2> QED
    BY <1>5, <2>1, <2>4, <2>9, SectorNumbers
<1> QED
  BY <1>2, <1>4, <1>5, <1>6, <1>7 DEF Growing

\* The directory a packet grows the file in.
LEMMA GrownOrderly ==
  ASSUME NInv, CInv, client.phase = "open", client.kind = "write", NEW units \in Stream,
         NEW home \in Sectors, NEW pos \in Nat, Growing(home, pos, units),
         NEW current, current = IF Crosses(units) THEN Following(units) ELSE home,
         NEW g, g = Grown(units)
  PROVE  /\ Orderly(g) /\ \A s \in Sectors : s > current => g.table[s] = 0
<1>1. OInv /\ wr.index \in Sectors /\ wr.index = dir.total
  BY CreatingOwns
<1>2. /\ DirShape(dir) /\ Orderly(dir) /\ dir.table \in [Sectors -> Nat]
      /\ Sectors \subseteq Nat /\ wr.index \in Nat
  BY <1>1, SectorNumbers DEF NInv, CInv, Orderly
<1>3. dir.table[home] = wr.index + 1 /\ Behind(home)
  BY DEF Growing
<1>4. CASE ~Crosses(units)
  BY <1>2, <1>3, <1>4 DEF Grown, Behind
<1>5. CASE Crosses(units)
  <2>1. current = home + 1 /\ current \in Sectors
    BY <1>1, <1>5, OutcomeParts DEF Growing
  <2>2. dir.table[current] = 0
    BY <1>2, <1>3, <2>1 DEF Behind
  <2>3. \A t \in Sectors : t < current => dir.table[t] # 0
    <3> SUFFICES ASSUME NEW t \in Sectors, t < current PROVE dir.table[t] # 0
      OBVIOUS
    <3>1. t = home \/ t < home
      BY <1>2, <2>1
    <3> QED
      BY <1>2, <1>3, <3>1 DEF Orderly, Rising
  <2>4. Claimed(dir, current, g)
    BY <1>1, <1>2, <1>5 DEF Grown, Claim, DirShape, Claimed
  <2> QED
    BY <1>2, <2>1, <2>2, <2>3, <2>4, ClaimOrderly
<1> QED
  BY <1>4, <1>5

\* A packet that found its sector fills the file on in one run.
FilledTo(g, w, flash, all, current) ==
  LET first == g.info[wr.index].sector
  IN  /\ first \in Sectors /\ g.table[first] = wr.index + 1
      /\ current \in Sectors /\ current = first + w.sector /\ g.table[current] = wr.index + 1
      /\ \A s \in Sectors : s > current => g.table[s] = 0
      /\ w.offset = Len(all) /\ w.offset > S * w.sector
      /\ w.offset >= S * w.sector /\ w.offset <= S * (w.sector + 1)
      /\ w.addr = current * S + (w.offset - S * w.sector)
      /\ Reads(flash, first * S, all, Len(all))

LEMMA PacketFills ==
  ASSUME NInv, CInv, client.phase = "open", client.kind = "write", NEW units \in Stream,
         Len(units) > 0, Len(units) <= S, ~Full(units),
         NEW w, w = After(units), NEW g, g = Grown(units), NEW all, all = wr.crc \o units
  PROVE  /\ Orderly(g) /\ w \in WriteState /\ w.index = wr.index /\ ~w.firstIn /\ w.crc = all
         /\ g.total = dir.total /\ g.info = dir.info
         /\ \E current : FilledTo(g, w, RestDone(units), all, current)
<1>1. OInv /\ wr.index \in Sectors
  BY CreatingOwns
<1>2. PICK home \in Sectors, pos \in Nat : Growing(home, pos, units)
  BY CreatingAt
<1>3. PICK first \in Sectors : first = dir.info[wr.index].sector
  BY <1>2 DEF Growing
<1>4. /\ dir.table[home] = wr.index + 1 /\ Placed(home, pos, units)
      /\ dir.table[first] = wr.index + 1 /\ home = first + wr.sector
      /\ wr.offset = Len(wr.crc) /\ Reads(Begun, first * S, wr.crc, Len(wr.crc))
      /\ Crosses(units) => Following(units) = home + 1
  BY <1>2, <1>3 DEF Growing
<1>5. PICK current : current = IF Crosses(units) THEN Following(units) ELSE home
  OBVIOUS
<1>6. Orderly(g) /\ \A s \in Sectors : s > current => g.table[s] = 0
  BY <1>2, <1>5, GrownOrderly
<1>7. /\ ~w.firstIn /\ current \in Sectors
      /\ w.sector = (IF Crosses(units) THEN wr.sector + 1 ELSE wr.sector)
      /\ g.table[current] = wr.index + 1
      /\ w.offset >= S * w.sector /\ w.offset <= S * (w.sector + 1)
      /\ w.addr = current * S + (w.offset - S * w.sector)
  <2>1. w = After(units) /\ g = Grown(units) /\ wr.index \in Sectors /\ OInv
    BY <1>1
  <2> QED
    BY <1>4, <1>5, <2>1, PositionAfter, SMTT(20)
<1>8. w \in WriteState /\ w.index = wr.index
  BY <1>1, OutcomePosition
<1>9. g.info = dir.info /\ g.table[first] = wr.index + 1 /\ g.total = dir.total
  BY <1>1, <1>4, PacketOwns, GrownNames
<1>10. first \in Nat /\ wr.sector \in Nat /\ wr.crc \in Stream /\ wr.offset \in Nat
  BY SectorNumbers DEF NInv, WrShape, WriteState
<1>11. current = first + w.sector
  BY <1>4, <1>5, <1>7, <1>10
<1>12. w.offset = wr.offset + Len(units) /\ w.crc = all
  BY DEF After, Offset, NInv, WrShape, WriteState
<1>13. Len(all) = wr.offset + Len(units)
  BY <1>4, <1>10, BehindSent
<1>14. w.offset > S * w.sector
  <2>1. CASE Crosses(units)
    <3>1. Over(units) > 0 /\ w.sector = wr.sector + 1
      BY <1>7, <2>1 DEF Crosses
    <3> QED
      BY <1>12, <3>1 DEF Over, Offset
  <2>2. CASE ~Crosses(units)
    <3>1. PICK full \in Nat : full = S * wr.sector
      BY <1>10, Products
    <3>2. wr.offset = full + pos /\ w.sector = wr.sector /\ Len(units) \in Nat
      BY <1>4, <1>7, <2>2, <3>1 DEF Placed, Stream
    <3> QED
      BY <1>12, <3>1, <3>2
  <2> QED
    BY <2>1, <2>2
<1>15. Reads(RestDone(units), first * S, all, Len(all))
  <2>1. PICK next : next = Following(units)
    OBVIOUS
  <2>2. Crosses(units) => next = home + 1
    BY <1>4, <2>1
  <2> QED
    BY <1>1, <1>4, <1>10, <2>1, <2>2, PacketReads
<1>16. FilledTo(g, w, RestDone(units), all, current)
  BY <1>3, <1>6, <1>7, <1>9, <1>11, <1>12, <1>13, <1>14, <1>15 DEF FilledTo
<1> QED
  BY <1>6, <1>7, <1>8, <1>9, <1>12, <1>16

\* The last packet lists the file, and it reads back as everything sent.
LEMMA CommitOrderly ==
  ASSUME NInv, CInv, client.phase = "open", client.kind = "write", NEW units \in Stream,
         Len(units) > 0, Len(units) <= S, NEW more \in BOOLEAN, Commits(units, more),
         NEW e, e = Final(units, more), NEW i, i = wr.index
  PROVE  /\ Orderly(e) /\ e.total = dir.total + 1
         /\ \A j \in Sectors : j # i => e.info[j] = dir.info[j]
         /\ ReadBack(RestDone(units), e.info[i]) = e.info[i].crc
<1> DEFINE g == Grown(units)
           w == After(units)
           all == wr.crc \o units
<1>1. OInv /\ wr.index \in Sectors /\ wr.index = dir.total /\ ~existFlag /\ ~Full(units)
  BY CreatingOwns DEF Commits
<1>2. PICK current :
        /\ Orderly(g) /\ w \in WriteState /\ g.total = dir.total /\ g.info = dir.info
        /\ FilledTo(g, w, RestDone(units), all, current)
  BY <1>1, PacketFills
<1>3. /\ e.total = dir.total + 1
      /\ \A j \in Sectors : j # i => e.info[j] = dir.info[j]
      /\ e.info[i].sector = dir.info[i].sector
      /\ e.info[i].size = w.offset
      /\ \A t \in Sectors : e.table[t] = g.table[t]
  BY <1>1, FinalIs
<1>4. PICK first \in Sectors : first = dir.info[i].sector
  BY <1>2 DEF FilledTo
<1>5. /\ g.table[first] = i + 1
      /\ current \in Sectors /\ current = first + w.sector /\ g.table[current] = i + 1
      /\ \A s \in Sectors : s > current => g.table[s] = 0
      /\ w.offset = Len(all) /\ w.offset > S * w.sector /\ w.offset <= S * (w.sector + 1)
      /\ Reads(RestDone(units), first * S, all, Len(all))
  BY <1>2, <1>4 DEF FilledTo
<1>6. /\ w.sector \in Nat /\ w.offset \in Nat /\ first \in Nat /\ current \in Nat
      /\ i \in Nat /\ i \in Sectors /\ Sectors \subseteq Nat /\ N \in Nat /\ i = dir.total
      /\ all \in Stream
  <2>1. all \in Stream
    BY DEF NInv, WrShape, WriteState, Stream
  <2> HIDE DEF w, g, all
  <2>2. w.sector \in Nat /\ w.offset \in Nat
    BY <1>2 DEF WriteState
  <2> QED
    BY <1>1, <1>4, <1>5, <2>1, <2>2, SectorNumbers
<1> HIDE DEF g, w
<1>7. e.occupy = Cardinality({s \in Sectors : e.table[s] # 0}) /\ e.info[i].crc = all
  <2>1. e = Commit(g, fileNum, existFlag, i, Offset(units), all)
    BY DEF Final, g
  <2>2. existFlag = FALSE /\ g.info \in [Sectors -> Entry]
    BY <1>1, <1>2 DEF NInv, DirShape
  <2> HIDE DEF all
  <2> DEFINE surplus == IF existFlag THEN Surplus(g, i, Offset(units)) ELSE {}
             table == [s \in Sectors |-> IF s \in surplus THEN 0 ELSE g.table[s]]
  <2>3. /\ e.info = [g.info EXCEPT ![i].size = Offset(units), ![i].crc = all]
        /\ e.table = table
        /\ e.occupy = Cardinality({s \in Sectors : table[s] # 0})
    BY <2>1 DEF Commit
  <2> HIDE DEF table
  <2>4. e.info[i].crc = all
    BY <1>6, <2>2, <2>3 DEF Entry
  <2> QED
    BY <2>3, <2>4
<1> HIDE DEF all
<1>8. {s \in Sectors : e.table[s] # 0} = 0..current
  <2>1. \A s \in Sectors : s <= current => g.table[s] # 0
    <3> SUFFICES ASSUME NEW s \in Sectors, s <= current PROVE g.table[s] # 0
      OBVIOUS
    <3>1. s = current \/ s < current
      BY <1>6
    <3>2. Rising(g.table) /\ current \in Sectors /\ g.table[current] = i + 1 /\ i + 1 # 0
      BY <1>2, <1>5, <1>6 DEF Orderly
    <3> QED
      BY <3>1, <3>2 DEF Rising
  <2>2. \A s \in 0..current : s \in Sectors
    BY <1>5, <1>6, SectorNumbers
  <2>3. \A s \in Sectors : g.table[s] # 0 <=> s \in 0..current
    <3>1. \A s \in Sectors : s \in Nat /\ (s <= current \/ s > current)
      BY <1>6
    <3>2. \A s \in Sectors : s <= current <=> s \in 0..current
      BY <1>6
    <3> QED
      BY <1>5, <2>1, <3>1, <3>2
  <2> QED
    BY <1>3, <2>2, <2>3
<1>9. e.occupy = current + 1 /\ e.occupy \in 0..N
  <2>1. Cardinality(0..current) = current + 1
    BY <1>6, FS_Interval
  <2>2. e.occupy = current + 1
    BY <1>7, <1>8, <2>1
  <2>3. current < N
    BY <1>5, <1>6, SectorNumbers
  <2> QED
    BY <1>6, <2>2, <2>3
<1>10. e.table \in [Sectors -> Nat]
  BY <1>1, PacketOwns DEF Owns
<1>11. Rising(e.table) /\ \A s \in Sectors : e.table[s] <= e.total + 1
  <2>1. Rising(e.table)
    BY <1>2, <1>3 DEF Orderly, Rising
  <2>2. \A s \in Sectors : e.table[s] <= e.total + 1
    BY <1>2, <1>3, <1>6, <1>10 DEF Orderly
  <2> QED
    BY <2>1, <2>2
<1>12. ASSUME NEW j \in Sectors, j < e.total, j # i PROVE Lies(e, j)
  <2>1. j \in Nat /\ j < dir.total /\ e.info[j] = g.info[j] /\ j < g.total
    <3>1. j \in Nat /\ j < dir.total
      BY <1>3, <1>6, <1>12
    <3> QED
      BY <1>2, <1>3, <1>12, <3>1
  <2>2. DirShape(g)
    BY GrownNames DEF g
  <2>3. /\ Lies(g, j) /\ End(g.info[j]) \in Nat /\ End(g.info[j]) - 1 \in Sectors
        /\ g.table[End(g.info[j]) - 1] = j + 1
    BY <1>2, <2>1, <2>2, LiesFrom DEF Orderly
  <2>4. PICK end \in Nat : end = End(g.info[j])
    BY <2>3
  <2>5. end - 1 \in Sectors /\ g.table[end - 1] # 0
    BY <2>1, <2>3, <2>4
  <2>6. ~(end - 1 > current)
    BY <1>5, <2>5
  <2>7. end <= e.occupy
    BY <1>6, <1>9, <2>4, <2>6
  <2>8. \A s \in Sectors : g.table[s] = j + 1 => e.table[s] = j + 1
    BY <1>3
  <2> QED
    BY <2>1, <2>3, <2>4, <2>7, <2>8 DEF Lies
<1>13. Lies(e, i)
  <2>1. CeilSectors(w.offset) = w.sector + 1
    BY <1>5, <1>6, CeilIs
  <2>2. End(e.info[i]) = current + 1 /\ e.info[i].sector = first /\ e.info[i].size = w.offset
    <3>1. e.info[i].sector = first /\ e.info[i].size = w.offset
      BY <1>3, <1>4
    <3>2. End(e.info[i]) = first + (w.sector + 1)
      BY <2>1, <3>1 DEF End
    <3> QED
      BY <1>5, <1>6, <3>1, <3>2
  <2>3. w.offset > 0
    <3>1. S * w.sector \in Nat
      BY <1>6, Products
    <3> QED
      BY <1>5, <1>6, <3>1
  <2>4. ASSUME NEW s \in first .. current PROVE s \in Sectors /\ e.table[s] = i + 1
    <3>1. s \in Sectors /\ s \in Nat /\ s >= first /\ s <= current
      BY <1>5, <1>6, SectorNumbers
    <3>2. g.table \in [Sectors -> Nat] /\ g.table[s] <= i + 1
      BY <1>2, <1>6, <3>1 DEF Orderly
    <3>3. g.table[s] # 0 /\ i + 1 <= g.table[s]
      <4>1. CASE s = current
        BY <1>5, <1>6, <4>1
      <4>2. CASE s # current
        <5>0. s < current /\ g.table[current] # 0
          BY <1>5, <1>6, <3>1, <4>2
        <5>1. g.table[s] # 0
          BY <1>2, <1>5, <3>1, <5>0 DEF Orderly, Rising
        <5>2. i + 1 <= g.table[s]
          <6>1. CASE s = first
            BY <1>5, <1>6, <6>1
          <6>2. CASE s # first
            BY <1>2, <1>5, <1>6, <3>1, <5>1, <6>2 DEF Orderly, Rising
          <6> QED
            BY <6>1, <6>2
        <5> QED
          BY <5>1, <5>2
      <4> QED
        BY <4>1, <4>2
    <3> QED
      BY <1>3, <1>6, <3>1, <3>2, <3>3
  <2>5. current + 1 - 1 = current /\ current + 1 <= e.occupy
    BY <1>6, <1>9
  <2>6. End(e.info[i]) - 1 = current
    BY <1>6, <2>2, <2>5
  <2>7. \A s \in e.info[i].sector .. (End(e.info[i]) - 1) : s \in Sectors /\ e.table[s] = i + 1
    BY <2>2, <2>4, <2>6
  <2>8. e.info[i].size > 0 /\ End(e.info[i]) <= e.occupy
    BY <2>2, <2>3, <2>5
  <2> QED
    BY <2>7, <2>8 DEF Lies
<1>14. ReadBack(RestDone(units), e.info[i]) = all
  <2>1. ReadBack(RestDone(units), e.info[i]) =
          [k \in 1..Len(all) |-> UnitAt(RestDone(units), first * S + k - 1)]
    BY <1>3, <1>4, <1>5 DEF ReadBack
  <2>2. all = [k \in 1..Len(all) |-> all[k]]
    <3>1. all \in [1..Len(all) -> Nat \X Nat]
      BY <1>6, LenProperties DEF Stream
    <3> QED
      BY <3>1
  <2> QED
    BY <1>5, <2>1, <2>2 DEF Reads
<1> QED
  BY <1>3, <1>7, <1>9, <1>10, <1>11, <1>12, <1>13, <1>14 DEF Orderly

-----------------------------------------------------------------------------
(***************************************************************************)
(* The listed files through the steps of the system.                       *)
(***************************************************************************)
\* Whatever a transfer has done to flash, the files that were listed before it
\* read back as before.
LEMMA ListedStays ==
  ASSUME NInv, Orderly(dir), Whole(data, dir), wr.index \in Sectors, wr.index = dir.total,
         NEW d, Untouched(d), NEW i \in Sectors, i < dir.total
  PROVE  ReadBack(d, dir.info[i]) = dir.info[i].crc
<1> DEFINE info == dir.info[i]
<1>1. /\ i \in Nat /\ info.sector \in Nat /\ info.size \in Nat /\ wr.index \in Nat
      /\ i # wr.index
  BY SectorNumbers DEF NInv, DirShape, Entry
<1>2. Lies(dir, i)
  BY DEF Orderly
<1> HIDE DEF info
<1>3. ASSUME NEW k \in 1..info.size
      PROVE  UnitAt(d, info.sector * S + k - 1) = UnitAt(data, info.sector * S + k - 1)
  <2> DEFINE a == info.sector * S + k - 1
             s == a \div S
  <2>1. s \in info.sector .. (End(info) - 1)
    <3>1. PICK c \in Nat : c = CeilSectors(info.size)
      BY <1>1, <1>2, CeilFrom DEF Lies, info
    <3>2. s \in info.sector .. (info.sector + c - 1)
      BY <1>1, <3>1, Products, AddressInRun DEF CeilSectors
    <3>3. End(info) = info.sector + c
      BY <3>1 DEF End
    <3> HIDE DEF s
    <3> QED
      BY <1>1, <3>2, <3>3
  <2>2. s \in Sectors /\ dir.table[s] = i + 1
    BY <1>2, <2>1 DEF Lies, info
  <2>3. ~Ours(s)
    BY <1>1, <2>2 DEF Ours
  <2>4. d[s] = data[s]
    BY <2>2, <2>3 DEF Untouched
  <2> QED
    BY <2>4 DEF UnitAt
<1>4. ReadBack(d, info) = ReadBack(data, info)
  BY <1>3 DEF ReadBack
<1> QED
  BY <1>4 DEF Whole, info

\* A start, from a directory whose files are whole in flash.
LEMMA BootOrderly ==
  ASSUME NEW dk, dk # NoDir => DirShape(dk) /\ Orderly(dk), Boot(dk), data' \in Flash,
         NEW load, load = LoadDir(dk), Whole(data', load)
  PROVE  CInv'
<1>1. /\ disk' = dk /\ dir' = load /\ ~formatFlag' /\ client' = Idle
  BY DEF Boot
<1>2. /\ Orderly(load) /\ load \in {dk, ZeroDir}
      /\ dk # NoDir /\ dk.total < N /\ dk.occupy < N =>
           /\ dk.total = load.total
           /\ \A i \in Sectors : i < load.total => dk.info[i] = load.info[i]
  BY LoadOrderly
<1>3. AsOnDisk'
  BY <1>1, <1>2 DEF AsOnDisk
<1>4. Appending' /\ Deleting'
  BY <1>1, IdleIs DEF Appending, Deleting
<1>5. Whole(data', dir') /\ Orderly(dir') /\ (disk' # NoDir => Orderly(disk'))
  BY <1>1, <1>2
<1> QED
  BY <1>1, <1>3, <1>4, <1>5 DEF CInv, Whole, Orderly, Rising, Lies, Flash

\* The files a start lists from a directory in flash that RAM agrees with.
LEMMA LoadWhole ==
  ASSUME NInv, CInv, NEW flash, Whole(flash, dir), NEW load, load = LoadDir(disk)
  PROVE  Whole(flash, load)
<1>1. \/ load = ZeroDir
      \/ load = disk /\ disk # NoDir /\ disk.total < N /\ disk.occupy < N
  <2>1. load # ZeroDir => /\ load = disk /\ disk # NoDir
                          /\ disk.total \in 1..(N - 1) /\ disk.occupy \in 1..(N - 1)
    BY DEF LoadDir
  <2> QED
    BY <2>1, SectorNumbers
<1>2. CASE load = ZeroDir
  <2>1. load.total = 0
    BY <1>2 DEF ZeroDir
  <2>2. \A i \in Sectors : ~(i < 0)
    BY SectorNumbers
  <2> QED
    BY <2>1, <2>2 DEF Whole
<1>3. CASE load = disk /\ disk # NoDir /\ disk.total < N /\ disk.occupy < N
  BY <1>3 DEF CInv, AsOnDisk, Whole
<1> QED
  BY <1>1, <1>2, <1>3

\* A step that leaves the files alone and no transfer of one open.
LEMMA FrameOrderly ==
  ASSUME CInv, UNCHANGED <<data, disk, dir>>, ~formatFlag',
         client'.phase = "open" => client'.kind \notin {"write", "delete"}
  PROVE  CInv'
<1>1. Appending' /\ Deleting'
  BY DEF Appending, Deleting
<1>2. AsOnDisk'
  BY DEF CInv, AsOnDisk
<1> QED
  BY <1>1, <1>2 DEF CInv, Whole, Orderly, Rising, Lies, Flash

\* The end of a transfer, with the directory on disk as it was or gone.
LEMMA EndOrderly ==
  ASSUME CInv, client' = Idle, formatFlag' = formatFlag, data' \in Flash,
         Whole(data', dir'), Orderly(dir'), dir' = disk' \/ disk' = NoDir
           \/ (disk' = disk /\ dir'.total = dir.total
               /\ \A i \in Sectors : i < dir.total => dir'.info[i] = dir.info[i])
  PROVE  CInv'
<1>1. Appending' /\ Deleting'
  BY IdleIs DEF Appending, Deleting
<1>2. AsOnDisk'
  BY DEF CInv, AsOnDisk
<1>3. disk' # NoDir => Orderly(disk')
  BY DEF CInv
<1> QED
  BY <1>1, <1>2, <1>3 DEF CInv, Whole, Orderly, Rising, Lies, Flash

LEMMA OpenOrderly ==
  ASSUME NInv, CInv, OnlyAppends, NEW name \in Names, NEW kind \in {"write", "delete"},
         OpenFile(name, kind)
  PROVE  CInv'
<1> DEFINE add == AddFile(name)
<1>1. /\ dir' = add.dir /\ existFlag' = add.exist /\ wr' = Fresh(add.index)
      /\ data' = data /\ disk' = disk /\ formatFlag' = formatFlag
      /\ client' = IF add.index = NotFound THEN Idle
                   ELSE [phase |-> "open", kind |-> kind, name |-> name, sent |-> <<>>]
      /\ Requests(name, kind)
  BY DEF OpenFile, flashVars
<1>2. add.index \in Sectors \cup {NotFound}
  BY AddFileNames
<1>3. /\ wr'.index = add.index /\ wr'.offset = 0 /\ wr'.sector = 0 /\ wr'.firstIn
      /\ wr'.crc = <<>>
  BY <1>1, <1>2 DEF NInv, WrShape, WriteState, Fresh
<1>4. CASE kind = "write" /\ ~Listed(name)
  <2>1. /\ Orderly(add.dir) /\ add.dir.total = dir.total
        /\ \A i \in Sectors : i < dir.total => add.dir.info[i] = dir.info[i]
        /\ add.index # NotFound =>
             LET first == add.dir.info[add.index].sector
             IN  /\ ~add.exist /\ first \in Sectors
                 /\ add.dir.table[first] = add.index + 1
                 /\ \A s \in Sectors : s > first => add.dir.table[s] = 0
    BY <1>4, AddOrderly DEF CInv
  <2> HIDE DEF add
  <2>2. Whole(data', dir')
    BY <1>1, <2>1 DEF CInv, Whole
  <2>3. AsOnDisk'
    BY <1>1, <2>1 DEF CInv, AsOnDisk
  <2>4. Appending' /\ Deleting'
    <3>1. CASE add.index = NotFound
      BY <1>1, <3>1, IdleIs DEF Appending, Deleting
    <3>2. CASE add.index # NotFound
      <4>1. client'.kind = "write"
        BY <1>1, <1>4, <3>2
      <4>2. Appending'
        BY <1>1, <1>3, <2>1, <3>2 DEF Appending, Behind
      <4> QED
        BY <4>1, <4>2 DEF Deleting
    <3> QED
      BY <3>1, <3>2
  <2> QED
    BY <1>1, <2>1, <2>2, <2>3, <2>4 DEF CInv, Whole, Orderly, Rising, Lies, Flash
<1>5. CASE /\ kind = "delete" /\ Listed(name) /\ FindFile(dir, fileNum, name) = fileNum - 1
           /\ \A s \in Sectors : dir.table[s] <= fileNum
  <2>1. add.dir = dir /\ (add.index = NotFound \/ add.index = fileNum - 1)
    BY <1>5, SectorNumbers DEF AddFile, Listed
  <2> HIDE DEF add
  <2>2. fileNum = dir.total
    BY DEF NInv
  <2>3. Appending' /\ Deleting'
    <3>1. CASE add.index = NotFound
      BY <1>1, <3>1, IdleIs DEF Appending, Deleting
    <3>2. CASE add.index # NotFound
      BY <1>1, <1>3, <1>5, <2>1, <2>2, <3>2 DEF Appending, Deleting
    <3> QED
      BY <3>1, <3>2
  <2>4. AsOnDisk'
    BY <1>1, <2>1 DEF CInv, AsOnDisk
  <2> QED
    BY <1>1, <2>1, <2>3, <2>4 DEF CInv, Whole, Orderly, Rising, Lies, Flash
<1> QED
  BY <1>1, <1>4, <1>5 DEF Requests, OnlyAppends

\* A packet of a new file, as the lemmas above take it.
LEMMA CreatingPacket ==
  ASSUME NInv, CInv, NEW size \in 1..MaxPacket, NEW more \in BOOLEAN, WritesData(size, more),
         NEW units, units = Packet(size)
  PROVE  /\ client.phase = "open" /\ client.kind = "write" /\ units \in Stream
         /\ Len(units) > 0 /\ Len(units) <= S
         /\ OInv /\ ~existFlag /\ wr.index \in Sectors /\ wr.index = dir.total
<1>1. /\ client.phase = "open" /\ client.kind = "write" /\ units \in Stream /\ Len(units) <= S
  BY WritingPacket
<1>2. Len(units) = size
  BY PacketSize, PacketStream DEF NInv
<1> QED
  BY <1>1, <1>2, CreatingOwns

\* The flash images and directories a packet passes through: files listed
\* before it stay whole, and so is the new one when it is listed.
LEMMA PacketWhole ==
  ASSUME NInv, CInv, client.phase = "open", client.kind = "write", NEW units \in Stream,
         Len(units) > 0, Len(units) <= S, NEW more \in BOOLEAN
  PROVE  /\ \A d \in {Begun, FrontDone(units), NextErased(units), RestDone(units)}
                     \cup Torn(units) :
              d \in Flash /\ Whole(d, dir) /\ Whole(d, Grown(units))
         /\ Orderly(Grown(units)) /\ Grown(units).total = dir.total
         /\ Grown(units).info = dir.info
         /\ Commits(units, more) => /\ Orderly(Final(units, more))
                                    /\ Whole(RestDone(units), Final(units, more))
<1>1. OInv /\ wr.index \in Sectors /\ wr.index = dir.total
  BY CreatingOwns
<1>2. Grown(units).total = dir.total /\ Grown(units).info = dir.info
  BY <1>1, GrownNames
<1>3. ASSUME NEW d \in {Begun, FrontDone(units), NextErased(units), RestDone(units)}
                       \cup Torn(units)
      PROVE  Untouched(d) /\ Whole(d, dir) /\ Whole(d, Grown(units))
  <2>1. Untouched(d)
    BY <1>1, PacketUntouched
  <2>2. Whole(d, dir)
    BY <1>1, <2>1, ListedStays DEF CInv, Whole
  <2> QED
    BY <1>2, <2>1, <2>2 DEF Whole
<1>4. Orderly(Grown(units))
  <2>1. PICK home \in Sectors, pos \in Nat : Growing(home, pos, units)
    BY CreatingAt
  <2> QED
    BY <2>1, GrownOrderly
<1>5. ASSUME Commits(units, more)
      PROVE  Orderly(Final(units, more)) /\ Whole(RestDone(units), Final(units, more))
  <2>1. PICK e, i : e = Final(units, more) /\ i = wr.index
    OBVIOUS
  <2>2. /\ Orderly(e) /\ e.total = dir.total + 1
        /\ \A j \in Sectors : j # i => e.info[j] = dir.info[j]
        /\ ReadBack(RestDone(units), e.info[i]) = e.info[i].crc
    BY <1>5, <2>1, CommitOrderly
  <2>3. ASSUME NEW j \in Sectors, j < e.total
        PROVE  ReadBack(RestDone(units), e.info[j]) = e.info[j].crc
    <3>1. CASE j = i
      BY <2>2, <3>1
    <3>2. CASE j # i
      <4>1. j \in Nat /\ dir.total \in Nat /\ j < dir.total
        BY <1>1, <2>1, <2>2, <2>3, <3>2, SectorNumbers
      <4> QED
        BY <1>3, <2>2, <3>2, <4>1 DEF Whole
    <3> QED
      BY <3>1, <3>2
  <2> QED
    BY <2>1, <2>2, <2>3 DEF Whole
<1> QED
  BY <1>2, <1>3, <1>4, <1>5 DEF Untouched

LEMMA DataPacketOrderly ==
  ASSUME NInv, CInv, NEW size \in 1..MaxPacket, NEW more \in BOOLEAN, DataPacket(size, more)
  PROVE  CInv'
<1> DEFINE units == Packet(size)
           out == WriteOutcome(units, more)
<1>1. /\ dir' = out.dir /\ wr' = out.wr /\ disk' = IF out.commits THEN out.dir ELSE disk
      /\ data' = out.images[4] /\ existFlag' = (IF out.commits THEN FALSE ELSE existFlag)
      /\ IF out.full THEN Rejected ELSE Accepted(size, more)
      /\ WritesData(size, more) /\ transfers' = transfers /\ formatFlag' = formatFlag
  BY DEF DataPacket
<1>2. /\ client.phase = "open" /\ client.kind = "write" /\ units \in Stream
      /\ Len(units) > 0 /\ Len(units) <= S
      /\ OInv /\ ~existFlag /\ wr.index \in Sectors /\ wr.index = dir.total
  BY <1>1, CreatingPacket
<1> HIDE DEF units
<1>3. /\ out.full = Full(units) /\ out.commits = Commits(units, more)
      /\ out.dir = Final(units, more) /\ out.wr = After(units)
  BY OutcomeIs, Zenon
<1>4. out.images = <<Begun, FrontDone(units), NextErased(units), RestDone(units)>>
  BY ImagesAre, Zenon
<1> HIDE DEF out
<1>5. data' = RestDone(units)
  BY <1>1, <1>4
<1>6. /\ data' \in Flash /\ Whole(data', Grown(units))
      /\ Orderly(Grown(units)) /\ Grown(units).total = dir.total
      /\ Grown(units).info = dir.info
      /\ Commits(units, more) => /\ Orderly(Final(units, more))
                                 /\ Whole(data', Final(units, more))
  BY <1>2, <1>5, PacketWhole
<1>7. CASE Commits(units, more)
  <2>1. client' = Idle /\ dir' = Final(units, more) /\ disk' = dir'
    BY <1>1, <1>3, <1>7 DEF Commits, Accepted
  <2> QED
    BY <1>1, <1>6, <1>7, <2>1, EndOrderly
<1>8. CASE Full(units)
  <2>1. client' = Idle /\ dir' = Grown(units) /\ disk' = disk
    BY <1>1, <1>3, <1>8 DEF Commits, Final, Rejected
  <2> QED
    BY <1>1, <1>6, <2>1, EndOrderly
<1>9. CASE ~Full(units) /\ more
  <2>1. /\ dir' = Grown(units) /\ wr' = After(units) /\ disk' = disk
        /\ existFlag' = existFlag /\ Accepted(size, more)
    BY <1>1, <1>3, <1>9 DEF Commits, Final
  <2>2. client'.phase = client.phase /\ client'.kind = client.kind
    BY <1>1, <1>9, <2>1, PacketSize, AcceptedShape DEF NInv
  <2>3. PICK w, g, all : w = After(units) /\ g = Grown(units) /\ all = wr.crc \o units
    OBVIOUS
  <2>4. /\ w.index = wr.index /\ ~w.firstIn /\ w.crc = all
        /\ g.info = dir.info
        /\ \E current : FilledTo(g, w, RestDone(units), all, current)
    BY <1>2, <1>9, <2>3, PacketFills
  <2>5. PICK current : FilledTo(g, w, RestDone(units), all, current)
    BY <2>4
  <2>6. wr' = w /\ dir' = g /\ wr'.index = wr.index
    BY <2>1, <2>3, <2>4
  <2>7. Appending'
    <3>1. PICK first : first = g.info[wr.index].sector
      OBVIOUS
    <3>2. /\ first \in Sectors /\ g.table[first] = wr.index + 1
          /\ current \in Sectors /\ current = first + w.sector
          /\ g.table[current] = wr.index + 1
          /\ \A s \in Sectors : s > current => g.table[s] = 0
          /\ w.offset = Len(all) /\ w.offset > S * w.sector
          /\ w.offset >= S * w.sector /\ w.offset <= S * (w.sector + 1)
          /\ w.addr = current * S + (w.offset - S * w.sector)
          /\ Reads(RestDone(units), first * S, all, Len(all))
      BY <2>5, <3>1 DEF FilledTo
    <3>3. first = dir'.info[wr'.index].sector
      BY <2>6, <3>1
    <3>4. At(current)' /\ Behind(current)'
      BY <2>6, <3>2 DEF At, InSector, Behind
    <3>5. Reads(data', first * S, wr'.crc, Len(wr'.crc))
      BY <1>5, <2>4, <2>6, <3>2
    <3>6. dir'.info[wr'.index].sector + wr'.sector = current
      BY <2>6, <3>2, <3>3
    <3>7. /\ ~existFlag' /\ wr'.offset = Len(wr'.crc) /\ ~wr'.firstIn
          /\ dir'.table[first] = wr'.index + 1 /\ wr'.offset > S * wr'.sector
      BY <1>2, <2>1, <2>4, <2>6, <3>2
    <3> QED
      BY <3>2, <3>3, <3>4, <3>5, <3>6, <3>7 
         DEF Appending, At, InSector, Behind, Reads, UnitAt
  <2>8. Deleting'
    BY <1>2, <2>2 DEF Deleting
  <2>9. AsOnDisk'
    BY <1>6, <2>1 DEF CInv, AsOnDisk
  <2>10. Whole(data', dir') /\ Orderly(dir') /\ (disk' # NoDir => Orderly(disk'))
    BY <1>6, <2>1 DEF CInv
  <2> QED
    BY <1>1, <1>6, <2>7, <2>8, <2>9, <2>10 DEF CInv, Whole, Orderly, Rising, Lies, Flash
<1> QED
  BY <1>7, <1>8, <1>9 DEF Commits

LEMMA FailedDataWriteOrderly ==
  ASSUME NInv, CInv, NEW size \in 1..MaxPacket, NEW more \in BOOLEAN,
         FailedDataWrite(size, more)
  PROVE  CInv'
<1> DEFINE units == Packet(size)
           out == WriteOutcome(units, more)
<1>1. client' = Idle /\ WritesData(size, more) /\ formatFlag' = formatFlag
  BY DEF FailedDataWrite, Rejected
<1>2. \/ data' \in out.tornHead /\ dir' = dir /\ disk' = disk
      \/ data' \in out.tornTail /\ dir' = out.grown /\ disk' = disk
      \/ out.commits /\ data' = out.images[4] /\ dir' = out.dir /\ disk' = NoDir
  BY DEF FailedDataWrite
<1>3. /\ client.phase = "open" /\ client.kind = "write" /\ units \in Stream
      /\ Len(units) > 0 /\ Len(units) <= S
  BY <1>1, CreatingPacket
<1> HIDE DEF units
<1>4. /\ out.dir = Final(units, more) /\ out.grown = Grown(units)
      /\ out.commits = Commits(units, more)
  BY OutcomeIs, Zenon
<1>5. /\ out.images = <<Begun, FrontDone(units), NextErased(units), RestDone(units)>>
      /\ out.tornHead \cup out.tornTail = Torn(units)
  BY ImagesAre, Zenon
<1> HIDE DEF out
<1>6. /\ \A d \in {Begun, FrontDone(units), NextErased(units), RestDone(units)}
                  \cup Torn(units) :
           d \in Flash /\ Whole(d, dir) /\ Whole(d, Grown(units))
      /\ Orderly(Grown(units)) /\ Grown(units).total = dir.total
      /\ Grown(units).info = dir.info
      /\ Commits(units, more) => /\ Orderly(Final(units, more))
                                 /\ Whole(RestDone(units), Final(units, more))
  BY <1>3, PacketWhole
<1>7. CASE data' \in out.tornHead /\ dir' = dir /\ disk' = disk
  <2>1. data' \in Torn(units)
    BY <1>5, <1>7
  <2>2. data' \in Flash /\ Whole(data', dir') /\ Orderly(dir')
    BY <1>6, <1>7, <2>1 DEF CInv
  <2> QED
    BY <1>1, <1>7, <2>2, EndOrderly
<1>8. CASE data' \in out.tornTail /\ dir' = out.grown /\ disk' = disk
  <2>1. data' \in Torn(units)
    BY <1>5, <1>8
  <2>2. data' \in Flash /\ Whole(data', dir') /\ Orderly(dir')
    BY <1>4, <1>6, <1>8, <2>1
  <2> QED
    BY <1>1, <1>4, <1>6, <1>8, <2>2, EndOrderly
<1>9. CASE out.commits /\ data' = out.images[4] /\ dir' = out.dir /\ disk' = NoDir
  <2>1. data' = RestDone(units)
    BY <1>5, <1>9
  <2>2. data' \in Flash /\ Whole(data', dir') /\ Orderly(dir')
    BY <1>4, <1>6, <1>9, <2>1
  <2> QED
    BY <1>1, <1>9, <2>2, EndOrderly
<1> QED
  BY <1>2, <1>7, <1>8, <1>9

\* A start with flash as it is, or as a firmware update left it.
LEMMA RestartOrderly ==
  ASSUME NInv, CInv, Boot(disk), data' = data
  PROVE  CInv'
<1>1. PICK load : load = LoadDir(disk)
  OBVIOUS
<1>2. Whole(data', load) /\ data' \in Flash
  BY <1>1, LoadWhole DEF CInv
<1>3. disk # NoDir => DirShape(disk) /\ Orderly(disk)
  BY DEF NInv, CInv
<1> QED
  BY <1>1, <1>2, <1>3, BootOrderly

\* A start from an erased directory sector.
LEMMA LoadNothing ==
  ASSUME NEW flash
  PROVE  Whole(flash, LoadDir(NoDir))
<1>1. LoadDir(NoDir).total = 0
  BY DEF LoadDir, ZeroDir
<1>2. \A i \in Sectors : ~(i < 0)
  BY SectorNumbers
<1> QED
  BY <1>1, <1>2 DEF Whole

LEMMA PowerFailsOrderly ==
  ASSUME NInv, CInv, NEW size \in 1..MaxPacket, NEW more \in BOOLEAN,
         PowerFailsInPacket(size, more)
  PROVE  CInv'
<1> DEFINE units == Packet(size)
           out == WriteOutcome(units, more)
<1>1. /\ WritesData(size, more)
      /\ \/ /\ Boot(disk)
            /\ \/ \E k \in 1..4 : data' = out.images[k]
               \/ data' \in out.tornHead \cup out.tornTail
         \/ /\ out.commits /\ data' = out.images[4]
            /\ Boot(NoDir) \/ Boot(out.dir)
  BY DEF PowerFailsInPacket
<1>2. /\ client.phase = "open" /\ client.kind = "write" /\ units \in Stream
      /\ Len(units) > 0 /\ Len(units) <= S /\ wr.index \in Sectors
  BY <1>1, CreatingPacket
<1> HIDE DEF units
<1>3. out.dir = Final(units, more) /\ out.commits = Commits(units, more)
  BY OutcomeIs, Zenon
<1>4. /\ out.images = <<Begun, FrontDone(units), NextErased(units), RestDone(units)>>
      /\ out.tornHead \cup out.tornTail = Torn(units)
  BY ImagesAre, Zenon
<1> HIDE DEF out
<1>5. /\ \A d \in {Begun, FrontDone(units), NextErased(units), RestDone(units)}
                  \cup Torn(units) :
           d \in Flash /\ Whole(d, dir) /\ Whole(d, Grown(units))
      /\ Commits(units, more) => /\ Orderly(Final(units, more))
                                 /\ Whole(RestDone(units), Final(units, more))
  BY <1>2, PacketWhole
<1>6. data' \in Flash /\ Whole(data', dir)
  <2>1. \/ data' \in {Begun, FrontDone(units), NextErased(units), RestDone(units)}
        \/ data' \in Torn(units)
    BY <1>1, <1>4
  <2> QED
    BY <1>5, <2>1
<1>7. CASE Boot(disk)
  <2>1. PICK load : load = LoadDir(disk)
    OBVIOUS
  <2>2. PICK flash : flash = data'
    OBVIOUS
  <2>3. Whole(flash, load)
    BY <1>6, <2>1, <2>2, LoadWhole
  <2>4. disk # NoDir => DirShape(disk) /\ Orderly(disk)
    BY DEF NInv, CInv
  <2> QED
    BY <1>6, <1>7, <2>1, <2>2, <2>3, <2>4, BootOrderly
<1>8. CASE Boot(NoDir)
  <2>1. PICK load : load = LoadDir(NoDir)
    OBVIOUS
  <2>2. Whole(data', load)
    BY <2>1, LoadNothing
  <2> QED
    BY <1>6, <1>8, <2>1, <2>2, BootOrderly
<1>9. CASE out.commits /\ data' = out.images[4] /\ Boot(out.dir)
  <2>1. PICK dk, load : dk = Final(units, more) /\ load = LoadDir(dk)
    OBVIOUS
  <2>2. data' = RestDone(units) /\ Boot(dk)
    BY <1>3, <1>4, <1>9, <2>1
  <2>3. DirShape(dk) /\ Orderly(dk) /\ Whole(data', dk)
    BY <1>2, <1>3, <1>5, <1>9, <2>1, <2>2, FinalNames
  <2>4. Whole(data', load)
    <3>1. load = dk \/ load.total = 0
      BY <2>1 DEF LoadDir, ZeroDir
    <3>2. \A i \in Sectors : ~(i < 0)
      BY SectorNumbers
    <3> QED
      BY <2>3, <3>1, <3>2 DEF Whole
  <2> QED
    BY <1>6, <2>1, <2>2, <2>3, <2>4, BootOrderly
<1> QED
  BY <1>1, <1>7, <1>8, <1>9

LEMMA DeletionOrderly ==
  ASSUME NInv, CInv, DeletePacket \/ FailedDelete \/ PowerFailsInDelete
  PROVE  CInv'
<1>1. client.phase = "open" /\ client.kind = "delete"
  BY DEF DeletePacket, FailedDelete, PowerFailsInDelete, DeletesFile
<1>2. PICK idx, e : idx = wr.index /\ e = DeleteEntry(idx)
  OBVIOUS
<1>3. /\ idx \in Sectors /\ idx = dir.total - 1 /\ idx < dir.total
      /\ \A s \in Sectors : dir.table[s] <= dir.total
  BY <1>1, <1>2 DEF NInv, Opened, CInv, Deleting
<1>4. /\ Orderly(e) /\ e.total = dir.total - 1 /\ e.total \in Nat
      /\ \A i \in Sectors : i < e.total => e.info[i] = dir.info[i]
  BY <1>2, <1>3, DeleteOrderly DEF CInv
<1>5. Whole(data, e)
  <2>1. \A i \in Sectors : i < e.total => i < dir.total
    BY <1>4, SectorNumbers DEF NInv, DirShape
  <2> QED
    BY <1>4, <2>1 DEF CInv, Whole
<1>6. CASE DeletePacket \/ FailedDelete
  <2>1. /\ dir' = e /\ data' = data /\ client' = Idle /\ formatFlag' = formatFlag
        /\ disk' = dir' \/ disk' = NoDir
    BY <1>2, <1>6 DEF DeletePacket, FailedDelete, Rejected
  <2>2. data' \in Flash /\ Whole(data', dir') /\ Orderly(dir')
    BY <1>4, <1>5, <2>1 DEF CInv
  <2> QED
    BY <2>1, <2>2, EndOrderly
<1>7. CASE PowerFailsInDelete
  <2>1. data' = data /\ (Boot(NoDir) \/ Boot(e))
    BY <1>2, <1>7 DEF PowerFailsInDelete
  <2>2. CASE Boot(NoDir)
    <3>1. PICK load : load = LoadDir(NoDir)
      OBVIOUS
    <3>2. Whole(data', load) /\ data' \in Flash
      BY <2>1, <3>1, LoadNothing DEF CInv
    <3> QED
      BY <2>2, <3>1, <3>2, BootOrderly
  <2>3. CASE Boot(e)
    <3>1. PICK load : load = LoadDir(e)
      OBVIOUS
    <3>2. Whole(data', load) /\ data' \in Flash
      <4>1. load = e \/ load.total = 0
        BY <3>1 DEF LoadDir, ZeroDir
      <4>2. \A i \in Sectors : ~(i < 0)
        BY SectorNumbers
      <4> QED
        BY <1>5, <2>1, <4>1, <4>2 DEF CInv, Whole
    <3>3. DirShape(e)
      BY <1>2, <1>3, DeleteNames DEF NInv
    <3> QED
      BY <1>4, <2>3, <3>1, <3>2, <3>3, BootOrderly
  <2> QED
    BY <2>1, <2>2, <2>3
<1> QED
  BY <1>6, <1>7

LEMMA OtherOrderly ==
  ASSUME NInv, CInv, OnlyAppends, NEW size \in 0..MaxPacket, NEW more \in BOOLEAN,
         \/ RefuseName \/ OpenFormat \/ SwallowPacket(size, more)
         \/ SwallowEmptyPacket \/ DeleteFaults \/ Abort \/ Restart
         \/ OpenFirmware \/ HeaderRefused(size, more) \/ ProgramFirmware(size, more)
         \/ PowerFailsInFirmware(size, more) \/ AbortFirmware \/ SwitchMode
  PROVE  CInv'
<1>1. CASE OpenFormat \/ SwallowPacket(size, more) \/ SwallowEmptyPacket
  BY <1>1 DEF OpenFormat, SwallowPacket, SwallowEmptyPacket, OnlyAppends, CInv
<1>2. CASE Abort \/ HeaderRefused(size, more) \/ AbortFirmware
  <2>1. /\ UNCHANGED <<data, dir, disk>> /\ formatFlag' = formatFlag /\ client' = Idle
    BY <1>2 DEF Abort, Rejected, flashVars, ramVars, HeaderRefused,
                AbortFirmware, SessionEnds, fileVars
  <2> QED
    BY <2>1, IdleIs, FrameOrderly DEF CInv
<1>3. CASE Restart \/ PowerFailsInFirmware(size, more)
  <2>1. Boot(disk) /\ data' = data
    BY <1>3 DEF Restart, PowerFailsInFirmware
  <2> QED
    BY <2>1, RestartOrderly
<1>4. CASE DeleteFaults \/ SwitchMode
  <2>1. UNCHANGED <<data, disk, dir, existFlag, formatFlag, wr, client>>
    BY <1>4 DEF DeleteFaults, SwitchMode, flashVars, ramVars, clientVars
  <2> QED
    BY <2>1 DEF CInv, Whole, Orderly, Rising, Lies, Flash, AsOnDisk, Appending, Deleting, At,
                InSector,
                Behind
<1>5. CASE OpenFirmware \/ RefuseName
  <2>1. /\ UNCHANGED <<data, dir, disk, formatFlag>> /\ client.phase = "idle"
        /\ \/ client' = [phase |-> "open", kind |-> "firmware", name |-> NoName, sent |-> <<>>]
           \/ client' = client
    BY <1>5 DEF OpenFirmware, RefuseName, fileVars, flashVars, clientVars, Ready
  <2>2. client'.phase = "open" => client'.kind \notin {"write", "delete"}
    BY <2>1
  <2> QED
    BY <2>1, <2>2, FrameOrderly DEF CInv
<1>6. CASE ProgramFirmware(size, more)
  <2>1. /\ UNCHANGED <<data, dir, disk, formatFlag>> /\ transfers' = transfers
        /\ Accepted(size, more) \/ client' = Idle
        /\ client.kind \in {"format", "firmware"}
    BY <1>6, UpdateKind DEF ProgramFirmware, SessionEnds, fileVars
  <2>2. client'.kind \in {"format", "firmware"} \/ client' = Idle
    BY <2>1, PacketSize, AcceptedShape DEF NInv
  <2>3. client'.phase = "open" => client'.kind \notin {"write", "delete"}
    BY <2>2, IdleIs
  <2> QED
    BY <2>1, <2>3, FrameOrderly DEF CInv
<1> QED
  BY <1>1, <1>2, <1>3, <1>4, <1>5, <1>6

LEMMA CInvInit == Init => CInv
<1> SUFFICES ASSUME Init PROVE CInv
  OBVIOUS
<1>1. /\ data = [s \in Sectors |-> BlankSector] /\ disk = NoDir /\ dir = ZeroDir
      /\ ~formatFlag /\ client = Idle
  BY DEF Init
<1>2. data \in Flash
  BY <1>1 DEF Flash, BlankSector, Erased
<1>3. PICK none, load : none = NoDir /\ load = LoadDir(none)
  OBVIOUS
<1>4. load = dir /\ Orderly(load)
  BY <1>1, <1>3, LoadOrderly DEF LoadDir
<1>5. Whole(data, dir)
  BY <1>3, <1>4, LoadNothing
<1> QED
  BY <1>1, <1>2, <1>4, <1>5, IdleIs DEF CInv, AsOnDisk, Appending, Deleting

LEMMA CInvStep ==
  ASSUME NInv, CInv, OnlyAppends, FwNext
  PROVE  CInv'
<1>0. PICK anySize \in 1..MaxPacket, any \in BOOLEAN : any
  <2>1. MaxPacket \in 1..MaxPacket
    BY SizesAssumption
  <2> QED
    BY <2>1
<1>1. CASE Handlers
  <2>1. ASSUME NEW n \in Names, NEW kind \in {"write", "delete"}, OpenFile(n, kind) PROVE CInv'
    BY <2>1, OpenOrderly
  <2>2. ASSUME NEW size \in 1..MaxPacket, NEW more \in BOOLEAN,
               \/ SwallowPacket(size, more) \/ DataPacket(size, more)
               \/ FailedDataWrite(size, more)
        PROVE  CInv'
    BY <2>2, ZeroUp, OtherOrderly, DataPacketOrderly, FailedDataWriteOrderly
  <2>3. ASSUME RefuseName \/ OpenFormat \/ SwallowEmptyPacket \/ DeleteFaults PROVE CInv'
    BY <2>3, <1>0, ZeroUp, OtherOrderly
  <2>4. ASSUME DeletePacket \/ FailedDelete PROVE CInv'
    BY <2>4, DeletionOrderly
  <2> QED
    BY <1>1, <2>1, <2>2, <2>3, <2>4 DEF Handlers
<1>2. CASE Environment
  <2>1. ASSUME NEW size \in 1..MaxPacket, NEW more \in BOOLEAN, PowerFailsInPacket(size, more)
        PROVE  CInv'
    BY <2>1, PowerFailsOrderly
  <2>2. ASSUME Abort \/ Restart PROVE CInv'
    BY <2>2, <1>0, ZeroUp, OtherOrderly
  <2>3. ASSUME PowerFailsInDelete PROVE CInv'
    BY <2>3, DeletionOrderly
  <2> QED
    BY <1>2, <2>1, <2>2, <2>3 DEF Environment
<1>3. ASSUME NEW size \in 0..MaxPacket, NEW more \in BOOLEAN,
             \/ HeaderRefused(size, more) \/ ProgramFirmware(size, more)
             \/ PowerFailsInFirmware(size, more)
      PROVE  CInv'
  BY <1>3, OtherOrderly
<1>4. ASSUME OpenFirmware \/ AbortFirmware \/ SwitchMode PROVE CInv'
  BY <1>4, <1>0, ZeroUp, OtherOrderly
<1> QED
  BY <1>1, <1>2, <1>3, <1>4 DEF FwNext, Next

-----------------------------------------------------------------------------
(***************************************************************************)
(* What the invariant says of the files.                                   *)
(***************************************************************************)
LEMMA CrashInvariant ==
  ASSUME OnlyAppends
  PROVE  FwSpec => [](NInv /\ CInv)
<1>1. Init => NInv /\ CInv
  BY NInvInit, CInvInit
<1>2. NInv /\ CInv /\ [FwNext]_vars => (NInv /\ CInv)'
  <2> SUFFICES ASSUME NInv, CInv, [FwNext]_vars PROVE NInv' /\ CInv'
    OBVIOUS
  <2>1. NInv'
    BY NInvStep DEF OnlyAppends
  <2>2. CASE FwNext
    BY <2>1, <2>2, CInvStep
  <2>3. CASE UNCHANGED vars
    <3>1. UNCHANGED <<data, disk, dir, existFlag, formatFlag, wr, client>>
      BY <2>3 DEF vars, flashVars, ramVars, clientVars
    <3> QED
      BY <2>1, <3>1 DEF CInv, Whole, Orderly, Rising, Lies, Flash, AsOnDisk, Appending,
                        Deleting, At, InSector, Behind
  <2> QED
    BY <2>2, <2>3
<1> QED
  BY <1>1, <1>2, PTL DEF FwSpec

\* Every listed file owns each sector its reads go through: files that are only
\* created, or deleted at the end of the directory, share no sector, whatever
\* transfers are broken off and wherever power fails, on a disk of any size.
THEOREM FilesOwnTheirSectors ==
  ASSUME OnlyAppends
  PROVE  FwSpec => []RangesOwned
<1>1. NInv /\ CInv => RangesOwned
  <2> SUFFICES ASSUME NInv, CInv, NEW i \in Files, NEW s \in FileSectors(i)
               PROVE  s \in Sectors /\ dir.table[s] = i + 1
    BY DEF RangesOwned
  <2>1. i \in Sectors /\ i < dir.total
    BY DEF Files, NInv
  <2>2. Lies(dir, i)
    BY <2>1 DEF CInv, Orderly
  <2>3. PICK first, c \in Nat : first = dir.info[i].sector /\ c = CeilSectors(dir.info[i].size)
    BY <2>1, LiesFrom DEF NInv, CInv
  <2>4. s \in first .. (first + c - 1) /\ End(dir.info[i]) = first + c
    BY <2>3 DEF FileSectors, End
  <2>5. s \in dir.info[i].sector .. (End(dir.info[i]) - 1)
    BY <2>3, <2>4
  <2> QED
    BY <2>2, <2>5 DEF Lies
<1> QED
  BY <1>1, CrashInvariant, PTL

\* The last unit of a listed file is on the disk.
LEMMA ListedInRange ==
  ASSUME NEW d, DirShape(d), Orderly(d), NEW i \in Sectors, i < d.total
  PROVE  InRange(d.info[i])
<1>1. PICK first, size, c \in Nat : /\ first = d.info[i].sector /\ size = d.info[i].size
                                    /\ c = CeilSectors(size) /\ size > 0
  BY LiesFrom
<1>2. End(d.info[i]) <= N
  BY LiesFrom
<1>3. first + c <= N /\ N \in Nat
  BY <1>1, <1>2, SectorNumbers DEF End
<1>4. PICK rest \in Nat : N = first + c + rest
  <2>1. N - (first + c) \in Nat /\ N = first + c + (N - (first + c))
    BY <1>3
  <2> QED
    BY <2>1
<1>5. size <= c * S
  BY <1>1, CeilFrom
<1>6. N * S = first * S + c * S + rest * S
  <2>1. \A m \in Nat : (first + c + rest) * m = first * m + c * m + rest * m
    BY SMTT(30)
  <2> QED
    BY <1>4, <2>1, Products
<1>7. first * S \in Nat /\ c * S \in Nat /\ rest * S \in Nat
  BY Products
<1>8. first * S + size <= N * S
  BY <1>5, <1>6, <1>7
<1> QED
  BY <1>1, <1>8 DEF InRange

\* A read of any listed file returns the bytes whose CRC the directory holds:
\* of files that are only created, or deleted at the end of the directory,
\* whatever transfers are broken off and wherever power fails.
THEOREM ListedFilesIntact ==
  ASSUME OnlyAppends
  PROVE  FwSpec => []EntriesIntact
<1>1. NInv /\ CInv => EntriesIntact
  <2> SUFFICES ASSUME NInv, CInv, NEW i \in Files
               PROVE  InRange(dir.info[i]) /\ ReadBack(data, dir.info[i]) = dir.info[i].crc
    BY DEF EntriesIntact
  <2>1. i \in Sectors /\ i < dir.total
    BY DEF Files, NInv
  <2> QED
    BY <2>1, ListedInRange DEF CInv, Whole, NInv
<1> QED
  BY <1>1, CrashInvariant, PTL

\* A restart lists what was listed, whenever flash holds a directory that
\* leaves one sector and one entry free.
THEOREM RestartListsTheSame ==
  ASSUME OnlyAppends
  PROVE  FwSpec => []RestartKeepsFiles
<1>1. NInv /\ CInv => RestartKeepsFiles
  <2> SUFFICES ASSUME NInv, CInv, disk # NoDir, disk.occupy < N, disk.total < N
               PROVE  /\ LoadDir(disk).total = fileNum
                      /\ \A i \in Files : LoadDir(disk).info[i] = dir.info[i]
    BY DEF RestartKeepsFiles
  <2>1. DirShape(disk) /\ Orderly(disk) /\ fileNum = dir.total
    BY DEF NInv, CInv
  <2>2. PICK load : load = LoadDir(disk)
    OBVIOUS
  <2>3. /\ disk.total = load.total
        /\ \A i \in Sectors : i < load.total => disk.info[i] = load.info[i]
    BY <2>1, <2>2, LoadOrderly
  <2>4. /\ disk.total = dir.total
        /\ \A i \in Sectors : i < dir.total => disk.info[i] = dir.info[i]
    BY DEF CInv, AsOnDisk
  <2> QED
    BY <2>1, <2>2, <2>3, <2>4 DEF Files
<1> QED
  BY <1>1, CrashInvariant, PTL

-----------------------------------------------------------------------------
(***************************************************************************)
(* Types: flash holds units that were sent or none, the directory stays in *)
(* the ranges of its fields and the writing position on the disk, whatever *)
(* the client does, as long as it deletes only listed files.               *)
(***************************************************************************)
Values == Units \cup {Erased}
Cells == [Sectors -> [0..(S - 1) -> Values]]

Ranged(d) ==
  /\ d.occupy \in 0..(Wrap - 1)
  /\ d.table \in [Sectors -> 0..N]
  /\ \A i \in Sectors : d.info[i].size \in 0..MaxUnits

OnTheDisk(addr) == addr \in 0..(N * S)

\* Of a file being written no more is written than was sent, and the writing
\* goes on in some sector of the disk.
Midway ==
  client.phase = "open" /\ client.kind = "write" =>
    /\ transfers > 0
    /\ wr.offset <= Len(client.sent) /\ Len(client.sent) <= MaxUnits
    /\ \E home \in Sectors : Home(home)

TInv ==
  /\ data \in Cells
  /\ Ranged(dir)
  /\ disk # NoDir => Ranged(disk)
  /\ OnTheDisk(wr.addr)
  /\ transfers <= MaxTransfers
  /\ formatFlag \in BOOLEAN /\ halted \in BOOLEAN
  /\ Midway

LEMMA ErasedCells ==
  ASSUME NEW d \in Cells, NEW s
  PROVE  Erase(d, s) \in Cells
<1>1. BlankSector \in [0..(S - 1) -> Values]
  BY DEF BlankSector, Values
<1> QED
  BY <1>1 DEF Erase, Cells

LEMMA ProgramCells ==
  ASSUME NEW d \in Cells, NEW addr, NEW part \in Seq(Values)
  PROVE  Program(d, addr, part) \in Cells
<1>1. \A k \in 1..Len(part) : part[k] \in Values
  OBVIOUS
<1>2. ASSUME NEW s \in Sectors, NEW o \in 0..(S - 1)
      PROVE  (IF s * S + o - addr + 1 \in 1..Len(part) THEN part[s * S + o - addr + 1]
              ELSE d[s][o]) \in Values
  <2>1. d[s][o] \in Values
    BY <1>2 DEF Cells
  <2> QED
    BY <1>1, <2>1, Zenon
<1> HIDE DEF Values
<1>3. Program(d, addr, part) =
        [s \in Sectors |-> [o \in 0..(S - 1) |->
           IF s * S + o - addr + 1 \in 1..Len(part) THEN part[s * S + o - addr + 1]
           ELSE d[s][o]]]
  BY Zenon DEF Program
<1> QED
  BY <1>2, <1>3, Zenon DEF Cells

\* An address in a sector, or at its end, is on the disk.
LEMMA SectorOnDisk ==
  ASSUME NEW home \in Sectors, NEW pos \in Nat, pos <= S
  PROVE  OnTheDisk(home * S + pos)
<1>1. home \in Nat /\ N \in Nat /\ home < N /\ S \in Nat /\ S > 0
  BY SectorNumbers, Products DEF Sectors
<1>2. home * S + S <= N * S
  BY <1>1, SectorsApart
<1>3. home * S \in Nat /\ N * S \in Nat
  BY <1>1, Products
<1> QED
  BY <1>1, <1>2, <1>3 DEF OnTheDisk

\* A packet of a file is made of units, and the file stays within the bound.
LEMMA PacketUnits ==
  ASSUME NInv, TInv, NEW size \in 1..MaxPacket, NEW more \in BOOLEAN, WritesData(size, more)
  PROVE  /\ Packet(size) \in Seq(Values)
         /\ Len(client.sent) + size <= MaxUnits
         /\ Offset(Packet(size)) \in 0..MaxUnits
<1>1. client.phase = "open" /\ client.kind = "write" /\ wr.index \in Sectors
  BY WritingFile
<1>2. /\ Len(client.sent) \in Nat /\ transfers \in Nat /\ size \in Nat /\ size > 0
      /\ wr.offset \in Nat /\ MaxUnits \in Nat /\ MaxTransfers \in Nat
  BY PacketSize, SizesAssumption DEF NInv, ClientShape, WrShape, WriteState, Stream
<1>3. Len(client.sent) + size <= MaxUnits
  BY <1>2 DEF WritesData, Sends
<1>4. transfers \in 1..MaxTransfers /\ wr.offset <= Len(client.sent)
  BY <1>1, <1>2 DEF TInv, Midway
<1>5. \A k \in 1..size : <<transfers, Len(client.sent) + k>> \in Values
  <2> SUFFICES ASSUME NEW k \in 1..size PROVE <<transfers, Len(client.sent) + k>> \in Values
    OBVIOUS
  <2>1. Len(client.sent) + k \in 1..MaxUnits
    BY <1>2, <1>3
  <2> QED
    BY <1>4, <2>1 DEF Values, Units
<1>6. Packet(size) \in Seq(Values)
  <2> HIDE DEF Values
  <2>1. Packet(size) \in [1..size -> Values]
    BY <1>5 DEF Packet
  <2> QED
    BY <1>2, <2>1
<1>7. Len(Packet(size)) = size
  BY <1>2, PacketStream DEF NInv
<1> QED
  BY <1>2, <1>3, <1>4, <1>6, <1>7 DEF Offset

LEMMA PartOf ==
  ASSUME NEW V, NEW units \in Seq(V), NEW m \in Nat, m > 0, NEW n \in Nat, n <= Len(units)
  PROVE  SubSeq(units, m, n) \in Seq(V)
OBVIOUS

\* The flash images a packet passes through hold units.
LEMMA ImageCells ==
  ASSUME NInv, TInv, wr.index \in Sectors, NEW units \in Stream, units \in Seq(Values),
         Over(units) <= Len(units)
  PROVE  /\ Begun \in Cells /\ FrontDone(units) \in Cells
         /\ NextErased(units) \in Cells /\ RestDone(units) \in Cells
         /\ \A d \in Torn(units) : d \in Cells
<1>1. Len(units) \in Nat /\ Over(units) \in Nat
  BY OutcomeParts DEF Stream
<1> HIDE DEF Values, Stream
<1>2. Front(units) \in Seq(Values) /\ Rest(units) \in Seq(Values)
  <2>1. Len(units) - Over(units) \in Nat /\ Len(units) - Over(units) <= Len(units)
        /\ Len(units) - Over(units) + 1 \in Nat /\ Len(units) - Over(units) + 1 > 0
    BY <1>1
  <2> QED
    BY <1>1, <2>1, PartOf DEF Front, Rest
<1>3. Begun \in Cells
  BY ErasedCells DEF Begun, TInv
<1>4. FrontDone(units) \in Cells
  BY <1>2, <1>3, ProgramCells DEF FrontDone
<1>5. NextErased(units) \in Cells
  BY <1>4, ErasedCells DEF NextErased
<1>6. RestDone(units) \in Cells
  BY <1>2, <1>5, ProgramCells DEF RestDone
<1>7. ASSUME NEW part \in Seq(Values), NEW k \in 0..Len(part)
      PROVE  SubSeq(part, 1, k) \in Seq(Values)
  BY PartOf
<1>8. ASSUME NEW d \in Torn(units) PROVE d \in Cells
  <2>1. CASE \E k \in 0..Len(Front(units)) : d = Program(Begun, Start, SubSeq(Front(units), 1, k))
    BY <1>2, <1>3, <1>7, <2>1, ProgramCells
  <2>2. CASE \E k \in 0..Len(Rest(units)) :
               d = Program(NextErased(units), Following(units) * S, SubSeq(Rest(units), 1, k))
    BY <1>2, <1>5, <1>7, <2>2, ProgramCells
  <2>3. d \in {Program(Begun, Start, SubSeq(Front(units), 1, k)) : k \in 0..Len(Front(units))}
        \/ d \in {Program(NextErased(units), Following(units) * S, SubSeq(Rest(units), 1, k)) :
                    k \in IF Crosses(units) THEN 0..Len(Rest(units)) ELSE {}}
    BY <1>8, Zenon DEF Torn
  <2> QED
    BY <2>1, <2>2, <2>3, Zenon
<1> QED
  BY <1>3, <1>4, <1>5, <1>6, <1>8

\* Where a packet starts, where it ends and where the next one goes on.
LEMMA PacketPositions ==
  ASSUME NInv, wr.index \in Sectors, NEW home \in Sectors, Home(home),
         NEW units \in Stream, Len(units) <= S, NEW w, w = After(units)
  PROVE  /\ Over(units) <= Len(units)
         /\ OnTheDisk(Start) /\ OnTheDisk(w.addr)
         /\ Crosses(units) => OnTheDisk(w.addr - Over(units))
         /\ ~Full(units) =>
              /\ ~w.firstIn
              /\ \E current \in Sectors :
                   /\ w.offset >= S * w.sector /\ w.offset <= S * (w.sector + 1)
                   /\ w.addr = current * S + (w.offset - S * w.sector)
<1>1. PICK pos \in Nat : Placed(home, pos, units)
  BY PositionIn
<1>2. /\ Start = home * S + pos /\ pos <= S
      /\ Over(units) = IF pos + Len(units) > S THEN pos + Len(units) - S ELSE 0
  BY <1>1 DEF Placed
<1>3. S \in Nat /\ Len(units) \in Nat /\ Over(units) \in Nat /\ home * S \in Nat
  BY OutcomeParts, Products, SectorNumbers DEF Stream
<1>4. /\ Over(units) <= Len(units) /\ Over(units) <= S
      /\ pos + (Len(units) - Over(units)) \in Nat /\ pos + (Len(units) - Over(units)) <= S
  BY <1>2, <1>3
<1>5. wr \in WriteState
  BY DEF NInv, WrShape
<1>6. w.addr = IF Crosses(units) THEN Following(units) * S + Over(units)
               ELSE Start + Len(Front(units))
  BY <1>5 DEF After, WriteState, Front
<1>7. Len(Front(units)) = Len(units) - Over(units)
  BY <1>3, <1>4, PartLength DEF Front
<1>8. OnTheDisk(Start)
  BY <1>2, SectorOnDisk
<1>9. OnTheDisk(w.addr) /\ (Crosses(units) => OnTheDisk(w.addr - Over(units)))
  <2>1. CASE Crosses(units)
    <3>1. Following(units) \in Sectors
      BY <2>1, OutcomeParts
    <3>2. OnTheDisk(Following(units) * S + Over(units)) /\ OnTheDisk(Following(units) * S + 0)
      BY <1>3, <1>4, <3>1, SectorOnDisk
    <3>3. Following(units) * S \in Nat
      BY <3>1, SectorNumbers, Products
    <3>4. w.addr = Following(units) * S + Over(units)
          /\ w.addr - Over(units) = Following(units) * S + 0
      BY <1>3, <1>6, <2>1, <3>3
    <3> QED
      BY <3>2, <3>4
  <2>2. CASE ~Crosses(units)
    <3>1. w.addr = home * S + (pos + (Len(units) - Over(units)))
      <4>1. w.addr = Start + (Len(units) - Over(units))
        BY <1>6, <1>7, <2>2
      <4>2. PICK base \in Nat : base = home * S
        BY <1>3
      <4>3. Start = base + pos /\ Len(units) \in Nat /\ Over(units) \in Nat
        BY <1>2, <1>3, <4>2, Zenon
      <4>4. w.addr = base + (pos + (Len(units) - Over(units)))
        BY <4>1, <4>3
      <4> QED
        BY <4>2, <4>4, Zenon
    <3> QED
      BY <1>4, <2>2, <3>1, SectorOnDisk
  <2> QED
    BY <2>1, <2>2
<1>10. ASSUME ~Full(units)
       PROVE  /\ ~w.firstIn
              /\ \E current \in Sectors :
                   /\ w.offset >= S * w.sector /\ w.offset <= S * (w.sector + 1)
                   /\ w.addr = current * S + (w.offset - S * w.sector)
  <2>1. PICK current : current = IF Crosses(units) THEN Following(units) ELSE home
    OBVIOUS
  <2> QED
    BY <1>1, <1>10, <2>1, PositionMoves
<1> QED
  BY <1>4, <1>8, <1>9, <1>10

-----------------------------------------------------------------------------
(***************************************************************************)
(* The ranges of the directory.                                            *)
(***************************************************************************)
LEMMA MarkedFewer ==
  ASSUME NEW set, set \subseteq Sectors
  PROVE  Cardinality(set) \in 0..(Wrap - 1)
<1>1. N \in Nat /\ N > 0 /\ Wrap \in Nat /\ Wrap > N /\ 0 \in Int /\ N - 1 \in Int
  BY SizesAssumption
<1>2. IsFiniteSet(Sectors) /\ Cardinality(Sectors) = N
  BY <1>1, FS_Interval DEF Sectors
<1>3. Cardinality(set) <= N /\ IsFiniteSet(set)
  BY <1>2, FS_Subset
<1>4. Cardinality(set) \in Nat
  BY <1>3, FS_CardinalityType
<1> QED
  BY <1>1, <1>3, <1>4

LEMMA ZeroRanged == Ranged(ZeroDir)
BY SizesAssumption DEF Ranged, ZeroDir, BlankInfo

LEMMA ClaimRanged ==
  ASSUME NEW d, DirShape(d), Ranged(d), NEW s, NEW idx \in Sectors, NEW e, e = Claim(d, s, idx)
  PROVE  Ranged(e)
<1>1. e.table = [d.table EXCEPT ![s] = idx + 1] /\ e.occupy = d.occupy /\ e.info = d.info
  BY DEF DirShape, Claim
<1>2. idx + 1 \in 0..N
  BY SectorNumbers DEF Sectors
<1> QED
  BY <1>1, <1>2 DEF Ranged

LEMMA CommitRanged ==
  ASSUME NEW d, DirShape(d), Ranged(d), NEW count, NEW exist, NEW idx, NEW crc,
         NEW size \in 0..MaxUnits, NEW e, e = Commit(d, count, exist, idx, size, crc)
  PROVE  Ranged(e)
<1> DEFINE surplus == IF exist THEN Surplus(d, idx, size) ELSE {}
           table == [s \in Sectors |-> IF s \in surplus THEN 0 ELSE d.table[s]]
<1>1. /\ e.table = table /\ e.occupy = Cardinality({s \in Sectors : table[s] # 0})
      /\ e.info = [d.info EXCEPT ![idx].size = size, ![idx].crc = crc]
  BY DEF Commit
<1>2. e.table \in [Sectors -> 0..N]
  <2> HIDE DEF surplus
  <2>1. 0 \in 0..N
    BY SectorNumbers
  <2> QED
    BY <1>1, <2>1 DEF Ranged
<1>3. e.occupy \in 0..(Wrap - 1)
  <2> HIDE DEF table
  <2> QED
    BY <1>1, MarkedFewer
<1>4. \A i \in Sectors : e.info[i].size \in 0..MaxUnits
  <2>1. d.info \in [Sectors -> Entry]
    BY DEF DirShape
  <2>2. \A i \in Sectors : e.info[i].size = d.info[i].size \/ e.info[i].size = size
    BY <1>1, <2>1 DEF Entry
  <2> QED
    BY <2>2 DEF Ranged
<1> QED
  BY <1>2, <1>3, <1>4 DEF Ranged

LEMMA PacketRanged ==
  ASSUME NInv, TInv, wr.index \in Sectors, NEW units \in Stream, NEW more,
         Offset(units) \in 0..MaxUnits
  PROVE  Ranged(Grown(units)) /\ Ranged(Final(units, more))
<1>1. DirShape(Grown(units)) /\ DirShape(dir) /\ Ranged(dir)
  BY GrownNames DEF NInv, TInv
<1>2. Ranged(Grown(units))
  BY <1>1, ClaimRanged DEF Grown
<1>3. Ranged(Final(units, more))
  BY <1>1, <1>2, CommitRanged DEF Final
<1> QED
  BY <1>2, <1>3

LEMMA AddFileRanged ==
  ASSUME NInv, TInv, NEW name \in Names, NEW add, add = AddFile(name)
  PROVE  Ranged(add.dir)
<1> DEFINE found == FindFile(dir, fileNum, name)
           free == FirstAt(dir.table, 0, 0)
           idx == dir.total
           entry == [dir.info[idx] EXCEPT !.name = name, !.sector = free, !.size = 0]
           refused == [index |-> NotFound, dir |-> dir, exist |-> existFlag]
           filled == [Claim(dir, free, idx) EXCEPT !.info[idx] =
                        [@ EXCEPT !.name = name, !.sector = free, !.size = 0]]
<1>1. fileNum \in Nat /\ fileNum = dir.total /\ DirShape(dir) /\ Ranged(dir)
  BY SectorNumbers DEF NInv, TInv, DirShape
<1>2. \/ add = refused \/ add = [refused EXCEPT !.index = found, !.exist = TRUE]
      \/ fileNum < N /\ add = [index |-> idx, dir |-> filled, exist |-> FALSE]
  BY <1>1, SectorNumbers DEF AddFile
<1>3. CASE add = refused \/ add = [refused EXCEPT !.index = found, !.exist = TRUE]
  <2>1. add.dir = dir
    <3>1. CASE add = refused
      BY <3>1
    <3>2. CASE add = [refused EXCEPT !.index = found, !.exist = TRUE]
      BY <3>2
    <3> QED
      BY <1>3, <3>1, <3>2
  <2> QED
    BY <1>1, <2>1
<1>4. CASE fileNum < N /\ add = [index |-> idx, dir |-> filled, exist |-> FALSE]
  <2>1. idx \in Sectors
    BY <1>1, <1>4, SectorNumbers
  <2> DEFINE c == Claim(dir, free, idx)
  <2>2. Ranged(c)
    BY <1>1, <2>1, ClaimRanged
  <2>3. c = [total |-> dir.total, occupy |-> dir.occupy, table |-> c.table, info |-> dir.info]
    BY <1>1 DEF Claim, DirShape
  <2>4. add.dir = filled
    BY <1>4
  <2> HIDE DEF free, idx
  <2>5. add.dir = [total |-> dir.total, occupy |-> dir.occupy, table |-> c.table,
                   info |-> [dir.info EXCEPT ![idx] = entry]]
    <3> HIDE DEF c
    <3>1. c.info = dir.info /\ c.total = dir.total /\ c.occupy = dir.occupy
      BY <2>3
    <3> QED
      BY <2>3, <2>4, <3>1 DEF c
  <2> HIDE DEF c
  <2>6. entry.size = 0
    BY <1>1, <2>1 DEF DirShape, Entry
  <2> HIDE DEF entry
  <2>7. /\ add.dir.table = c.table /\ add.dir.occupy = c.occupy
        /\ \A i \in Sectors : add.dir.info[i] = IF i = idx THEN entry ELSE dir.info[i]
    BY <1>1, <2>3, <2>5 DEF DirShape
  <2>8. 0 \in 0..MaxUnits
    BY SizesAssumption
  <2>9. \A i \in Sectors : add.dir.info[i].size \in 0..MaxUnits
    <3>1. \A i \in Sectors : dir.info[i].size \in 0..MaxUnits
      BY <1>1 DEF Ranged
    <3> QED
      BY <2>6, <2>7, <2>8, <3>1
  <2>10. c.table \in [Sectors -> 0..N] /\ c.occupy \in 0..(Wrap - 1)
    BY <2>2 DEF Ranged
  <2> QED
    BY <2>7, <2>9, <2>10 DEF Ranged
<1> QED
  BY <1>2, <1>3, <1>4

\* A turn of the loop of a deletion only moves and clears marks.
LEMMA DropRanged ==
  ASSUME NEW table \in [Sectors -> 0..N], NEW owner, NEW turns \in Nat
  PROVE  DropSectors(table, owner, turns).table \in [Sectors -> 0..N]
<1>1. PICK f : Turns(f, table, owner, turns) /\ DropSectors(table, owner, turns) = f[turns]
  BY DropIs
<1>2. \A k \in 0..turns : f[k] = IF k = 0 THEN [ok |-> TRUE, table |-> table, at |-> 0]
                                 ELSE Turn(f[k - 1], owner)
  BY <1>1, Zenon DEF Turns
<1> DEFINE Good(p) == /\ p.table \in [Sectors -> 0..N]
                      /\ p = [ok |-> p.ok, table |-> p.table, at |-> p.at]
<1>3. ASSUME NEW p, Good(p), NEW q, q = Turn(p, owner) PROVE Good(q)
  <2>1. PICK s : s = FirstAt(p.table, p.at, owner)
    OBVIOUS
  <2>2. \/ q = [p EXCEPT !.ok = FALSE]
        \/ q = [ok |-> TRUE, table |-> DropSector(p.table, s), at |-> s]
    BY <1>3, <2>1 DEF Turn
  <2>3. DropSector(p.table, s) \in [Sectors -> 0..N]
    <3>1. /\ \A t \in Sectors : t \in Nat /\ t < N /\ p.table[t] \in 0..N
          /\ \A t \in Nat : t < N => t \in Sectors
          /\ 0 \in 0..N /\ N \in Nat
      BY <1>3, SectorNumbers DEF Sectors
    <3>2. \A t \in Sectors : t < N - 1 => t + 1 \in Sectors
      BY <3>1
    <3> QED
      BY <3>1, <3>2 DEF DropSector
  <2>4. CASE q = [p EXCEPT !.ok = FALSE]
    <3>1. q = [ok |-> FALSE, table |-> p.table, at |-> p.at]
      BY <1>3, <2>4
    <3> QED
      BY <1>3, <3>1
  <2>5. CASE q = [ok |-> TRUE, table |-> DropSector(p.table, s), at |-> s]
    BY <2>3, <2>5
  <2> QED
    BY <2>2, <2>4, <2>5
<1>4. Good(f[0])
  <2>0. 0 \in 0..turns
    OBVIOUS
  <2>1. f[0] = [ok |-> TRUE, table |-> table, at |-> 0]
    BY <1>2, <2>0
  <2> QED
    BY <2>1
<1>5. ASSUME NEW k \in Nat, k > 0, k <= turns, Good(f[k - 1]) PROVE Good(f[k])
  <2>1. f[k] = Turn(f[k - 1], owner)
    BY <1>2, <1>5
  <2> QED
    BY <1>3, <1>5, <2>1
<1>6. Good(f[turns])
  <2> HIDE DEF Good
  <2>1. PICK bad : bad = {k \in Nat : k <= turns /\ ~Good(f[k])}
    OBVIOUS
  <2>2. ASSUME bad # {} PROVE FALSE
    <3> DEFINE m == Lowest(bad)
    <3>1. m \in bad /\ \A k \in bad : m <= k
      BY <2>1, <2>2, LowestIs
    <3> HIDE DEF m
    <3>2. m \in Nat /\ m <= turns /\ ~Good(f[m])
      BY <2>1, <3>1
    <3>3. m # 0
      BY <1>4, <3>2
    <3>4. m - 1 \in Nat /\ m - 1 <= turns /\ m - 1 \notin bad
      BY <3>1, <3>2, <3>3
    <3>5. Good(f[m - 1])
      BY <2>1, <3>4
    <3> QED
      BY <1>5, <3>2, <3>3, <3>5
  <2> QED
    BY <2>1, <2>2
<1> QED
  BY <1>1, <1>6

LEMMA DeleteRanged ==
  ASSUME NInv, TInv, NEW idx \in Sectors, NEW e, e = DeleteEntry(idx)
  PROVE  Ranged(e)
<1> DEFINE moved == [i \in Sectors |-> IF idx <= i /\ i < fileNum - 1
                                       THEN dir.info[i + 1] ELSE dir.info[i]]
           turns == HeldSectors(idx)
<1>1. /\ e.occupy = (dir.occupy + Wrap - turns) % Wrap
      /\ e.table = DropSectors(dir.table, idx + 1, turns).table
      /\ e.info = IF fileNum = idx + 1 THEN [dir.info EXCEPT ![idx] = BlankInfo] ELSE moved
  BY DEF DeleteEntry
<1>2. turns \in Nat
  <2>1. dir.info[idx].size \in Nat /\ S \in Nat /\ S > 0
    BY Products DEF NInv, DirShape, Entry
  <2>2. dir.info[idx].size + S - 1 \in Nat
    BY <2>1
  <2>3. CeilSectors(dir.info[idx].size) \in Nat
    BY <2>2, Products DEF CeilSectors
  <2> QED
    BY <2>3 DEF HeldSectors
<1> HIDE DEF turns
<1>3. e.occupy \in 0..(Wrap - 1)
  <2>1. Wrap \in Nat /\ Wrap > 0 /\ dir.occupy + Wrap - turns \in Int
    BY <1>2, SizesAssumption DEF TInv, Ranged
  <2> QED
    BY <1>1, <2>1
<1>4. e.table \in [Sectors -> 0..N]
  BY <1>1, <1>2, DropRanged DEF TInv, Ranged
<1>5. \A i \in Sectors : e.info[i].size \in 0..MaxUnits
  <2>1. /\ dir.info \in [Sectors -> Entry] /\ fileNum \in Nat /\ fileNum <= N /\ N \in Nat
        /\ \A i \in Sectors : dir.info[i].size \in 0..MaxUnits
    BY SectorNumbers DEF NInv, DirShape, TInv, Ranged
  <2>2. BlankInfo.size = 0 /\ 0 \in 0..MaxUnits
    BY SizesAssumption DEF BlankInfo
  <2>3. \A i \in Sectors : i < fileNum - 1 => i + 1 \in Sectors
    BY <2>1, SectorNumbers
  <2> QED
    BY <1>1, <2>1, <2>2, <2>3
<1> QED
  BY <1>3, <1>4, <1>5 DEF Ranged

-----------------------------------------------------------------------------
(***************************************************************************)
(* Types: one lemma for each handler.                                      *)
(***************************************************************************)
LEMMA NotWriting ==
  ASSUME ~(client'.phase = "open" /\ client'.kind = "write"),
         data' \in Cells, Ranged(dir'), disk' # NoDir => Ranged(disk'),
         OnTheDisk(wr'.addr), transfers' <= MaxTransfers,
         formatFlag' \in BOOLEAN, halted' \in BOOLEAN
  PROVE  TInv'
BY DEF TInv, Midway, Ranged, OnTheDisk, Cells

LEMMA IdleWrites == ~(Idle.phase = "open" /\ Idle.kind = "write")
BY DEF Idle

LEMMA BootTyped ==
  ASSUME TInv, NEW dk, dk # NoDir => Ranged(dk), Boot(dk), data' \in Cells,
         transfers' = transfers
  PROVE  TInv'
<1>1. Ranged(LoadDir(dk))
  BY ZeroRanged DEF LoadDir
<1>2. OnTheDisk(NoWrite.addr)
  <2>1. OnTheDisk(0 * S + 0)
    BY SectorOnDisk, SectorNumbers, Products
  <2>2. 0 * S + 0 = 0
    BY Products
  <2> QED
    BY <2>1, <2>2 DEF NoWrite
<1>3. /\ disk' = dk /\ dir' = LoadDir(dk) /\ wr' = NoWrite /\ client' = Idle
      /\ formatFlag' = FALSE /\ halted' = FALSE
  BY DEF Boot
<1>4. transfers' <= MaxTransfers
  BY DEF TInv
<1> QED
  BY <1>1, <1>2, <1>3, <1>4, IdleWrites, NotWriting

LEMMA OpenTyped ==
  ASSUME NInv, TInv, NInv', NEW name \in Names, NEW kind \in {"write", "delete"},
         OpenFile(name, kind)
  PROVE  TInv'
<1> DEFINE add == AddFile(name)
<1>1. /\ dir' = add.dir /\ wr' = Fresh(add.index) /\ data' = data /\ disk' = disk
      /\ client' = IF add.index = NotFound THEN Idle
                   ELSE [phase |-> "open", kind |-> kind, name |-> name, sent |-> <<>>]
      /\ transfers' = transfers + 1 /\ transfers < MaxTransfers
      /\ formatFlag' = formatFlag /\ halted' = halted
  BY DEF OpenFile, flashVars, Ready
<1>2. Ranged(add.dir)
  BY AddFileRanged
<1>3. add.index \in Sectors \cup {NotFound}
  BY AddFileNames
<1> HIDE DEF add
<1>4. /\ wr'.index = add.index /\ wr'.offset = 0 /\ wr'.sector = 0 /\ wr'.firstIn
      /\ wr'.addr = wr.addr
  BY <1>1, <1>3 DEF NInv, WrShape, WriteState, Fresh
<1>5. transfers \in Nat /\ MaxTransfers \in Nat /\ MaxUnits \in Nat
  BY SizesAssumption DEF NInv, ClientShape
<1>6. /\ data' \in Cells /\ Ranged(dir') /\ (disk' # NoDir => Ranged(disk'))
      /\ OnTheDisk(wr'.addr) /\ transfers' <= MaxTransfers /\ transfers' > 0
      /\ formatFlag' \in BOOLEAN /\ halted' \in BOOLEAN
  BY <1>1, <1>2, <1>4, <1>5 DEF TInv
<1>7. CASE add.index = NotFound
  BY <1>1, <1>6, <1>7, IdleWrites, NotWriting
<1>8. CASE add.index # NotFound
  <2>1. client'.sent = <<>>
    BY <1>1, <1>8
  <2>2. Len(client'.sent) = 0
    BY <2>1
  <2>3. dir'.info[wr'.index].sector \in Sectors
    BY <1>3, <1>4, <1>8 DEF NInv, DirShape, Entry
  <2>4. Midway'
    BY <1>4, <1>5, <1>6, <2>2, <2>3 DEF Midway, Home
  <2> QED
    BY <1>6, <2>4 DEF TInv, Ranged, OnTheDisk, Cells
<1> QED
  BY <1>7, <1>8

\* What a packet of a file can leave in flash, in RAM and of the position.
LEMMA PacketTyped ==
  ASSUME NInv, TInv, NEW size \in 1..MaxPacket, NEW more \in BOOLEAN, WritesData(size, more),
         NEW units, units = Packet(size)
  PROVE  /\ \A d \in {Begun, FrontDone(units), NextErased(units), RestDone(units)} : d \in Cells
         /\ \A d \in Torn(units) : d \in Cells
         /\ Ranged(Grown(units)) /\ Ranged(Final(units, more))
         /\ OnTheDisk(Start) /\ OnTheDisk(After(units).addr)
         /\ Crosses(units) => OnTheDisk(After(units).addr - Over(units))
         /\ ~Full(units) =>
              /\ ~After(units).firstIn
              /\ \E current \in Sectors :
                   /\ After(units).offset >= S * After(units).sector
                   /\ After(units).offset <= S * (After(units).sector + 1)
                   /\ After(units).addr =
                        current * S + (After(units).offset - S * After(units).sector)
<1>1. /\ client.phase = "open" /\ client.kind = "write" /\ wr.index \in Sectors
      /\ units \in Stream /\ Len(units) <= S
  BY WritingPacket
<1>2. units \in Seq(Values) /\ Offset(units) \in 0..MaxUnits
  BY PacketUnits
<1>3. PICK home \in Sectors : Home(home)
  BY <1>1 DEF TInv, Midway
<1>4. PICK w : w = After(units)
  OBVIOUS
<1>5. /\ Over(units) <= Len(units)
      /\ OnTheDisk(Start) /\ OnTheDisk(w.addr)
      /\ Crosses(units) => OnTheDisk(w.addr - Over(units))
      /\ ~Full(units) =>
           /\ ~w.firstIn
           /\ \E current \in Sectors :
                /\ w.offset >= S * w.sector /\ w.offset <= S * (w.sector + 1)
                /\ w.addr = current * S + (w.offset - S * w.sector)
  BY <1>1, <1>3, <1>4, PacketPositions
<1>6. /\ Begun \in Cells /\ FrontDone(units) \in Cells
      /\ NextErased(units) \in Cells /\ RestDone(units) \in Cells
      /\ \A d \in Torn(units) : d \in Cells
  BY <1>1, <1>2, <1>5, ImageCells
<1>7. Ranged(Grown(units)) /\ Ranged(Final(units, more))
  BY <1>1, <1>2, PacketRanged
<1>8. \A d \in {Begun, FrontDone(units), NextErased(units), RestDone(units)} : d \in Cells
  BY <1>6, Zenon
<1> QED
  BY <1>4, <1>5, <1>6, <1>7, <1>8, Zenon

LEMMA DataPacketTyped ==
  ASSUME NInv, TInv, NEW size \in 1..MaxPacket, NEW more \in BOOLEAN, DataPacket(size, more)
  PROVE  TInv'
<1> DEFINE units == Packet(size)
           out == WriteOutcome(units, more)
<1>1. /\ dir' = out.dir /\ wr' = out.wr /\ disk' = IF out.commits THEN out.dir ELSE disk
      /\ data' = out.images[4]
      /\ IF out.full THEN Rejected ELSE Accepted(size, more)
      /\ WritesData(size, more)
      /\ transfers' = transfers /\ formatFlag' = formatFlag /\ halted' = halted
  BY DEF DataPacket
<1>2. Len(units) = size /\ size \in Nat
  BY PacketSize, PacketStream DEF NInv
<1>3. Len(client.sent) + size <= MaxUnits
  BY <1>1, PacketUnits
<1>4. units = Packet(size)
  OBVIOUS
<1>5. /\ out.full = Full(units) /\ out.dir = Final(units, more) /\ out.wr = After(units)
      /\ out.images = <<Begun, FrontDone(units), NextErased(units), RestDone(units)>>
  BY OutcomeIs, ImagesAre, Zenon
<1> HIDE DEF units, out
<1>6. data' = RestDone(units) /\ dir' = Final(units, more) /\ wr' = After(units)
      /\ (disk' = dir' \/ disk' = disk)
  BY <1>1, <1>5
<1>7. /\ data' \in Cells /\ Ranged(dir') /\ (disk' # NoDir => Ranged(disk'))
      /\ OnTheDisk(wr'.addr) /\ transfers' <= MaxTransfers
      /\ formatFlag' \in BOOLEAN /\ halted' \in BOOLEAN
  <2>1. RestDone(units) \in Cells /\ Ranged(Final(units, more)) /\ OnTheDisk(After(units).addr)
    BY <1>1, <1>4, PacketTyped
  <2> QED
    BY <1>1, <1>6, <2>1 DEF TInv
<1>8. CASE client' = Idle
  BY <1>7, <1>8, IdleWrites, NotWriting
<1>9. CASE ~Full(units) /\ more
  <2>1. /\ ~wr'.firstIn
        /\ \E current \in Sectors :
             /\ wr'.offset >= S * wr'.sector /\ wr'.offset <= S * (wr'.sector + 1)
             /\ wr'.addr = current * S + (wr'.offset - S * wr'.sector)
    BY <1>1, <1>4, <1>6, <1>9, PacketTyped
  <2>2. Accepted(size, more)
    BY <1>1, <1>5, <1>9
  <2>3. client'.sent = client.sent \o units
    BY <1>4, <1>9, <2>2 DEF Accepted, NInv, ClientShape
  <2>4. /\ client.sent \in Stream /\ units \in Stream /\ wr.offset \in Nat
        /\ wr \in WriteState
    BY <1>1, WritingPacket DEF NInv, ClientShape, WrShape, WriteState, units
  <2>5. Len(client'.sent) = Len(client.sent) + size /\ Len(client.sent) \in Nat
    BY <1>2, <2>3, <2>4, Joined
  <2>6. wr'.offset = wr.offset + size
    BY <1>2, <1>6, <2>4 DEF After, WriteState, Offset
  <2>7. client.phase = "open" /\ client.kind = "write"
    BY <1>1, WritingPacket
  <2>8. transfers > 0 /\ wr.offset <= Len(client.sent)
    BY <2>7 DEF TInv, Midway
  <2>9. wr'.offset <= Len(client'.sent) /\ Len(client'.sent) <= MaxUnits
    BY <1>2, <1>3, <2>4, <2>5, <2>6, <2>8
  <2>10. Midway'
    BY <1>1, <2>1, <2>8, <2>9 DEF Midway, Home, InSector
  <2> QED
    BY <1>7, <2>10 DEF TInv, Ranged, OnTheDisk, Cells
<1>10. client' = Idle \/ (~Full(units) /\ more)
  BY <1>1, <1>5 DEF Rejected, Accepted
<1> QED
  BY <1>8, <1>9, <1>10

LEMMA FailedDataWriteTyped ==
  ASSUME NInv, TInv, NEW size \in 1..MaxPacket, NEW more \in BOOLEAN,
         FailedDataWrite(size, more)
  PROVE  TInv'
<1> DEFINE units == Packet(size)
           out == WriteOutcome(units, more)
<1>1. /\ client' = Idle /\ WritesData(size, more)
      /\ transfers' = transfers /\ formatFlag' = formatFlag /\ halted' = halted
  BY DEF FailedDataWrite, Rejected
<1>2. \/ /\ data' \in out.tornHead /\ dir' = dir /\ disk' = disk
         /\ wr' = [out.wr EXCEPT !.addr = out.start, !.sector = wr.sector, !.crc = wr.crc]
      \/ /\ data' \in out.tornTail /\ dir' = out.grown /\ disk' = disk /\ out.crosses
         /\ wr' = [out.wr EXCEPT !.addr = out.wr.addr - out.over, !.sector = wr.sector,
                                 !.crc = wr.crc]
      \/ data' = out.images[4] /\ dir' = out.dir /\ disk' = NoDir /\ wr' = out.wr
  BY Zenon DEF FailedDataWrite
<1>3. units = Packet(size)
  OBVIOUS
<1>4. wr.index \in Sectors /\ units \in Stream
  BY <1>1, WritingPacket
<1>5. /\ out.dir = Final(units, more) /\ out.grown = Grown(units) /\ out.wr = After(units)
      /\ out.start = Start /\ out.over = Over(units) /\ out.crosses = Crosses(units)
      /\ out.images = <<Begun, FrontDone(units), NextErased(units), RestDone(units)>>
      /\ out.tornHead \cup out.tornTail = Torn(units)
  BY OutcomeIs, ImagesAre, Zenon
<1> HIDE DEF units, out
<1>6. After(units) \in WriteState
  BY <1>4, OutcomePosition
<1>7. /\ RestDone(units) \in Cells /\ \A d \in Torn(units) : d \in Cells
      /\ Ranged(Grown(units)) /\ Ranged(Final(units, more))
      /\ OnTheDisk(Start) /\ OnTheDisk(After(units).addr)
      /\ Crosses(units) => OnTheDisk(After(units).addr - Over(units))
  BY <1>1, <1>3, PacketTyped
<1>8. data' \in Cells
  BY <1>2, <1>5, <1>7
<1>9. Ranged(dir') /\ (disk' # NoDir => Ranged(disk'))
  BY <1>2, <1>5, <1>7 DEF TInv
<1>10. OnTheDisk(wr'.addr)
  <2>1. \/ wr'.addr = Start
        \/ Crosses(units) /\ wr'.addr = After(units).addr - Over(units)
        \/ wr'.addr = After(units).addr
    <3>1. out.wr \in WriteState
      BY <1>5, <1>6
    <3>2. \/ wr'.addr = out.start
          \/ out.crosses /\ wr'.addr = out.wr.addr - out.over
          \/ wr'.addr = out.wr.addr
      BY <1>2, <3>1 DEF WriteState
    <3> QED
      BY <1>5, <3>2
  <2> QED
    BY <1>7, <2>1
<1> QED
  BY <1>1, <1>8, <1>9, <1>10, IdleWrites, NotWriting DEF TInv

LEMMA RestartTyped ==
  ASSUME NInv, TInv, NEW size \in 0..MaxPacket, NEW more \in BOOLEAN,
         \/ Restart
         \/ PowerFailsInPacket(size, more) /\ size # 0
         \/ PowerFailsInFirmware(size, more)
         \/ PowerFailsInDelete
  PROVE  TInv'
<1>1. CASE Restart \/ PowerFailsInFirmware(size, more)
  <2>1. Boot(disk) /\ data' = data /\ transfers' = transfers
    BY <1>1 DEF Restart, PowerFailsInFirmware
  <2> QED
    BY <2>1, BootTyped DEF TInv
<1>2. CASE PowerFailsInPacket(size, more) /\ size # 0
  <2> DEFINE units == Packet(size)
             out == WriteOutcome(units, more)
  <2>0. size \in 1..MaxPacket
    BY <1>2, SizesAssumption
  <2>1. /\ WritesData(size, more) /\ transfers' = transfers
        /\ Boot(disk) \/ Boot(NoDir) \/ Boot(out.dir)
        /\ \/ \E k \in 1..4 : data' = out.images[k]
           \/ data' \in out.tornHead \cup out.tornTail
    BY <1>2 DEF PowerFailsInPacket
  <2>2. units = Packet(size)
    OBVIOUS
  <2>3. /\ out.dir = Final(units, more)
        /\ out.images = <<Begun, FrontDone(units), NextErased(units), RestDone(units)>>
        /\ out.tornHead \cup out.tornTail = Torn(units)
    BY OutcomeIs, ImagesAre, Zenon
  <2> HIDE DEF units, out
  <2>4. \/ data' \in {Begun, FrontDone(units), NextErased(units), RestDone(units)}
        \/ data' \in Torn(units)
    BY <2>1, <2>3
  <2>5. data' \in Cells /\ Ranged(Final(units, more))
    BY <2>0, <2>1, <2>2, <2>4, PacketTyped
  <2>6. \E dk : (dk # NoDir => Ranged(dk)) /\ Boot(dk)
    BY <2>1, <2>3, <2>5 DEF TInv
  <2> QED
    BY <2>1, <2>5, <2>6, BootTyped
<1>3. CASE PowerFailsInDelete
  <2>1. /\ DeletesFile /\ transfers' = transfers /\ data' = data
        /\ Boot(NoDir) \/ Boot(DeleteEntry(wr.index))
    BY <1>3 DEF PowerFailsInDelete
  <2>2. wr.index \in Sectors
    BY <2>1 DEF DeletesFile, NInv, Opened
  <2>3. Ranged(DeleteEntry(wr.index))
    BY <2>2, DeleteRanged
  <2>4. \E dk : (dk # NoDir => Ranged(dk)) /\ Boot(dk)
    BY <2>1, <2>3
  <2> QED
    BY <2>1, <2>4, BootTyped DEF TInv
<1> QED
  BY <1>1, <1>2, <1>3

\* A step that leaves flash and the directory alone and writes no file.
LEMMA FrameTyped ==
  ASSUME TInv, UNCHANGED <<data, dir, disk>>, wr'.addr = wr.addr,
         transfers' <= MaxTransfers, formatFlag' \in BOOLEAN, halted' \in BOOLEAN,
         ~(client'.phase = "open" /\ client'.kind = "write")
  PROVE  TInv'
BY NotWriting DEF TInv

LEMMA SwallowTyped ==
  ASSUME NInv, TInv, NEW size \in 1..MaxPacket, NEW more \in BOOLEAN,
         SwallowPacket(size, more)
  PROVE  TInv'
<1>1. /\ UNCHANGED <<data, dir, disk, wr, transfers, halted>> /\ formatFlag' = FALSE
      /\ client' = client \/ Accepted(size, more)
      /\ Sends(size, more)
  BY DEF SwallowPacket, flashVars
<1>2. size \in Nat /\ MaxUnits \in Nat
  BY PacketSize, SizesAssumption
<1>3. CASE ~(client'.phase = "open" /\ client'.kind = "write")
  BY <1>1, <1>3, FrameTyped DEF TInv
<1>4. CASE client' = client
  <2>1. Midway'
    BY <1>1, <1>4 DEF TInv, Midway, Home, InSector
  <2> QED
    BY <1>1, <2>1 DEF TInv, Ranged, OnTheDisk, Cells
<1>5. CASE Accepted(size, more) /\ client'.phase = "open" /\ client'.kind = "write"
  <2>1. more
    BY <1>1, <1>5, IdleWrites DEF Accepted
  <2>2. client.phase = "open" /\ client.kind = "write"
    BY <1>2, <1>5, <2>1, AcceptedShape, <1>1 DEF NInv
  <2>3. client'.sent = client.sent \o Packet(size)
    BY <1>5, <2>1 DEF Accepted, NInv, ClientShape
  <2>4. client.sent \in Stream /\ Packet(size) \in Stream /\ Len(Packet(size)) = size
    BY <1>2, PacketStream DEF NInv, ClientShape
  <2>5. Len(client'.sent) = Len(client.sent) + size /\ Len(client.sent) \in Nat
    BY <2>3, <2>4, Joined
  <2>6. Len(client.sent) + size <= MaxUnits
    BY <1>1, <1>2, <2>5 DEF Sends
  <2>7. /\ transfers > 0 /\ wr.offset <= Len(client.sent) /\ wr.offset \in Nat
        /\ \E home \in Sectors : Home(home)
    BY <2>2 DEF TInv, Midway, NInv, WrShape, WriteState
  <2>8. wr'.offset <= Len(client'.sent) /\ Len(client'.sent) <= MaxUnits
    BY <1>1, <1>2, <2>5, <2>6, <2>7
  <2>9. Midway'
    BY <1>1, <2>7, <2>8 DEF Midway, Home, InSector
  <2> QED
    BY <1>1, <2>9 DEF TInv, Ranged, OnTheDisk, Cells
<1> QED
  BY <1>1, <1>3, <1>4, <1>5

LEMMA OtherTyped ==
  ASSUME NInv, TInv, NEW size \in 0..MaxPacket, NEW more \in BOOLEAN,
         \/ RefuseName \/ OpenFormat
         \/ SwallowEmptyPacket \/ DeletePacket \/ FailedDelete \/ DeleteFaults \/ Abort
         \/ OpenFirmware \/ HeaderRefused(size, more)
         \/ ProgramFirmware(size, more) \/ AbortFirmware \/ SwitchMode
  PROVE  TInv'
<1>0. /\ transfers \in Nat /\ MaxTransfers \in Nat /\ transfers <= MaxTransfers
      /\ wr \in WriteState /\ formatFlag \in BOOLEAN /\ halted \in BOOLEAN /\ size \in Nat
  BY SizesAssumption, PacketSize DEF NInv, WrShape, ClientShape, TInv
<1>1. CASE OpenFormat
  <2>1. /\ dir' = ZeroDir /\ data' = data /\ disk' = disk /\ wr' = Fresh(NotFound)
        /\ transfers' = transfers + 1 /\ transfers < MaxTransfers
        /\ formatFlag' = TRUE /\ halted' = halted
        /\ client' = [phase |-> "open", kind |-> "format", name |-> NoName, sent |-> <<>>]
    BY <1>1 DEF OpenFormat, flashVars, Ready
  <2>2. client'.kind = "format"
    BY <2>1
  <2>3. wr'.addr = wr.addr /\ transfers' <= MaxTransfers
    BY <1>0, <2>1 DEF Fresh, WriteState
  <2> QED
    BY <1>0, <2>1, <2>2, <2>3, ZeroRanged, NotWriting DEF TInv
<1>2. CASE SwallowEmptyPacket \/ Abort \/ HeaderRefused(size, more) \/ AbortFirmware
  <2>1. /\ UNCHANGED <<data, dir, disk, transfers, halted>> /\ client' = Idle
        /\ formatFlag' = formatFlag \/ formatFlag' = FALSE
        /\ wr' = wr \/ wr' = [wr EXCEPT !.offset = wr.offset + size]
    BY <1>2 DEF SwallowEmptyPacket, Abort, HeaderRefused, HeaderBad,
                AbortFirmware, SessionEnds, Rejected, flashVars, ramVars, fileVars
  <2>2. wr'.addr = wr.addr
    BY <1>0, <2>1 DEF WriteState
  <2> QED
    BY <1>0, <2>1, <2>2, IdleWrites, FrameTyped
<1>3. CASE DeletePacket \/ FailedDelete
  <2>1. /\ dir' = DeleteEntry(wr.index) /\ (disk' = dir' \/ disk' = NoDir)
        /\ UNCHANGED <<data, wr, transfers, halted, formatFlag>> /\ client' = Idle
        /\ DeletesFile
    BY <1>3 DEF DeletePacket, FailedDelete, Rejected
  <2>2. wr.index \in Sectors
    BY <2>1 DEF DeletesFile, NInv, Opened
  <2>3. Ranged(DeleteEntry(wr.index))
    BY <2>2, DeleteRanged
  <2>4. Ranged(dir') /\ (disk' # NoDir => Ranged(disk'))
    BY <2>1, <2>3
  <2> QED
    BY <1>0, <2>1, <2>4, IdleWrites, NotWriting DEF TInv
<1>4. CASE DeleteFaults
  <2>1. /\ UNCHANGED <<data, dir, disk, wr, transfers, client, formatFlag>> /\ halted' = TRUE
        /\ client.kind = "delete"
    BY <1>4 DEF DeleteFaults, DeletesFile, flashVars, clientVars
  <2> QED
    BY <1>0, <2>1, FrameTyped
<1>5. CASE OpenFirmware
  <2>1. /\ UNCHANGED <<data, dir, disk, halted, formatFlag>> /\ client.phase = "idle"
        /\ wr' = Fresh(NotFound) /\ transfers' = transfers + 1 /\ transfers < MaxTransfers
        /\ \/ client' = [phase |-> "open", kind |-> "firmware", name |-> NoName, sent |-> <<>>]
           \/ client' = client
    BY <1>5 DEF OpenFirmware, fileVars, Ready
  <2>2. ~(client'.phase = "open" /\ client'.kind = "write")
    BY <2>1
  <2>3. wr'.addr = wr.addr /\ transfers' <= MaxTransfers
    BY <1>0, <2>1 DEF Fresh, WriteState
  <2> QED
    BY <1>0, <2>1, <2>2, <2>3, FrameTyped
<1>6. CASE ProgramFirmware(size, more)
  <2>1. /\ UNCHANGED <<data, dir, disk, transfers, halted, formatFlag>>
        /\ wr' = [wr EXCEPT !.offset = wr.offset + size, !.firstIn = FALSE]
        /\ Accepted(size, more) \/ client' = Idle
        /\ client.kind \in {"format", "firmware"}
    BY <1>6, UpdateKind DEF ProgramFirmware, SessionEnds, fileVars
  <2>2. client'.kind \in {"format", "firmware"} \/ client' = Idle
    BY <1>0, <2>1, AcceptedShape DEF NInv
  <2>3. ~(client'.phase = "open" /\ client'.kind = "write")
    BY <2>2, IdleWrites
  <2>4. wr'.addr = wr.addr
    BY <1>0, <2>1 DEF WriteState
  <2> QED
    BY <1>0, <2>1, <2>3, <2>4, FrameTyped
<1>7. CASE SwitchMode
  <2>1. UNCHANGED <<data, dir, disk, wr, transfers, halted, formatFlag, client>>
        /\ client.phase = "idle"
    BY <1>7 DEF SwitchMode, flashVars, ramVars, clientVars
  <2> QED
    BY <1>0, <2>1, FrameTyped
<1>8. CASE RefuseName
  <2>1. /\ UNCHANGED <<data, dir, disk, transfers, halted, formatFlag, client>>
        /\ client.phase = "idle" /\ wr' = Fresh(NotFound)
    BY <1>8 DEF RefuseName, flashVars, clientVars, Ready
  <2>2. wr'.addr = wr.addr
    BY <1>0, <2>1 DEF Fresh, WriteState
  <2> QED
    BY <1>0, <2>1, <2>2, FrameTyped
<1> QED
  BY <1>1, <1>2, <1>3, <1>4, <1>5, <1>6, <1>7, <1>8

LEMMA TInvInit == Init => TInv
<1> SUFFICES ASSUME Init PROVE TInv
  OBVIOUS
<1>1. /\ dir = ZeroDir /\ disk = NoDir /\ client = Idle /\ transfers = 0 /\ wr = NoWrite
      /\ data = [s \in Sectors |-> BlankSector] /\ formatFlag = FALSE /\ halted = FALSE
  BY DEF Init
<1>2. data \in Cells
  BY <1>1 DEF Cells, BlankSector, Values
<1>3. OnTheDisk(wr.addr)
  <2>1. OnTheDisk(0 * S + 0)
    BY SectorOnDisk, SectorNumbers, Products
  <2>2. 0 * S + 0 = 0
    BY Products
  <2> QED
    BY <1>1, <2>1, <2>2 DEF NoWrite
<1>4. transfers <= MaxTransfers
  BY <1>1, SizesAssumption
<1> QED
  BY <1>1, <1>2, <1>3, <1>4, ZeroRanged, IdleWrites DEF TInv, Midway

LEMMA TInvStep ==
  ASSUME NInv, TInv, NInv', FwNext
  PROVE  TInv'
<1>0. PICK anySize \in 1..MaxPacket, any \in BOOLEAN : any
  <2>1. MaxPacket \in 1..MaxPacket
    BY SizesAssumption
  <2> QED
    BY <2>1
<1>1. CASE Handlers
  <2>1. ASSUME NEW n \in Names, NEW kind \in {"write", "delete"}, OpenFile(n, kind) PROVE TInv'
    BY <2>1, OpenTyped
  <2>2. ASSUME NEW size \in 1..MaxPacket, NEW more \in BOOLEAN,
               \/ SwallowPacket(size, more) \/ DataPacket(size, more)
               \/ FailedDataWrite(size, more)
        PROVE  TInv'
    BY <2>2, SwallowTyped, DataPacketTyped, FailedDataWriteTyped
  <2>3. ASSUME \/ RefuseName \/ OpenFormat \/ SwallowEmptyPacket \/ DeletePacket
               \/ FailedDelete \/ DeleteFaults
        PROVE  TInv'
    BY <1>0, <2>3, ZeroUp, OtherTyped
  <2> QED
    BY <1>1, <2>1, <2>2, <2>3 DEF Handlers
<1>2. CASE Environment
  <2>1. ASSUME NEW size \in 1..MaxPacket, NEW more \in BOOLEAN, PowerFailsInPacket(size, more)
        PROVE  TInv'
    BY <2>1, ZeroUp, RestartTyped
  <2>2. ASSUME Restart \/ PowerFailsInDelete PROVE TInv'
    BY <1>0, <2>2, ZeroUp, RestartTyped
  <2>3. ASSUME Abort PROVE TInv'
    BY <1>0, <2>3, ZeroUp, OtherTyped
  <2> QED
    BY <1>2, <2>1, <2>2, <2>3 DEF Environment
<1>3. ASSUME NEW size \in 0..MaxPacket, NEW more \in BOOLEAN,
             \/ HeaderRefused(size, more) \/ ProgramFirmware(size, more)
             \/ PowerFailsInFirmware(size, more)
      PROVE  TInv'
  BY <1>3, OtherTyped, RestartTyped
<1>4. ASSUME OpenFirmware \/ AbortFirmware \/ SwitchMode PROVE TInv'
  BY <1>0, <1>4, ZeroUp, OtherTyped
<1> QED
  BY <1>1, <1>2, <1>3, <1>4 DEF FwNext, Next

\* The variables of the file system have their types and its counters their
\* ranges: flash holds units that were sent or none, the counts stay below the
\* modulus of their width and the writing position on the disk, whatever is
\* written, deleted, formatted, broken off or lost with the power, on a disk
\* of any size, as long as only listed files are deleted.
THEOREM FileManTypeCorrect ==
  ASSUME "deleteMissing" \notin Ops
  PROVE  FwSpec => []TypeOK
<1>1. Init => NInv /\ TInv
  BY NInvInit, TInvInit
<1>2. NInv /\ TInv /\ [FwNext]_vars => (NInv /\ TInv)'
  <2> SUFFICES ASSUME NInv, TInv, [FwNext]_vars PROVE NInv' /\ TInv'
    OBVIOUS
  <2>1. NInv'
    BY NInvStep
  <2>2. CASE FwNext
    BY <2>1, <2>2, TInvStep
  <2>3. CASE UNCHANGED vars
    BY <2>1, <2>3 DEF vars, flashVars, ramVars, clientVars, TInv, Midway, Home, InSector,
                      Ranged, OnTheDisk, Cells
  <2> QED
    BY <2>2, <2>3
<1>3. NInv /\ TInv => TypeOK
  <2> SUFFICES ASSUME NInv, TInv PROVE TypeOK
    OBVIOUS
  <2>1. data \in [Sectors -> [0..(S - 1) -> Units \cup {Erased}]]
    BY Zenon DEF TInv, Cells, Values
  <2>2. fileNum \in 0..(Wrap - 1) /\ dir.total \in 0..(Wrap - 1)
    BY SizesAssumption DEF NInv, DirShape
  <2>3. /\ DOMAIN dir.info = Sectors
        /\ \A i \in Sectors : dir.info[i].name \in Names \cup {NoName}
                              /\ dir.info[i].sector \in Sectors
    BY DEF NInv, DirShape, Entry
  <2>4. wr.index \in Sectors \cup {NotFound} /\ transfers \in Nat /\ existFlag \in BOOLEAN
    BY DEF NInv, WrShape, WriteState, ClientShape
  <2>5. transfers \in 0..MaxTransfers
    BY <2>4, SizesAssumption DEF TInv
  <2> QED
    BY <2>1, <2>2, <2>3, <2>4, <2>5, Zenon DEF TypeOK, TInv, Ranged, OnTheDisk
<1> QED
  BY <1>1, <1>2, <1>3, PTL DEF FwSpec
=============================================================================
