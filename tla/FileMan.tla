------------------------------- MODULE FileMan -------------------------------
(***************************************************************************)
(* The FoE file system of filemag: fileman.c and filecfg.c (the sector     *)
(* directory and the file operations) as bootloaderappl.c drives them in   *)
(* normal mode (bBootMode = FALSE), over an external NOR flash.  Module    *)
(* Firmware adds boot mode and the update branch of FoE_WriteData, which   *)
(* share their variables.                                                  *)
(*                                                                         *)
(* The unit of storage is abstract: a sector has S units, and a FoE packet *)
(* carries 1..MaxPacket of them.  A unit of a file is the pair <<transfer, *)
(* position in the stream the client sent>>, so that a CRC over written    *)
(* units is the sequence of those units.  Addresses count units from       *)
(* FILEMAN_DIRECTORY_END_ADDRESS; a file address is a sector number.       *)
(* Each FoE handler is one action; power may fail between any two of its   *)
(* flash operations (PowerFails).                                          *)
(***************************************************************************)
EXTENDS Integers, Sequences, FiniteSets

CONSTANTS
  Names,         \* the file names the client uses
  NoName,        \* the empty name of a zeroed directory entry
  NoDir,         \* a directory sector that is erased or fails its CRC
  None,          \* "the client knows nothing of this name"
  N,             \* FILEMAN_MAX_NUM: sectors, and directory entries
  S,             \* units per flash sector (FILEMAN_FLASH_SECTOR_SIZE)
  MaxPacket,     \* units in the largest FoE packet
  MaxUnits,      \* bound: units a client sends in one transfer
  MaxTransfers,  \* bound: transfers a client starts
  Wrap,          \* modulus standing for the width of the file counters
  Ops            \* what the client and the environment do in this instance

AllOps == {"create", "rewrite", "grow", "aligned", "deleteLast", "deleteAny",
           "deleteMissing", "format",
           "abort", "writeError", "restart", "powerFail"}

\* An index that stands for none.
NotFound == 65535

ASSUME SizesAssumption ==
  /\ N \in Nat \ {0} /\ N < NotFound
  /\ S \in Nat \ {0} /\ Wrap \in Nat /\ Wrap > N
  /\ MaxPacket \in 1..S
  /\ MaxUnits \in Nat /\ MaxTransfers \in Nat

ASSUME ValuesAssumption ==
  /\ Ops \subseteq AllOps
  /\ NoName \notin Names

VARIABLES
  data,        \* flash: contents of the data sectors
  disk,        \* flash: the directory sector
  dir,         \* RAM: FileMan_curSector
  fileNum,     \* RAM: FileMan_fileNum
  existFlag,   \* RAM: FileMan_FileExist_Flag
  formatFlag,  \* RAM: FileMan_formatFlag
  wr,          \* RAM: the write half of FileMan_var, WriteFileAddress, firstIn
  halted,      \* the processor faulted on an out-of-bounds access
  client,      \* the FoE session as the slave stack and the master see it
  acked,       \* what the master was told is stored, by name
  transfers,   \* transfers started so far
  bBootMode,   \* boot mode: FoE transfers are firmware updates (module Firmware)
  area,        \* flash: the units written from UPDATE_START_ADDRESS on
  image        \* the firmware the master was told is there

flashVars == <<data, disk>>
ramVars == <<dir, fileNum, existFlag, formatFlag, wr, halted>>
clientVars == <<client, acked, transfers>>
fwVars == <<bBootMode, area, image>>
vars == <<flashVars, ramVars, clientVars, fwVars>>

Sectors == 0..(N - 1)
Units == (1..MaxTransfers) \X (1..MaxUnits)
Erased == <<0, 0>>

BlankSector == [o \in 0..(S - 1) |-> Erased]
BlankInfo == [name |-> NoName, sector |-> 0, size |-> 0, crc |-> <<>>]

\* memset(FileMan_curSector, 0, ...)
ZeroDir == [total  |-> 0,
            occupy |-> 0,
            table  |-> [s \in Sectors |-> 0],
            info   |-> [i \in Sectors |-> BlankInfo]]

NoWrite == [index |-> NotFound, offset |-> 0, sector |-> 0,
            addr |-> 0, crc |-> <<>>, firstIn |-> FALSE]

Idle == [phase |-> "idle", kind |-> "none", name |-> NoName, sent |-> <<>>]

-----------------------------------------------------------------------------
(***************************************************************************)
(* The flash device.                                                       *)
(***************************************************************************)
Erase(d, s) == [d EXCEPT ![s] = BlankSector]

\* Programming units from a linear address on; nothing is past the last sector.
Program(d, addr, units) ==
  [s \in Sectors |-> [o \in 0..(S - 1) |->
     LET k == s * S + o - addr + 1
     IN  IF k \in 1..Len(units) THEN units[k] ELSE d[s][o]]]

UnitAt(d, a) == d[a \div S][a % S]

(***************************************************************************)
(* The directory.                                                          *)
(***************************************************************************)
Lowest(set) == CHOOSE m \in set : \A x \in set : m <= x

FirstAt(table, from, owner) ==
  LET hits == {s \in from..(N - 1) : table[s] = owner}
  IN  IF hits = {} THEN NotFound ELSE Lowest(hits)

FindFileButLast(d, count, name) ==   \* mutant: the newest entry is not looked at
  LET hits == {i \in Sectors : i < count - 1 /\ d.info[i].name = name}
  IN  IF hits = {} THEN NotFound ELSE Lowest(hits)

FindFile(d, count, name) ==
  LET hits == {i \in Sectors : i < count /\ d.info[i].name = name}
  IN  IF hits = {} THEN NotFound ELSE Lowest(hits)

CeilSectors(size) == (size + S - 1) \div S

\* FileMan_ReadFileWithSector from the address in the entry: consecutive units.
InRange(info) == info.sector * S + info.size <= N * S
ReadBack(d, info) ==
  [k \in 1..info.size |-> UnitAt(d, info.sector * S + k - 1)]

LoadDirShort(dk) ==   \* mutant: the last valid count is refused
  IF dk # NoDir
  THEN IF dk.total \in 1..(N - 1) /\ dk.occupy \in 1..(N - 2)
       THEN dk ELSE ZeroDir
  ELSE ZeroDir

\* FileMan_initDisk: what RAM holds after a start from this directory sector.
LoadDir(dk) ==
  IF dk # NoDir
  THEN IF dk.total \in 1..(N - 1) /\ dk.occupy \in 1..(N - 1)
       THEN dk ELSE ZeroDir
  ELSE ZeroDir

\* SectorTable[s] = fileIndex + 1, on the opening and on the growth of a file.
Unclaimed(d, s, idx) == d   \* mutant: the sector is used but not marked
Claim(d, s, idx) == [d EXCEPT !.table[s] = idx + 1]

\* FileMan_AddFileToDirectory: the index it returns and the directory it leaves.
AddFile(name) ==
  LET found == FindFile(dir, fileNum, name)
      free  == FirstAt(dir.table, 0, 0)
      idx   == dir.total
      refused == [index |-> NotFound, dir |-> dir, exist |-> existFlag]
  IN  IF fileNum >= N THEN refused
      ELSE IF found # NotFound THEN [refused EXCEPT !.index = found, !.exist = TRUE]
      ELSE IF free = NotFound THEN refused
      ELSE [index |-> idx,
            dir   |-> [Claim(dir, free, idx) EXCEPT
                         !.info[idx] = [@ EXCEPT !.name = name, !.sector = free, !.size = 0]],
            exist |-> FALSE]

NextWriteSectorAdjacent(d, exist, idx, addr) ==   \* mutant: the next one, free or not
  IF addr \div S + 1 < N THEN addr \div S + 1 ELSE NotFound

\* FileMan_GetNextWriteAddr: the sector a growing file continues in.
NextWriteSector(d, exist, idx, addr) ==
  LET start == addr \div S
      own   == FirstAt(d.table, start + 1, idx + 1)
  IN  IF exist /\ own # NotFound THEN own ELSE FirstAt(d.table, start, 0)

SurplusOffByOne(d, idx, size) ==   \* mutant: the last sector in use is given back
  LET info == d.info[idx]
  IN  IF size \div S < info.size \div S
      THEN {s \in Sectors : s >= info.sector + size \div S /\ d.table[s] = idx + 1}
      ELSE {}

\* The sectors writeDirectoryToDisk gives back when a rewritten file got
\* shorter: counted in whole sectors, from the address of the file on.
Surplus(d, idx, size) ==
  LET info == d.info[idx]
  IN  IF size \div S < info.size \div S
      THEN {s \in Sectors : s > info.sector + size \div S /\ d.table[s] = idx + 1}
      ELSE {}

\* The directory FileMan_writeDirectoryToDisk builds before it erases the old.
Commit(d, count, exist, idx, size, crc) ==
  LET surplus == IF exist THEN Surplus(d, idx, size) ELSE {}
      table   == [s \in Sectors |-> IF s \in surplus THEN 0 ELSE d.table[s]]
  IN  [total  |-> IF exist THEN count ELSE count + 1,
       occupy |-> Cardinality({s \in Sectors : table[s] # 0}),
       table  |-> table,
       info   |-> [d.info EXCEPT ![idx].size = size, ![idx].crc = crc]]

\* One turn of the loop of FileMan_DelFileData: clear the file's next sector
\* and move the rest of the table down by one (the last entry stays).
DropSector(table, s) ==
  [t \in Sectors |-> IF t < s THEN table[t]
                     ELSE IF t < N - 1 THEN table[t + 1]
                     ELSE IF t = s THEN 0 ELSE table[t]]

\* The table after the loop, which runs at least once; ok is FALSE when a turn
\* finds no sector of the file and indexes the table with 65535.
DropSectors(table, owner, turns) ==
  LET after[k \in 0..turns] ==
        IF k = 0 THEN [ok |-> TRUE, table |-> table, at |-> 0]
        ELSE LET p == after[k - 1]
                 s == FirstAt(p.table, p.at, owner)
             IN  IF ~p.ok \/ s = NotFound THEN [p EXCEPT !.ok = FALSE]
                 ELSE [ok |-> TRUE, table |-> DropSector(p.table, s), at |-> s]
  IN  after[turns]

\* The sectors a file of the recorded size fills, at least one.
HeldSectors(idx) ==
  IF CeilSectors(dir.info[idx].size) > 1 THEN CeilSectors(dir.info[idx].size) ELSE 1

Decrement(n) == (n + Wrap - 1) % Wrap

\* The directory FileMan_DelFileData writes back.
DeleteEntry(idx) ==
  LET turns == HeldSectors(idx)
  IN  [total  |-> Decrement(dir.total),
       occupy |-> (dir.occupy + Wrap - turns) % Wrap,
       table  |-> DropSectors(dir.table, idx + 1, turns).table,
       info   |-> IF fileNum = idx + 1
                  THEN [dir.info EXCEPT ![idx] = BlankInfo]
                  ELSE [i \in Sectors |-> IF idx <= i /\ i < fileNum - 1
                                          THEN dir.info[i + 1] ELSE dir.info[i]]]

-----------------------------------------------------------------------------
(***************************************************************************)
(* FoE_Write.                                                              *)
(***************************************************************************)
Listed(name) == FindFile(dir, fileNum, name) # NotFound

Ready == ~halted /\ client.phase = "idle" /\ transfers < MaxTransfers

\* The requests this instance's client makes.
Requests(name, kind) ==
  LET found == FindFile(dir, fileNum, name)
  IN  \/ kind = "write" /\ ~Listed(name) /\ "create" \in Ops
      \/ kind = "write" /\ Listed(name) /\ "rewrite" \in Ops
      \/ kind = "delete" /\ ~Listed(name) /\ "deleteMissing" \in Ops
      \/ kind = "delete" /\ Listed(name) /\ "deleteAny" \in Ops
      \/ /\ kind = "delete" /\ Listed(name) /\ "deleteLast" \in Ops
         /\ found = fileNum - 1
         /\ \A s \in Sectors : dir.table[s] <= fileNum

FreshKeepsCrc(index) ==   \* mutant: the CRC of the last transfer goes on
  [wr EXCEPT !.index = index, !.offset = 0, !.sector = 0, !.firstIn = TRUE]

FreshKeepsOffset(index) ==   \* mutant: the length of the last transfer goes on
  [wr EXCEPT !.index = index, !.sector = 0, !.crc = <<>>, !.firstIn = TRUE]

\* The part of FoE_Write before the name is looked at.
Fresh(index) == [wr EXCEPT !.index = index, !.offset = 0, !.sector = 0,
                           !.crc = <<>>, !.firstIn = TRUE]

\* FoE_Write for an ordinary name: refused (DISKFULL) or opened.
OpenFile(name, kind) ==
  LET add == AddFile(name)
  IN  /\ Ready /\ ~bBootMode
      /\ Requests(name, kind)
      /\ transfers' = transfers + 1
      /\ dir' = add.dir
      /\ existFlag' = add.exist
      /\ wr' = Fresh(add.index)
      /\ client' = IF add.index = NotFound THEN Idle
                   ELSE [phase |-> "open", kind |-> kind, name |-> name, sent |-> <<>>]
      /\ UNCHANGED <<flashVars, fileNum, formatFlag, halted, acked, fwVars>>

\* FoE_Write for a name no file may have: "dir", or one the name check refuses.
RefuseName ==
  /\ Ready /\ ~bBootMode
  /\ wr' = Fresh(NotFound)
  /\ UNCHANGED <<flashVars, dir, fileNum, existFlag, formatFlag, halted, clientVars, fwVars>>

\* FoE_Write for the name "format": FileMan_initDirectory, in RAM only.
OpenFormat ==
  /\ Ready /\ ~bBootMode
  /\ "format" \in Ops
  /\ transfers' = transfers + 1
  /\ dir' = ZeroDir
  /\ fileNum' = 0
  /\ formatFlag' = TRUE
  /\ wr' = Fresh(NotFound)
  /\ client' = [phase |-> "open", kind |-> "format", name |-> NoName, sent |-> <<>>]
  /\ acked' = [n \in Names |-> None]
  /\ UNCHANGED <<flashVars, existFlag, halted, fwVars>>

-----------------------------------------------------------------------------
(***************************************************************************)
(* FoE_WriteData.                                                          *)
(***************************************************************************)
Packet(size) == [k \in 1..size |-> <<transfers, Len(client.sent) + k>>]

Rewriting == existFlag /\ wr.index # NotFound

\* The master sends size units next.  Without "grow" a rewritten file stays
\* inside the sectors its entry covers; without "aligned" no packet of a
\* rewritten file ends exactly at a sector boundary with more to follow.
Sends(size, more) ==
  LET sent == Len(client.sent) + size
  IN  /\ ~halted
      /\ client.phase = "open"
      /\ client.kind # "delete"
      /\ IF more THEN sent < MaxUnits ELSE sent <= MaxUnits
      /\ Rewriting => /\ "grow" \notin Ops => sent <= S * HeldSectors(wr.index)
                      /\ "aligned" \notin Ops => ~(more /\ sent % S = 0)

\* What the master and the stack conclude from a packet answered without error.
Accepted(size, more) ==
  LET sent == client.sent \o Packet(size)
  IN  IF more
      THEN client' = [client EXCEPT !.sent = sent] /\ UNCHANGED acked
      ELSE /\ client' = Idle
           /\ acked' = IF client.kind = "write"
                       THEN [acked EXCEPT ![client.name] = sent] ELSE acked

\* An error ends the transfer; the master no longer relies on the file.
Rejected ==
  /\ client' = Idle
  /\ acked' = IF client.kind = "format" THEN acked
              ELSE [acked EXCEPT ![client.name] = None]

\* The first packet after a format, whatever transfer it belongs to, is answered
\* and dropped.  Of an image "sent" holds what came behind such a packet.
SwallowPacket(size, more) ==
  /\ Sends(size, more)
  /\ formatFlag
  /\ formatFlag' = FALSE
  /\ IF bBootMode /\ more THEN UNCHANGED <<client, acked>> ELSE Accepted(size, more)
  /\ UNCHANGED <<flashVars, dir, fileNum, existFlag, wr, halted, transfers, fwVars>>

\* What FileMan_WtireFileData does with a packet: the flash images it passes
\* through ("images", in the order of its flash operations), the directory
\* before and after the commit, and the writing position it leaves.
WriteOutcome(units, more) ==
  LET idx    == wr.index
      offset == wr.offset + Len(units)
      limit  == S * (wr.sector + 1)
      over   == IF offset > limit THEN offset - limit ELSE 0
      start  == IF wr.firstIn THEN dir.info[idx].sector * S ELSE wr.addr
      head   == SubSeq(units, 1, Len(units) - over)
      tail   == SubSeq(units, Len(units) - over + 1, Len(units))
      next   == IF over > 0 THEN NextWriteSector(dir, existFlag, idx, start) ELSE NotFound
      full   == over > 0 /\ next = NotFound
      crosses == over > 0 /\ ~full
      d1 == IF wr.firstIn THEN Erase(data, dir.info[idx].sector) ELSE data
      d2 == Program(d1, start, head)
      d3 == IF crosses THEN Erase(d2, next) ELSE d2
      d4 == IF crosses THEN Program(d3, next * S, tail) ELSE d3
      grown  == IF crosses THEN Claim(dir, next, idx) ELSE dir
      crc    == wr.crc \o units
      commits == ~more /\ ~full
      final  == IF commits THEN Commit(grown, fileNum, existFlag, idx, offset, crc)
                ELSE grown
  IN  [start |-> start, over |-> over,
       full |-> full, crosses |-> crosses, commits |-> commits,
       grown |-> grown, dir |-> final,
       images |-> <<d1, d2, d3, d4>>,
       tornHead |-> {Program(d1, start, SubSeq(head, 1, k)) : k \in 0..Len(head)},
       tornTail |-> {Program(d3, next * S, SubSeq(tail, 1, k)) :
                       k \in IF crosses THEN 0..Len(tail) ELSE {}},
       wr |-> [wr EXCEPT !.offset = offset,
                         !.sector = IF crosses THEN @ + 1 ELSE @,
                         !.addr = IF crosses THEN next * S + over
                                  ELSE start + Len(head),
                         !.crc = IF full THEN @ ELSE crc,
                         !.firstIn = FALSE]]

WritesData(size, more) == Sends(size, more) /\ ~formatFlag /\ wr.index # NotFound

\* A data packet whose flash operations all succeed; the last one commits the
\* directory.  A packet that needs a sector and finds none is rejected with
\* what it did to flash and RAM left as it is.
DataPacket(size, more) ==
  LET out == WriteOutcome(Packet(size), more)
  IN  /\ WritesData(size, more)
      /\ data' = out.images[4]
      /\ disk' = IF out.commits THEN out.dir ELSE disk
      /\ dir' = out.dir
      /\ fileNum' = IF out.commits THEN out.dir.total ELSE fileNum
      /\ existFlag' = IF out.commits THEN FALSE ELSE existFlag
      /\ wr' = out.wr
      /\ IF out.full THEN Rejected ELSE Accepted(size, more)
      /\ UNCHANGED <<formatFlag, halted, transfers, fwVars>>

\* Flash_PageWrite reports failure: of the first part of the packet or of the
\* part in a new sector, of which any number of units got through, or of the
\* directory.
FailedDataWrite(size, more) ==
  LET out == WriteOutcome(Packet(size), more)
  IN  /\ WritesData(size, more)
      /\ "writeError" \in Ops
      /\ \/ /\ data' \in out.tornHead
            /\ wr' = [out.wr EXCEPT !.addr = out.start, !.sector = wr.sector, !.crc = wr.crc]
            /\ UNCHANGED <<disk, dir, fileNum, existFlag>>
         \/ /\ out.crosses
            /\ data' \in out.tornTail
            /\ dir' = out.grown
            /\ wr' = [out.wr EXCEPT !.addr = @ - out.over, !.sector = wr.sector, !.crc = wr.crc]
            /\ UNCHANGED <<disk, fileNum, existFlag>>
         \/ /\ out.commits
            /\ wr' = out.wr
            /\ data' = out.images[4]
            /\ disk' = NoDir
            /\ dir' = out.dir
            /\ fileNum' = out.dir.total
            /\ existFlag' = FALSE
      /\ Rejected
      /\ UNCHANGED <<formatFlag, halted, transfers, fwVars>>

DeletesFile ==
  /\ ~halted
  /\ client.phase = "open" /\ client.kind = "delete"
  /\ ~formatFlag

\* An empty packet: FileMan_DelFileData on the file just opened, whether the
\* open found it or has only now added it.
DeletePacket ==
  /\ DeletesFile
  /\ DropSectors(dir.table, wr.index + 1, HeldSectors(wr.index)).ok
  /\ dir' = DeleteEntry(wr.index)
  /\ fileNum' = Decrement(fileNum)
  /\ existFlag' = FALSE
  /\ disk' = dir'
  /\ client' = Idle
  /\ acked' = [acked EXCEPT ![client.name] = None]
  /\ UNCHANGED <<data, formatFlag, wr, halted, transfers, fwVars>>

\* The directory write of the deletion fails.
FailedDelete ==
  /\ DeletesFile
  /\ "writeError" \in Ops
  /\ DropSectors(dir.table, wr.index + 1, HeldSectors(wr.index)).ok
  /\ dir' = DeleteEntry(wr.index)
  /\ fileNum' = Decrement(fileNum)
  /\ existFlag' = FALSE
  /\ disk' = NoDir
  /\ Rejected
  /\ UNCHANGED <<data, formatFlag, wr, halted, transfers, fwVars>>

\* SectorTable[65535] = 0 and a copy of a wrapped length: the outcome taken
\* for this undefined behaviour is a fault before the directory is written.
DeleteFaults ==
  /\ DeletesFile
  /\ ~DropSectors(dir.table, wr.index + 1, HeldSectors(wr.index)).ok
  /\ halted' = TRUE
  /\ UNCHANGED <<flashVars, dir, fileNum, existFlag, formatFlag, wr, clientVars, fwVars>>

\* The empty packet that ends a format transfer or an image, or that the pending
\* format flag makes of a deletion.
SwallowEmptyPacket ==
  /\ ~halted
  /\ client.phase = "open" /\ client.kind \in {"format", "delete", "firmware"}
  /\ formatFlag
  /\ formatFlag' = FALSE
  /\ client' = Idle
  /\ acked' = IF client.kind = "delete"
              THEN [acked EXCEPT ![client.name] = None] ELSE acked
  /\ UNCHANGED <<flashVars, dir, fileNum, existFlag, wr, halted, transfers, fwVars>>

-----------------------------------------------------------------------------
(***************************************************************************)
(* The master, and power.                                                  *)
(***************************************************************************)
\* The master gives up between two packets; no handler runs.
Abort ==
  /\ ~halted /\ ~bBootMode
  /\ "abort" \in Ops
  /\ client.phase = "open"
  /\ Rejected
  /\ UNCHANGED <<flashVars, ramVars, transfers, fwVars>>

\* FileMan_initDisk after RAM was lost with this directory sector in flash.
Boot(dk) ==
  /\ disk' = dk
  /\ dir' = LoadDir(dk)
  /\ fileNum' = LoadDir(dk).total
  /\ existFlag' = FALSE
  /\ formatFlag' = FALSE
  /\ wr' = NoWrite
  /\ halted' = FALSE
  /\ client' = Idle

\* What the master may still rely on when its session is cut off.
Forgotten == IF client.kind \in {"write", "delete"}
             THEN [acked EXCEPT ![client.name] = None] ELSE acked

\* A restart while no handler runs: an orderly one, or power lost between two
\* packets, or the reset that ends a fault.
Restart ==
  /\ \/ "restart" \in Ops /\ client.phase = "idle"
     \/ "powerFail" \in Ops
     \/ halted
  /\ Boot(disk)
  /\ acked' = Forgotten
  /\ UNCHANGED <<data, transfers, fwVars>>

\* Power fails inside the handler of a data packet, between two flash
\* operations or while units are being programmed.
PowerFailsInPacket(size, more) ==
  LET out == WriteOutcome(Packet(size), more)
      images == {out.images[k] : k \in 1..4}
  IN  /\ WritesData(size, more)
      /\ "powerFail" \in Ops
      /\ \/ \E d \in images \cup out.tornHead \cup out.tornTail : data' = d /\ Boot(disk)
         \/ /\ out.commits
            /\ data' = out.images[4]
            /\ Boot(NoDir) \/ Boot(out.dir)
      /\ acked' = Forgotten
      /\ UNCHANGED <<transfers, fwVars>>

PowerFailsInDelete ==
  /\ DeletesFile
  /\ "powerFail" \in Ops
  /\ DropSectors(dir.table, wr.index + 1, HeldSectors(wr.index)).ok
  /\ Boot(NoDir) \/ Boot(DeleteEntry(wr.index))
  /\ acked' = Forgotten
  /\ UNCHANGED <<data, transfers, fwVars>>

-----------------------------------------------------------------------------
Init ==
  /\ data = [s \in Sectors |-> BlankSector]
  /\ disk = NoDir
  /\ dir = ZeroDir
  /\ fileNum = 0
  /\ existFlag = FALSE
  /\ formatFlag = FALSE
  /\ wr = NoWrite
  /\ halted = FALSE
  /\ client = Idle
  /\ acked = [n \in Names |-> None]
  /\ transfers = 0
  /\ bBootMode = FALSE
  /\ area = <<>>
  /\ image = None

Handlers ==
  \/ \E n \in Names, kind \in {"write", "delete"} : OpenFile(n, kind)
  \/ RefuseName
  \/ OpenFormat
  \/ \E size \in 1..MaxPacket, more \in BOOLEAN :
       \/ SwallowPacket(size, more)
       \/ DataPacket(size, more)
       \/ FailedDataWrite(size, more)
  \/ DeletePacket
  \/ FailedDelete
  \/ DeleteFaults
  \/ SwallowEmptyPacket

Environment ==
  \/ Abort
  \/ Restart
  \/ \E size \in 1..MaxPacket, more \in BOOLEAN : PowerFailsInPacket(size, more)
  \/ PowerFailsInDelete

Next == Handlers \/ Environment

Spec == Init /\ [][Next]_vars

-----------------------------------------------------------------------------
(***************************************************************************)
(* Properties.                                                             *)
(***************************************************************************)
Files == {i \in Sectors : i < fileNum}
FileSectors(i) ==
  dir.info[i].sector .. (dir.info[i].sector + CeilSectors(dir.info[i].size) - 1)

\* The transfer in progress, or last cut off, may have dirtied this entry.
BeingWritten(i) == client.phase = "open" /\ wr.index = i

\* The variables have their types, and the counters their ranges.
TypeOK ==
  /\ data \in [Sectors -> [0..(S - 1) -> Units \cup {Erased}]]
  /\ fileNum \in 0..(Wrap - 1)
  /\ dir.total \in 0..(Wrap - 1) /\ dir.occupy \in 0..(Wrap - 1)
  /\ dir.table \in [Sectors -> 0..N]
  /\ DOMAIN dir.info = Sectors
  /\ \A i \in Sectors : /\ dir.info[i].name \in Names \cup {NoName}
                         /\ dir.info[i].sector \in Sectors
                         /\ dir.info[i].size \in 0..MaxUnits
  /\ wr.index \in Sectors \cup {NotFound}
  /\ wr.addr \in 0..(N * S)
  /\ transfers \in 0..MaxTransfers
  /\ existFlag \in BOOLEAN /\ formatFlag \in BOOLEAN /\ halted \in BOOLEAN

\* Every listed file owns, in the sector table, each sector its reads go
\* through: no later allocation can take one of them away.
RangesOwned ==
  \A i \in Files : \A s \in FileSectors(i) : s \in Sectors /\ dir.table[s] = i + 1

\* A read of any listed file returns the bytes whose CRC the directory holds.
EntriesIntact ==
  \A i \in Files : ~BeingWritten(i) =>
     InRange(dir.info[i]) /\ ReadBack(data, dir.info[i]) = dir.info[i].crc

\* A file the master was told is stored is listed with exactly what it sent.
AckedListed ==
  \A n \in Names :
     acked[n] # None /\ ~(client.phase = "open" /\ client.name = n) =>
        LET i == FindFile(dir, fileNum, n)
        IN  i # NotFound /\ dir.info[i].crc = acked[n]

\* The sectors marked for a file are those its reads go through, no more, no
\* fewer: it grew only into the sector next to it and left no mark behind.
OneRun(i) == {s \in Sectors : dir.table[s] = i + 1} = FileSectors(i)

\* A file the master was told is stored reads back as exactly what it sent.
AckedReadsBack ==
  \A n \in Names :
     acked[n] # None /\ ~(client.phase = "open" /\ client.name = n) =>
        LET i == FindFile(dir, fileNum, n)
        IN  /\ i # NotFound /\ InRange(dir.info[i])
            /\ ReadBack(data, dir.info[i]) = acked[n]

\* A file the master was told is stored and that lies in one run of sectors
\* reads back as exactly what it sent, however often it was rewritten, grew,
\* shrank, or a transfer was broken off around it.
OneRunReadsBack ==
  \A n \in Names :
     acked[n] # None /\ ~(client.phase = "open" /\ client.name = n) =>
        LET i == FindFile(dir, fileNum, n)
        IN  i # NotFound /\ (OneRun(i) => ReadBack(data, dir.info[i]) = acked[n])

\* Names are unique in the directory, and the two copies of the file count agree.
NamesUnique ==
  /\ fileNum = dir.total
  /\ \A i, j \in Files : dir.info[i].name = dir.info[j].name => i = j

\* A step changes flash only in sectors the table gives to nobody or to the
\* file being written: whatever a transfer erases, no other file owns.
OwnedSectorsUntouched ==
  [][\A s \in Sectors :
       data'[s] # data[s] => dir.table[s] \in {0, wr.index + 1}]_vars

\* A restart lists what was listed, whenever flash holds a directory that
\* leaves one sector and one entry free.
RestartKeepsFiles ==
  /\ disk # NoDir
  /\ disk.occupy < N /\ disk.total < N
  => /\ LoadDir(disk).total = fileNum
     /\ \A i \in Files : LoadDir(disk).info[i] = dir.info[i]
=============================================================================
