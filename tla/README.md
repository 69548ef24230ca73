# Verification of myLearn

The repository collects firmware of a servo drive supply (TI C2000 and a KUKA
control unit): a small file system served over EtherCAT (FoE), a redundant
EEPROM store, a trace recorder with a serial debug protocol, and a number of
ports and vendor examples. This directory holds TLA+ models of the parts that
carry logic of their own, TLC configurations that check them, and proofs that
TLAPS checks for every size of the system.

| file | what it is |
|---|---|
| `FileMan.tla` | the FoE file system: directory, sector allocation, write, delete, format, start |
| `MC_FileMan.tla`, `fileman_last.cfg`, `fileman_grow.cfg`, `tc003_read_back.cfg` | its instances |
| `Firmware.tla`, `MC_Firmware.tla`, `fileman_any.cfg` | the firmware update, composed with `FileMan` |
| `FileManProofs.tla` | proofs about both: names, what a transfer may touch |
| `StoredProofs.tla` | proofs about both: what stays listed and reads back, the image, files through power failures, the types |
| `FileStream.tla` | what reading a file over FoE promises (abstract) |
| `FoERead.tla`, `MC_FoERead.tla`, `foe_read.cfg` | reading a file through the RAM window; implements `FileStream` |
| `FoEReadProofs.tla` | proofs: the window, and the refinement |
| `NVMBlock.tla`, `nvm_redundancy.cfg` | main and backup copies of EEPROM blocks, power failures, device errors |
| `NVMBlockProofs.tla` | proofs: a saved block survives |
| `NVMSched.tla`, `nvm_history.cfg`, `nvm_runtime.cfg`, `nvm_extended.cfg` | what the background loop saves, and when |
| `NVMSchedProofs.tla` | proofs: error histories, wear, run times, the loss of the mains |
| `Ring.tla` | the operators of the overwriting buffer of the trace recorder |
| `ByteWindow.tla` | what such a buffer promises (abstract) |
| `Fifo.tla`, `fifo.cfg` | its calls, a loop turn at a time; implements `ByteWindow` |
| `FifoProofs.tla` | proofs: the flag, the sectors, whole calls, and the refinement |
| `Trace.tla`, `trace_record.cfg` | the trace recorder over `Ring`, its commands and its client |
| `TraceProofs.tla` | proofs: what the ring holds, what is sent, where a recording ends, what arrives |
| `DebugP.tla`, `MC_DebugP.tla`, `debugp_frames.cfg` | the serial debug protocol: frame parser, memory commands, answers |
| `DebugPProofs.tla` | proofs: no command is made up, and what the client is told is true |

## 1. Inventory

### FoE file system (`src/filemag`: fileman.c, filecfg.c, bootloaderappl.c)

*State.* In flash: one directory sector and `FILEMAN_MAX_NUM` data sectors. In
RAM: the working copy `FileMan_curSector` (owner of each sector `SectorTable`,
entries `FileInfo` with name, address, size, CRC, and the two totals), a second
file count `FileMan_fileNum`, `FileMan_FileExist_Flag`, `FileMan_formatFlag`,
and the transfer in progress: `FileMan_var`, `WriteFileAddress`, `firstIn`, the
running CRC.

*Operations.* `FoE_Write` opens a file by name (or formats, or starts a firmware
update), `FoE_WriteData` takes one packet (or, for an empty packet, deletes),
`FoE_Read` and `FoE_ReadData` send a file or the directory listing,
`FileMan_initDisk` loads the directory at a start. They are callbacks of the
EtherCAT slave stack: one runs at a time, never interrupted by another, but
the master may stop between any two packets, and power may fail anywhere.

*Hard.* Everything a transfer leaves half done: the flags and the table in RAM
after an abort; the data and the single directory copy in flash after a power
failure; sector allocation that must agree with reads, which take a file to be
contiguous; the counts at their limits; the format flag and the writing
position, which the firmware update shares.

*Correct when* listed files are whole, no transfer touches another file's
sectors, what the master was told is stored can be read back, also after a
restart, and a read delivers the file's bytes in order and ends.

### Firmware update (`FoE_Write`, `FoE_WriteData` with no file open)

*State.* The application area in flash, `WriteFileAddress`, `firstIn`.
*Operations.* `FoE_Write` checks name and password in boot mode; the first packet
must carry an image header, erases the area and is programmed, each later one is
programmed behind it. `FoE_WriteData` does this whenever no file is open
(bootloaderappl.c:183, 232), without looking at the mode: in normal mode for what
follows the first packet of a format transfer. *Hard.* It shares its session, its
writing position, its buffer and `FileMan_formatFlag` with the file system.
*Correct when* an image the master was told is stored stays exactly that until
a packet with a good header erases the area.

### NVM blocks (`src/NVM/NVM.c`)

*State.* Per EEPROM a number of blocks, each twice in the device (main, backup)
with a CRC, and once in RAM (`pOriginalMemoryBlock`). *Operations.*
`NVM_WriteBlockData` writes main, reads it back, tries again up to
`NVM_WRITE_ERR_MAX_CNT` times, then writes the backup; `NVM_ReadBlockData` takes
main, or the backup if main is bad, and repairs the other; `NVM_Init`. *Hard.*
Power failing between or inside two accesses; a device error whose status
nobody looks at; a start that reads nothing, so that a save may come before any
repair. *Correct when* no single fault takes the last good, current copy of a block
that was saved once.

### NVM save scheduler (`NVM_SaveUpdate` and what it calls)

*State.* A flag for each error history, the second each run time was last saved
in, the flag and time of the last save for a loss of the mains. *Operations.* Called in the
background loop; saves everything at a loss of AC power, error histories when
flagged, run times every 30 minutes. *Hard.* Flags set between a save and their
clearing, seconds the loop skips, a clock that ticks between two of its reads,
saves that fail and are not repeated, one axis saved per pass, a loss of the mains
that is reported by two signals. *Correct when* a
recorded error is flagged or in EEPROM, a run time in EEPROM is never older than
the interval, and the EEPROM is not worn by saves that repeat.

### Trace recorder (`src/traceTool`: trace.c, trace_config.c, fifoa.c)

*State.* A ring buffer that overwrites its oldest bytes, the status (Idle,
Running, Trigged, Done, Error), two chained triggers, counts before and after
the trigger, the two sectors being sent. *Operations.* `TRACE_Run` samples in
the control loop; `TRACE_SetChannel`, `TRACE_SetTrigger`, `TRACE_Start`,
`TRACE_GetAllBuff` are commands of the debug port. *Hard.* The ring's limits,
the window handed out by address while sampling may go on, a unit length that
was never set. *Correct when* the window handed out is the samples around the
trigger, oldest first.

### DebugP (`src/traceTool/DebugP.c`)

Frames of a two-byte head, a length, an id and a body; a receive state machine;
commands that read and write memory and drive the trace recorder. The serial
hardware below it is not in the repository. *State.* `Usbc_CmdScan` (state,
length and bytes of the frame under way) and `DebugP_RxFrame`, the last complete
one. *Hard.* Frames met in the middle, bytes lost or damaged, requests sent
again, several frames in one pass. *Correct when* no command is executed that
nobody sent, an answer is true, and a client that asks again is answered.

### The rest

`src/filesys` is an unfinished rewrite of the file system that does not compile
and repeats its algorithms; `src/TwinCAt` are fragments of an IEC 61131 program;
`src/all` and `src/filemag/Hal_Eep.c` poll an I2C EEPROM at register level;
`src/NVM/NVM_Config.c` is half-way through a port (it calls `Hal_Eep_Write`
without its arguments); `src/little_c2000` ports the vendored littlefs;
`src/lab_cla_lp_f2837xd` and `src/dma_ex1_gsram_transfer` are vendor examples
with the vendor's driver library and build output (they are most of the
repository's lines). None is modelled.

### How the parts interact

The file system and the trace recorder know nothing of each other. The file
system writes a `msg_clr` record through `writeData_Eep` on a format; that
function is external to it, and taken not to touch the flash directory (the
erase of the directory is commented out, filecfg.c:103). The trace recorder is
driven by DebugP commands and by the control loop. The firmware update and the
file system are two modes of the same handlers. The NVM scheduler calls
`NVM_WriteBlockData`. Nothing in the repository calls `FileMan_initDisk`,
`FoE_Init` or `NVM_*`: the models assume the obvious start (`FileMan_initDisk`
before the first FoE session).

## 2. What is modelled

### FileMan

Units of data, sectors of `S` units, packets of up to `MaxPacket` units. A unit
is the pair of the transfer it was sent in and its position there, so no two are
alike, a CRC over units is their sequence, and "the CRC matches" means "these are
the bytes". Names are model values: they are only compared. A sector's owner in
the table is the entry's index + 1, as in the code.

| code | model |
|---|---|
| flash data sectors, directory sector | `data`, `disk` (`NoDir`: erased or its CRC fails) |
| `FileMan_curSector`, `FileMan_fileNum` | `dir`, `fileNum` |
| `FileMan_FileExist_Flag`, `FileMan_formatFlag` | `existFlag`, `formatFlag` |
| write half of `FileMan_var`, `WriteFileAddress`, `firstIn` | `wr` |
| the stack's session, what the master was told | `client`, `acked` |
| an access past the table's end | `halted` |
| `FoE_Write` | `OpenFile`, `RefuseName`, `OpenFormat` |
| `FoE_WriteData`, `FileMan_WtireFileData` | `SwallowPacket`, `DataPacket`, `FailedDataWrite`, and those of `Firmware` |
| `FoE_WriteData` of an empty packet, `FileMan_DelFileData` | `DeletePacket`, `FailedDelete`, `DeleteFaults`, `SwallowEmptyPacket` |
| `FileMan_initDisk` | `Restart`, `PowerFailsInPacket`, `PowerFailsInDelete` through `Boot` |
| the master gives up | `Abort` |

Each handler is one action, since handlers do not interleave. What power can cut
in a handler is the sequence of flash operations: `WriteOutcome` lists the flash
images a packet passes through, torn page writes included, and the power
actions restart from any of them. `FailedDataWrite` and `FailedDelete` are the
error paths of `Flash_PageWrite`. `FileMan_DelFileData` indexes the sector table
with 65535 when it does not find the sector it looks for (fileman.c:513-515);
what follows is undefined, and the model takes a fault that only a reset ends
(`halted`, `DeleteFaults`).

`Ops` says what the client and the environment do in an instance. It exists
because several sequences of legal operations do break the properties (section
4): each run names the operations under which its properties hold, and
`tc003_read_back` and section 4 show what happens with one more.

| member | what it lets happen |
|---|---|
| `create`, `rewrite` | writing a name not listed, listed; without `grow` a rewrite stays within the sectors the entry covers |
| `grow` | a rewrite longer than the sectors the entry covers |
| `aligned` | a packet of a rewrite ends exactly at the end of a sector, with more to follow |
| `deleteLast`, `deleteAny`, `deleteMissing` | deletions of the newest entry (with no sector marked for a file behind it), any entry, a name not listed |
| `format`, `abort` | a format; the master gives up between packets |
| `writeError` | a page write fails |
| `restart`, `powerFail` | an orderly restart; power fails anywhere |

### Firmware

`Firmware` extends `FileMan`, whose variables `bBootMode`, `area` and `image` it
moves; `FwNext` is `Next` or a step of an update. `OpenFirmware` is `FoE_Write` in
boot mode. `UpdatePacket` says which packets get to the update branch of
`FoE_WriteData`: those of an image in boot mode, and in normal mode those behind the
first one of a format transfer, empty ones included. `HeaderRefused` and
`ProgramFirmware` are the ways through it; `PowerFailsInFirmware`, and a failing
write, leave any prefix of a packet programmed. Which of the two ways the first packet
takes is open: the header is looked for in `aFileData` (bootloaderappl.c:185), where a
short or empty packet leaves what earlier transfers put there, so any packet may
pass. The address and the offset of an area are limited by `FirmwareLimit`. Packets that
meet a pending format flag are `FileMan`'s `SwallowPacket`, which is the same code in
both modes; of an image they leave what comes behind.

`image` is what the master sent of the image it was last told is stored. It is `None`
before, from the moment a packet with a good header erases the area, after a
failure, and after a format transfer that got this far: what that leaves in the area
was answered 0 but nobody sent it as an image. The mode changes while no transfer is
open: the EtherCAT state machine, outside the repository, sets it. What the boot
loader does with the area is not in the repository.

### FoERead and FileStream

A byte of the file is its position, so `window` says which byte each cell of
`aFileData` holds. `FirstBlock` is `FoE_Read` with
`FileMan_ReadFirstSectorFile`, and `RefusedOpen` its error returns, which have
forgotten the place of the read before; `EndOfFile`, `BlockFromWindow` and
`BlockAfterRefill` are the three ways through `FoE_ReadData` (with
`FileMan_ReadRemainderSectorFile`). `FileStream` is the promise: blocks of the
file in order, all full but the last. `DeliversFile` instantiates it.
The file is contiguous and does not change while it is read; where `FileMan`
writes a file that is not, `FileMan` is the module that shows it.

### NVMBlock

One EEPROM. A copy's content is the serial number of the save that produced it,
`Bad` (0) a content whose CRC does not match. One action is one EEPROM access
with what the code does up to the next: `WriteMain`, `VerifyMain`, `WriteBackup`,
`GiveUp` are `NVM_WriteRemoteMemoryfromLocal`; `ReadMain`, `CheckBackup`,
`RepairBackup`, `ReadBackup`, `RepairMain`, `FailedRead` are
`NVM_ReadRemoteMemorytoLocal`; `StartSave` and `StartRead` the calls of
`NVM_WriteBlockData` and `NVM_ReadBlockData`. `PowerFails` interrupts any of
them and may tear the write under way. A failed write (`Spoiled`) leaves the old
content, the new, or neither, whatever status it reports; it may even report
success. A failed read reports its failure; a read that silently returns other
data is not modelled.

Saves and reads come in any order. In particular nothing has to be read between a
start and a save: `NVM_Init` loops over `nvm_num = 0` devices, and nothing in the
repository calls `NVM_ReadBlockData`.

`attempted`, `completed` and `hit` are history: nothing in the code depends on
them. `hit` says what faults have done to a block: `"backup"` once a write of its backup
was hit, by the device or by power (the status of that write is ignored, NVM.c:533),
and `"both"` once a write of its main copy was hit after that. From then on the
block may be lost and nothing is promised of it; a main copy that is verified,
and a backup written well behind it, end this. One fault alone, wherever it falls, excuses
nothing.

### NVMSched

`pc` is the place in a pass of `NVM_SaveUpdate`; every read of a clock
(`LookAtInterval`, `LookAtClock`, `Compare`, `Stamp`, and `Copy`) or of a signal and every
part of a save (`Copy`, `Write`, `ClearFlag`) is a step of its own, since errors are
recorded (`Record`), seconds counted (`Second`) and the mains watched (`Mains`) by tasks
that interrupt the loop. A loss of the mains is reported by two signals, which change on
their own: `ACLossStatus` and the warning bit `ACLoss`. `LookAtLoss` and `LookAtCommand`
are the two halves of the condition at line 684, `LookAtInterval`, `LookAtStatus` and
`LookAtWarning` the three of that at lines 701-702, each a read at its own time.
`SaveOnLoss` (lines 686-698) is one step: it changes no block, since
`NVM_SaveEepromData` visits no device, and a command that arrives after the look at
it is cleared unseen, as in the code.

The run times are the entries of three blocks. `BlockOf` and `CopiesRunTime` give the
block an entry is in and the entries the code copies into a block: for that of
the based axes 0 to 4, but not 5 (`LastAxis`), whose line is commented out. What is
copied is an accumulated time (NVM.c:370, 406-411), while a save is due by the powered-on
time; the counting of both is outside the repository, and `Accumulated` takes them to
advance together. What happens
inside a write is `NVMBlock`'s subject: here it works or fails (`Failing` names the
blocks whose writes may), and the caller does
not learn which. A save is taken to last less than an interval (the guard of
`Second`). `lapses`, `passed`, `wear` and `cleared` are history: `lapses` holds the
blocks something outside the scheduler went wrong for (a failed write, an error
recorded in the middle of a save, a second in which the loop did not come by);
`cleared` the signals that have been clear since the last save at a loss.

### Ring, Fifo and ByteWindow

`Ring` has the buffer of `fifoa.c` as a record (memory, length, offsets of the
read and write pointers) and its functions as operators. `Fifo` makes the two
that loop, `FIFOA_ForceWrite` and `FIFOA_Read`, into actions of one turn each
(`WriteByte`, `ReadByte`), with the flag `fullFlag` as a variable: it is set once
per call and never cleared, so it must be right for the rest of the call. Calls
do not overlap. `ByteWindow` is the promise: the bytes written last, oldest
first. It sees what a caller sees (what is left to write, what a read wants
and has taken), so a buffer that lost its contents could not pass for one set
up anew. `ForceWrite` is what a whole call comes to, in one expression; that
the loop does the same is the property `CallsAddUp`, and `Trace` uses it for
each sample.

### DebugP

The bytes on the line are bytes. One action `ScanByte` is one turn of the loop of
`DebugP_ReceiveFrame`, with one disjunct per case of its `switch` (two for the
body: more to come, or `FrameComplete`). `HandleFrame` is the end of a pass: the
last frame completed in it is executed and answered, if its command is known.
The model's commands are `RamRead` and `RamWrite` of one byte; the wider accesses
do the same in a loop over a count, and the trace commands are in `Trace`. The
client makes a request, waits for an answer with its id, and may send it again
meanwhile; it alternates two ids, so that a late answer to the request before can
be told from its own. `Damage` loses a byte or makes another of it, and an answer
may get lost in `HandleFrame`. A length that `cmdBuff` has no room for ends the
model (`overrun`): what follows is undefined.

### Trace

| code | model |
|---|---|
| `Trace_FIFO`, `Trace_buff` | `ring` |
| `Trace_Channel`, `Trace_ChannelId`; `Trace_PollingLength` | `chan`; `pollLen` |
| counts, rate, `Trace_Operation`, `DebugP_TriggerOp`, `Trace_TriggerSetIndex` | `conf` |
| `Trace_Status`, `Trace_AutoPollingFlag`, `Trace_TriggerStatus`, the `_work` counts, `Trace_SampleRateCount` | `rec` |
| `Trace_DataSector`, `p1_buff`.. `p2_left`, the statics of `TRACE_Run` | `tx` |
| the program at the other end of the serial port | `client` |
| `TRACE_Run` | `TraceRun`: (`Skip` or `Collect`), then (`Pause` or `Send`) |
| the commands of `DebugP_HandleFrame` | `Clear`, `SetChannel`, `SetSampleConfig`, `SetTrigger`, `Start`, `StartPolling`, `Fetch`, `FetchRest` |

A byte in the memory is the number of its sample and its place in it, the
channels of a sample one after the other. A trigger is a comparison, which may
hold or not at any sample, or immediate. `hist` numbers the samples (modulo
`Numbers`, which exceeds what the memory holds) and is history only. `Clear`
forgets what is left in the ring, which nothing reads until `TRACE_Initial`
starts over, and bytes sent when the client has asked for nothing are dropped.
One call of `TRACE_Run` and one command are atomic towards each other: `TRACE_Run`
is written for an interrupt, which runs to its end, but a command of the background
loop that it interrupts half-way is not modelled. The status command changes nothing; the client
asks for data when the status is Done, and for the second part when the first
has come whole. It clears before it sets up, as it must: before the first clear
`Trace_PollingLength` is 4, and no ring is a whole number of samples.

## 3. What the runs check

TLC finishes every passing run in at most about two minutes. Bounds:
`MaxTransfers`, `MaxUnits` (FileMan), `MaxOpens` (FoERead), `MaxSaves` (NVMBlock),
`MaxSeconds` (NVMSched), `MaxRequests`, `MaxLine`, `MaxFaults` (DebugP) and `MaxCall`
(Fifo) are the only caps on otherwise unbounded behaviour; `Wrap` stands for 2^16
and is above every legal count, `FirmwareLimit` for `MAX_FIRMWARE_ADDRESS`. Names
are symmetric.

| run | instance | properties |
|---|---|---|
| `fileman_last` | 2 names, 4 sectors of 2, 3 units, 5 transfers; create, delete the newest, aborts, failures, power | `RangesOwned`, `EntriesIntact`, `RestartKeepsFiles` |
| `fileman_grow` | 3 names, 4 sectors of 2, 4 units, 4 transfers; rewrites of any length but for `aligned`, aborts, failures | `AckedListed`, `OneRunReadsBack`, `OwnedSectorsUntouched` |
| `fileman_any` | 2 names, 3 sectors of 2, 2 units, images below 3 units, 4 transfers; both modes, any header, everything but deleting a missing file | `TypeOK`, `NamesUnique`, `FirmwareWhole` |
| `foe_read` | all sizes 1..27, sectors of 8, slack 3, blocks of 3, 2 reads | `WindowOK`, `NoEarlyEnd`, `DeliversFile`, `TransferEnds` |
| `nvm_redundancy` | 2 blocks, 2 attempts (the code's number), 3 saves, read and write errors | `CopySurvives`, `CopiesCurrent`, `ReadsCurrent`, `OperationEnds` |
| `nvm_history` | 2 axes and the supplier, errors in all three, failing writes, the clocks stand still | `TypeOK`, `FlagOrKept`, `HistorySaved` |
| `nvm_runtime` | 5 seconds, an interval of 4, the device and the based axes running, failing writes, both signals of the mains at any moment | `WearBounded`, `RunTimeSaved`, `LossSavedOnce` |
| `debugp_frames` | 3 requests, 16 bytes on the line, 1 byte lost or damaged or 1 answer lost, requests sent again | `TypeOK`, `NoPhantom`, `AnswersTrue`, `RequestAnswered` |
| `fifo` | 5 cells, lengths 3 and 5, two byte values, calls of up to 3 bytes | `TypeOK`, `FlagTrue`, `SectorsHold`, `HoldsLastBytes`, `CallsAddUp` |
| `trace_record` | 7 bytes for up to 2 channels of 2 bytes, 1 sample before and 1 after the trigger, frames of 3 bytes, any number of recordings | `TypeOK`, `RingWhole`, `WindowIsRecording`, `TriggerPlace`, `ReceivedInOrder`, `RecordingEnds`, `FirstPartArrives` |

Two runs expect a violation: `tc003_read_back` and `nvm_extended` (section 4).

Why these bounds suffice for the cases that matter: a packet of 2 units in
sectors of 2 can end before, at and behind a sector's end; 3 or 4 sectors hold
two files, one of them longer than a sector, so a growing file meets both a
neighbour and the end of the disk; four transfers are enough to create two
files, rewrite one of them and have another transfer abort or fail in between;
`fileman_last` has five, so that files are created and deleted behind what a
broken-off transfer left; in `fileman_any` files take one sector (the longer ones are
the other two runs' subject), and four transfers are what it takes to create two files,
delete the first and then fault on deleting the second; an image or a format
transfer has a first packet, a later one, an empty last one and one that reaches the
limit; in `foe_read` the sizes include one byte, exactly one, two and three sectors, and one
more or less than each, so a refill meets a rest of every length; in
`nvm_redundancy` two saves of a block and one of another make an older and a newer
copy with a power failure between; in `nvm_runtime` the clock of
the device is due twice and that of the based axes once (the offsets differ), and seconds may go by between any two steps; in
`debugp_frames` a line of 16 bytes holds two frames, so that a frame sent again
follows one cut short, and the damaged values are a legal and an illegal length
and the first byte of a head; in `fifo` a call can be longer than the shorter
buffer holds, and the random contents of the memory count as bytes nobody wrote;
in `trace_record` the memory holds three samples of one channel (more than the
window) or one of two (fewer), neither is a divisor of 7, so the ring's length is
rounded, the window starts and wraps at every place, and a comparison may hold
at once or after any number of samples.

What they show:

* Without rewriting, without deleting in the middle and without deleting while a
  broken-off transfer's sectors are still marked, the file system keeps its
  promises through aborts, failed writes and power failures (`RangesOwned`,
  `EntriesIntact`, `RestartKeepsFiles`). The last one says what a start can lose:
  a directory with no free sector or entry is refused (fileman.c:205-206), and
  after a directory write that did not complete there is no directory.
* When files are rewritten and grow, allocation itself stays sound: no transfer
  erases a sector the table gives to another file (`OwnedSectorsUntouched`), and
  the directory has the right CRC (`AckedListed`). But reading does not follow the
  table: it takes a file for contiguous. So what was acknowledged reads back
  for the files that lie in one run of sectors (`OneRunReadsBack`);
  `AckedReadsBack`, without that condition, is the violated run.
* `NamesUnique` relates the two file counts and the entries through every
  operation and failure: a count that ran ahead would list an entry twice.
* A firmware image stays whole until a packet with a good header erases the area, and
  nothing that failed, was cut off or came with a format passes for one
  (`FirmwareWhole`). What a packet with a good header may be is section 4's subject.
* A saved block survives any one fault at any moment, whether or not anything is read
  before the next save (`CopySurvives`), is never older than its last save
  (`CopiesCurrent`), and reads never go back behind it (`ReadsCurrent`).
* A recorded error is not forgotten but for the two ways in which the scheduler
  clears a flag for something not saved: a write that failed, and an error that
  came in the middle of the save (`FlagOrKept`). Saves are never starved
  as long as no lower axis keeps recording errors (`HistorySaved`).
* The run times of the device and of the axes 0 to 4 are saved in every interval in
  which the loop comes by in the due second (`RunTimeSaved`), twice at most, when the
  clock ticks between its two reads (`WearBounded`). As long as one of the two signals
  goes on reporting a loss of the mains, it triggers one save per interval, however the
  other flickers and whenever the loop reads either (`LossSavedOnce`).
* The frame parser never makes up a command from parts of frames, as long as no
  byte is damaged (`NoPhantom`; the check byte is not looked at, so a damaged frame
  is executed as it came), and finds the next frame again after damage
  (`RequestAnswered`).
* The trace recorder's window is exact: whole samples, none missing, none from
  before the start, at every moment of a recording, and it stands where the
  trigger was. What reaches the client is that window in order; its second part
  is another matter (section 4).

### Fairness

`foe_read` assumes `WF(NextBlock)`: the stack calls `FoE_ReadData` for every block
the master acknowledges, and a master that goes on acknowledges. Without it a
master may simply stop, which the code has no way to prevent. `nvm_redundancy`
assumes `WF(Save \/ Read)`: a started function runs on in the background loop;
nothing is assumed of power failures, which end the operation as well.
`TransferEnds` uses that only finitely many reads are opened (`MaxOpens`): a
master that keeps reopening never finishes one. No fairness is assumed of
FileMan and Firmware. `nvm_history` assumes `WF(Pass)`: the background loop goes
on; nothing is assumed of errors, commands or the self diagnosis, and
`HistorySaved` promises a save only if they let the loop through from some time
on. `debugp_frames` assumes `WF(ScanByte)` and `WF(HandleFrame)` (bytes sent arrive, and the
background loop calls `DebugP_Main`) and `WF(Resend)` (the client does not give up);
without resending a request may well stay unanswered: the first byte after
a start is dropped and a frame may be overwritten by another. `trace_record` assumes
`WF(TraceRun)`: `TRACE_Run` is written to be called periodically, whatever the client does; nothing is assumed of the client. Fifo
needs none.

`CHECK_DEADLOCK FALSE` stands where the instance has no restart: once the
client has made its `MaxTransfers` transfers, its `MaxOpens` reads or its
`MaxRequests` requests, it stops.

## 4. Where the code does something else than the documents say

Two are runs that TLC finds violated:

| run | property | what happens |
|---|---|---|
| `tc003_read_back` | `AckedReadsBack` | test case TC_003 of the design document (`src/filemag/FileSys软件设计文档.md`, section 7.1): a file grown past a neighbour lies scattered, and is read as if contiguous |
| `nvm_extended` | `ExtendedSaved` | the branch commented "extended axes run time" (NVM.c:658) writes its block every interval, but `NVM_WriteLocalMemoryfromApplication` has no case for that EEPROM (NVM.c:459-469): what is written is never updated |

Others the models show but no run is kept for. The first appear in instances of
`FileMan` with the operations named:

* TC_002, `{create, format, abort}` against `AckedListed`: a format cut off before
  its first packet leaves `FileMan_formatFlag` set; the first packet of the next
  file is swallowed, and the master is told all is well.
* TC_004, `{create, deleteAny}`: deleting moves the sector table and the entries
  down without renumbering the owners; a later deletion does not find its
  sectors and uses 65535 as an index (`halted`).
* Leftover marks, `{create, abort, deleteAny}` against `RangesOwned`: a transfer that is
  broken off leaves its sectors marked with the next free owner. Create A, begin B
  and abort, delete A: B's mark moves down with the table (fileman.c:515) and keeps
  its number. Now create C and D, of which D, the second entry, gets that number
  too; deleting D again removes the lowest sector with it, the leftover, and shifts
  the table under the entry of C. It takes six transfers, more than the run has: it came
  up in the proof of `FilesOwnTheirSectors`, and TLC finds it with `MaxTransfers = 6`
  and no guard on the marks in `deleteLast`.
* TC_009, `{create, rewrite, powerFail}` against `EntriesIntact`: power lost in a
  rewrite leaves the file listed with a CRC its contents do not match, and the
  start checks the directory only.
* TC_006, `{create, rewrite, aligned}` against `OneRunReadsBack`: after a packet
  that ends exactly at a sector's end, `WriteFileAddress` is already in the
  next sector, and the search for the file's next sector starts one too far
  (fileman.c:444, 471).
* TC_007, `{create}`: a write that runs out of sectors returns an error and
  leaves the sectors it took marked in the table (fileman.c:470).
* TC_008, `{create, format, restart}`: the format clears the directory in RAM
  only; a restart before the next commit brings the files back (filecfg.c:103).
* TC_010, `{create, restart}` against `AckedListed`: a disk filled to its last
  sector is taken for invalid at the next start (fileman.c:206).
* TC_011, `{create, deleteMissing}` against `NamesUnique`: deleting a missing file
  adds it first, then decrements counts that never counted it
  (bootloaderappl.c:148, fileman.c:533); at zero they wrap.
* `TRACE_SendTraceData` sends the second part of a recording only when exactly
  one byte of it is left (trace_config.c:195), so a recording that wraps in
  the ring never arrives whole, although the command says it prepares all of it
  (DebugP.c:424). `FirstPartArrives` with `sector2` and `len2` fails.
* Clearing the recorder does not clear what is being sent: nothing calls
  `TRACE_ClrSendStatus`. With `ClearsEarly = TRUE` TLC finds `ReceivedInOrder`
  violated: one byte of an old second part follows the first part of the next
  recording.
* A window of no samples (both counts 0) is not put up at all, so a part of an
  older recording may be sent in its place; the client of the model asks for
  at least one sample.
* `NVM_Init` and `NVM_SaveEepromData` loop over `nvm_num = 0` devices (NVM.c:99,
  587): nothing is loaded at a start, though a comment says local memory is
  "loaded from eeprom when initialization" (NVM.c:327), and nothing is saved
  at a loss of AC power: `SaveOnLoss` changes no block. So a copy that power
  tore stays torn until the block is saved again.
* The two signals of a loss of the mains are read one after the other (NVM.c:702). If the
  first is clear when it is read and the second when that is read, the save is enabled
  again although at every moment one of the two reported the loss. `LossSavedOnce`
  therefore speaks of one signal that stays on; it promises nothing of mains whose two
  signals drop out in turn.
* A later packet of a format transfer in normal mode is taken for firmware
  (bootloaderappl.c:183-246): with a good header in it, or left in `aFileData` by an
  earlier transfer, the code erases the update area, programs the packet and answers 0.
  In `Firmware` this is `ProgramFirmware` with `bBootMode` false.
* A firmware update that follows a format cut off before its first packet loses its
  first packet to the format flag (bootloaderappl.c:140): the rest is refused or, if its
  header is taken for good, acknowledged as the image.
* `NVM_SaveErrHist` clears the flag of a history whether its save worked or not,
  and whatever was recorded meanwhile (NVM.c:620, 628); it saves the first flagged
  axis and leaves the others to later passes, as its comment says (NVM.c:621), so an
  axis that keeps recording errors starves those after it.
* The run time of axis 5 is not copied into its block (commented out, NVM.c:412),
  although the block is written for the based axes ("Save the based axis inverter
  operating time at every 30 minutes", NVM.c:647) and reading it back sets that time
  (NVM.c:278). With the constants of `nvm_runtime` TLC finds `LastAxisSaved` violated.
* DebugP computes the check byte of a frame and does not compare it: the condition
  is `if (1U)` (DebugP.c:202). A length of up to 199 is accepted (DebugP.c:184)
  although `cmdBuff` and the frame are shorter (`overrun`). The first byte after a start is
  not looked at (DebugP.c:163-165), so a request that comes first is lost; and
  after a wrong second byte of the head the parser looks for a new first byte
  behind it, so AA AA 55 hides the frame it begins. A pass handles the last frame
  completed in it only (DebugP.c:155). This is why `RequestAnswered` needs a client
  that sends again.
* The protocol does not escape the two bytes a frame begins with. With an address,
  a value or a check byte that put AA and 55 next to each other inside a frame
  (`Addresses = {170}`, `Values = {0, 85}`, `Checks = {5}`), a parser that has missed the
  beginning, as every one has of the first frame after a start, takes those for one, and
  TLC finds `NoPhantom` violated on a good line. The proofs assume `HeadNotInside`.

## 5. What is proved

TLAPS checks every step; nothing is assumed but the named assumptions.

**FoEReadProofs**, under `ReadAssumption` (a block fits in the slack of the
buffer and is shorter than a sector: `MaxBlock <= Slack`, `MaxBlock < Sector`).
The inductive invariant is `TypeOK /\ WindowOK /\ NoEarlyEnd` and that a read is open
only of a file that is not empty: `NoEarlyEnd` is not inductive alone, since that a
refill brings in more than was used up follows from how the window and the remainder are accounted for.
`RefillBounds` is the arithmetic at its core: a refill fits behind the rest kept,
never exceeds what is left of the file, and is either all of it or longer than
a block. From it:

* `ReadWindowCorrect`: the window always holds exactly the unread bytes, inside
  the buffer;
* `EndNeverMistaken`: its end is never taken for the file's;
* `ReadTypeCorrect`;
* `ReadImplementsStream`: `Spec => Stream!Spec`, for every file size.

**NVMBlockProofs**, for every number of blocks, attempts and saves, any faults of the
device and any order of saves and reads. Three of the theorems have one hypothesis,
`HalvesAgree`: the reader computes the backup's address with the size
of the EEPROM at hand, the writer always with that of the SSDCB EEPROM
(NVM.c:532); they agree for that device, and for others only if their sizes
are equal, which the repository does not say. The inductive invariant `IInv` has,
besides types, three parts for each block: `Ordered` (copies are no newer than the
last save asked for), `Redundant` (which copy carries the block, by what was hit: with
nothing hit the backup, with the backup hit the main copy, and neither is older than the
last save that succeeded) and `InFlight`
(what the running function knows at each of its places). It is the order of the
writes that makes it inductive: the backup is overwritten only once main was read
back or found good. There is one lemma per action. From it:

* `NVMTypeCorrect`, which needs no hypothesis;
* `SavedBlocksSurvive`: `[]CopySurvives`, and `CopiesStayCurrent`: `[]CopiesCurrent`;
* `ReadsAreCurrent`: what a read hands out is the last successful save or a
  later one that was cut short.

**FifoProofs**, under `FifoAssumption` (lengths of at least 2, inside the memory:
with one cell nothing can be held). The inductive invariant is `TypeOK`, that a
write and a read are not under way at once, and `FlagTrue`. `FlagTrue` is what
makes the rest work: `PutHeld`, that a turn of the write loop appends one byte
and drops the oldest exactly when there is no room, needs the flag to equal
"full", while the code only raises it. `PutHeld` and `TakeHeld` compare the
sequences byte by byte round the end of the memory. From it:

* `FlagNeverStale`: `Spec => []FlagTrue`;
* `SectorsAlwaysHold`: the two runs of cells and the length the recorder works
  with are what the buffer holds;
* `FifoIsWindow`: `Spec => Window!Spec`, for every memory, length and alphabet;
* `LoopIsForceWrite`: `Spec => CallsAddUp`, so that `Trace` may use `ForceWrite` for a
  whole call. Cell by cell: `Last` is the number of the last byte of the call that falls on
  a cell, a turn of the loop brings it one nearer (`LastTurn`), and a cell whose number
  is 0 is the one written in this turn;
* `FifoTypeCorrect`: `Spec => []TypeOK`.

**NVMSchedProofs**, for every number of axes and every interval above three
seconds (so that no block is due the moment the clocks start). Four
inductive invariants share `Place` (which block `pc` can be
about at which step). `HInv` follows a history through its save: while it is being
copied its flag is still set, and once it is written either the copy was up to date or
something went wrong. `WInv` counts the writes of a run-time block: the first leaves
its second in `saveTime`, so a further one needs a clock that moved on since, and
a clock moves at most once before the block is no longer due. `AInv` bounds the age
of an entry in EEPROM by how long ago it was last due, for the device and the axes 0
to 4. `LossInv` ties `NVM_ACLoss_SaveDataFlag` to what may have set it: each of the two
signals was clear since the last save, or an interval has gone by; between the two
reads it remembers the first. From them:

* `ErrorsKept`: `Spec => []FlagOrKept`;
* `WearLimit`: `Spec => []WearBounded`;
* `RunTimeKept`: `Spec => []RunTimeSaved`;
* `OneSaveForALoss`: `Spec => LossSavedOnce`, and `NVMSchedTypeCorrect`.

**TraceProofs**, for every memory, any channels that fit it (`TraceAssumption`), any
counts, rates and frame size, and any order of commands. The inductive invariant
`TInv` has, besides types, four parts: `Stage` (which status goes with what the
client is at), `Counts` (until the trigger all the samples after it are left to
take; from then on those taken and those left add up to what was asked for), `Channels`
(n channels take at most n shares of the memory, `MaxChannel` of them all of it)
and `RingShape` (the ring is longer than a sample while one is recorded, so it is
not empty once there was a trigger); and the two places to send from stay in the
memory. `ArrivesInOrder` adds `Asked` and `Sending`: what has come and what is left of
the first part make it up, sending goes on right behind what has come, and the
second place stays quiet until it is asked for. The recorder puts up a first part
only if it is not empty and otherwise keeps sending what the last recording left, so
this needs a window that is not empty: `RingShape`, and the hypothesis `NoWrap` that its
length is below 65536 (trace.c:186 multiplies in 16 bits; a product of exactly
65536 would be an empty window). The other hypothesis, `ClearsEarly = FALSE`, leaves
out the divergence of section 4. `Holds` is about what the cells of the ring hold: counted
back from the write pointer, as far as the ring is filled, cell after cell carries
the parts of the last numbers taken, each number with all its channels in the order
they were set up. Cells are named by their distance behind the write pointer
(`Back`), because every write moves all the distances by one and nothing else; what
gives way to a write is then simply what the capacity no longer reaches, and
that it is whole follows from the capacity being a multiple of a sample. From these:

* `SendsInsideBuffer`: `Spec => []TypeOK`;
* `EndsAfterTrigger`: `Spec => []TriggerPlace`;
* `ArrivesInOrder`: `Spec => []ReceivedInOrder`;
* `NothingHalf`: `Spec => []RingWhole`, with no hypothesis;
* `SendsRecording`: `Spec => []WindowIsRecording`, under `NoWrap`: with a length that
  wraps the recorder sends less than was asked for.

**FileManProofs** and StoredProofs, which extends it, are about `FwSpec`, both
modes together; `FilesAlone` says that every behaviour of `FileMan` alone is one
of it. They hold for every size of the disk, the sectors and the packets, any
set of names and any number of transfers (`SizesAssumption`: at most 65534 sectors,
since 65535 means "not found", and packets no longer than a sector), each under a
hypothesis on `Ops`.

* `NInv` (FileManProofs): the entries of the two directories and the writing
  position have their shape, names are unique in both, the two file counts agree, and
  a transfer that is open knows its entry: a listed one, or the first free one,
  whose name is not listed. The last part is what makes uniqueness inductive: a name
  is looked up when a file is opened, and entered with its first packets. What the
  searches of the code find (the lowest entry, the lowest free sector) is proved
  by taking a least counterexample. `NamesStayUnique`, unless missing files are deleted.
* `OInv` (FileManProofs): every listed file starts in a sector marked with it, in
  RAM and in flash, and the writing position lies in a sector marked with
  the file being written, as far into it as the length says. From these,
  `PacketUntouched` and its lemmas follow each flash operation of a packet (erase,
  front part, erase of the next sector, rest, and each torn one) and show that it stays
  in sectors that are free or the file's own. `ForeignSectorsUntouched`,
  without deletions: a deletion renumbers nothing, and breaks the
  first part of the invariant.
* `AInv` (StoredProofs): a file that was acknowledged is listed, with its CRC unless
  it is being written; the CRC of a transfer is that of what was sent. `AckedStaysListed`,
  without deletions, formats (whose flag swallows packets) and restarts (which lose
  a directory that is full).
* `Filling` and `Stored` (StoredProofs), for `OneRunReadsBack`. A rewritten file takes its
  old sectors where they are listed and else the first free one behind, so where it
  lies is known only once it is done. `Along` therefore says of the file being written:
  it has reached at least as many sectors behind its first as its length fills; if it
  is further along, one of those in between is not marked with it (so it will not be
  in one run); if not, flash holds what was sent from its first sector on. `PacketReads`
  keeps this for a packet, within a sector and over the boundary (`NextIsBeyond` is
  about the sector chosen there, `FillsTo` about the marks); `CommitReads` turns it into
  `Stored` when the last packet gives back the sectors behind; `ForeignEntry` keeps
  `Stored` of all other files, in whose sectors nothing is programmed.
  `AckedReadsBackInOneRun`, under the hypothesis of `AckedStaysListed` and without packets
  of a rewritten file that end at a sector boundary with more to follow (`aligned`): after
  one the next sector is skipped, the divergence TC_006 of section 4.
* `CInv` (StoredProofs), under `OnlyAppends`: nothing is rewritten or formatted, and only the
  newest entry is deleted. `Orderly` says where things lie, in RAM and in the directory
  in flash: the marked sectors come first, in the order of the files; each listed
  file lies in one run of sectors marked with it, below the count of taken ones; the
  only other marks are those a broken-off transfer left for the next file. It is what
  makes `RangesOwned` inductive, since a deletion takes as many sectors out of the table as
  the size of the file says, searching for each: that those found are the file's own
  needs the order. `Whole` says that listed files read back; `Appending`, that a
  transfer writes behind everything listed, so that a torn page or a power
  failure damages nothing; `Deleting`, that no leftover lies behind the file being
  deleted (without it the property is false, section 4); `AsOnDisk`, that a directory a
  start accepts lists what RAM lists. The loop of `FileMan_DelFileData` is a function
  on the number of turns: that it exists and what it keeps (`DropIs`, `DropKeeps`) are
  proved by taking a least counterexample, and `DeleteOrderly` is what it comes to.
  `CommitOrderly` and `AddOrderly` do the same for the last packet and the first. From these:
  `FilesOwnTheirSectors`, `ListedFilesIntact` and `RestartListsTheSame`, through restarts
  and power failures between any two flash operations.
* `FInv` (StoredProofs): while an image is on its way (`Updating`) the area holds what
  was sent of it, the offset is its length, and no packet can be swallowed any more
  once one was programmed; a format transfer that programs the area leaves no image.
  `ImageWhole`, whatever headers are found, unless missing files are deleted (only
  because it uses `NInv`).
* `TInv` (StoredProofs): the types, under the same hypothesis as `NInv`. Flash holds
  units that were sent, or none (`Cells`); the table, the sizes and the counts stay in
  their ranges, in RAM and in the directory on flash (`Ranged`); an open write is at a
  position within some sector of the disk and has not written more than was sent
  (`Midway`). `FInv`'s `At` cannot be used for the position, since it also speaks of the
  marks, which a deletion by size may take from another file. `DropRanged` shows what
  the deletion's loop returns to be a table, by a least counterexample.
  `FileManTypeCorrect`.

**DebugPProofs.** For any addresses, values, ids, check bytes, capacity and any number of
requests, copies and lost answers. `TInv`, the types, is an invariant whatever is lost
or damaged (`DebugPTypeCorrect`). The two others are about a good line:

* `DInv`: there is a reading of the line as frames, which gives every byte on it a request
  (`who`: the client's, or the one before it) and a place in its frame (`pos`), such that
  places follow each other, no older frame comes after a newer one (`Laid`), and the
  parser, from the second byte of a head on, is at the place it believes to be at,
  with the bytes it has put together being the frame's (`Synced`). The frame that is complete
  is one of the two requests and none on the line is older (`Received`). `Told` is about
  the memory: an idle client has left nothing of an older request on the way, so that
  only two requests are ever under way, and what they do is done already or is the
  one change the client waits for. A late copy of the request before writes what
  the memory holds; that it cannot come after the newer one was executed is the order
  in `Laid`. The reading is existential: reading a byte shifts it (`TailLaid`), sending
  extends it (`SendLaid`), and the next request makes it one older (`AgedLaid`). `NoHead` is
  the one place that needs `HeadNotInside` (section 4).
* `NoCommandMadeUp`: `Spec => []NoPhantom`; `WhatIsToldIsTrue`: `Spec => []AnswersTrue`,
  both under `HeadNotInside`, which the run's constants meet.

**Only model-checked:** `TransferEnds`, `OperationEnds`, `HistorySaved`,
`RequestAnswered`, `RecordingEnds` and `FirstPartArrives`: liveness is out of the
prover's reach.

## 6. What is not modelled

* The directory listing (`FileMan_listFiles`): text, no state.
* An empty last packet of a write, which would delete the file just written:
  whether the stack hands such a packet to the handler is not in the
  repository. In the model only deletions send one.
* Writing an empty file: for the same reason.
* CRC collisions, and bytes within a unit.
* The backup of an NVM block being older than main without being bad. It is in
  the model, but note what the properties do not promise: such a backup is
  never refreshed by a read (only its CRC is looked at), so a later torn main
  copy falls back to it, and the value read may go back to the last completed
  save.
* The recorder's timeout (nothing calls `TRACE_SetTimeout`, so the status Error
  is never reached), `TRACE_InitFifo` and `TRACE_GetBuff` (never called), the
  channel length 0, and sample sizes over 255 or windows over 65535 bytes, for
  which the 8-bit and 16-bit lengths wrap (`TotalLen` has its width).
* DebugP's memory accesses of more than one byte (a loop over a count of up to
  255 that does the same), its parameter commands (they call outside the
  repository), and the sharing of one send buffer between the background loop
  and the periodic task (DebugP.c:78): whether the port copies it is in a driver
  outside the repository.
* What the boot loader does with a firmware image.
* `FCT_Eeprom_FaultInjection` (external, a test command) and
  `NVM_Modify_Default_HW_Version`, which changes the default production data in RAM:
  neither touches what the scheduler's properties are about.
* A command of the trace recorder that `TRACE_Run` interrupts (section 2).
* An EEPROM write of NVMSched that lasts longer than an interval.
* littlefs (`lfs.c`, vendored) and its ports, which are device I/O.
* The vendor's driver library, examples and build output: by far most of the
  repository's lines, and none of them its own logic.
* The EEPROM access layer (`NVM_Config.c`) and everything listed in section 1
  under "The rest".

## 7. Plan

Done: `FileMan`, `Firmware`, `FoERead`, `NVMBlock`, `NVMSched`, `Fifo`, `Trace` and
`DebugP` with their runs, and the proofs of section 5. Left, in this order:

1. An abstract file store (a map from names to contents) that `FileMan`, with the
   operations of `fileman_last`, implements; an abstract recorder (a sequence of
   samples and a trigger) that `Trace` implements.
