------------------------------ MODULE NVMBlock ------------------------------
(***************************************************************************)
(* The redundant blocks of NVM.c: every block of one EEPROM has a main and *)
(* a backup copy, each guarded by a CRC.  NVM_WriteBlockData and           *)
(* NVM_ReadBlockData run one at a time in the background loop, but power   *)
(* may fail between, or inside, any two of their EEPROM accesses, and the  *)
(* device (external: NVM_Config.c and the drivers below it) may fail an    *)
(* access.  One action is one EEPROM access with what the code does up to  *)
(* the next one.                                                           *)
(*                                                                         *)
(* The content of a copy is the serial number of the save that produced    *)
(* it; Bad is a content whose CRC does not match.                          *)
(***************************************************************************)
EXTENDS Integers, FiniteSets

CONSTANTS
  ReadHalf,    \* NVM_OrignalMemoryBlockNum[nvm_id]: where the reader looks
  WriteHalf,   \* SSDCB_EEPROM_BLOCK_NUM / 2: where the writer puts backups
  MaxTries,    \* NVM_WRITE_ERR_MAX_CNT
  MaxSaves,    \* bound: saves the application asks for
  Faults       \* what the device does wrong: subset of {"read", "write"}

ASSUME NVMAssumption ==
  /\ ReadHalf \in Nat \ {0} /\ WriteHalf \in Nat \ {0}
  /\ MaxTries \in Nat \ {0} /\ MaxSaves \in Nat
  /\ Faults \subseteq {"read", "write"}

VARIABLES
  eeprom,     \* the copies, by block number in the device
  local,      \* pOriginalMemoryBlock: the local memory of each block
  app,        \* what a read last handed to the application, by block
  op,         \* the function running, its block, and the attempts it has left
  saves,      \* saves asked for so far
  attempted,  \* history: the latest save of each block
  completed,  \* history: the latest save of each block that succeeded
  hit         \* history: which copies of a block power or the device has hit

vars == <<eeprom, local, app, op, saves, attempted, completed, hit>>
history == <<saves, attempted, completed>>

Blocks == 0..(ReadHalf - 1)
Main(b) == b
ReaderBackup(b) == b + ReadHalf
WriterBackup(b) == b + WriteHalf
Half == IF ReadHalf > WriteHalf THEN ReadHalf ELSE WriteHalf
Cells == 0..(ReadHalf + Half - 1)

Bad == 0

\* No write of the backup was hit since it was last written, or one was, or a
\* write of the main copy was hit after it.
Hits == {"none", "backup", "both"}
Idle == [at |-> "idle", block |-> 0, tries |-> 0]
Goto(place) == op' = [op EXCEPT !.at = place]

WritePlaces == {"main", "backup", "repairMain", "repairBackup"}
Places == WritePlaces \cup {"idle", "verify", "readMain", "readBackup", "checkBackup"}

-----------------------------------------------------------------------------
(***************************************************************************)
(* The device.                                                             *)
(***************************************************************************)
\* A write that works, or one that fails: whatever status it reports, the
\* copy then holds its old content, the new one or neither.
Stored(c, v) == eeprom' = [eeprom EXCEPT ![c] = v]
Spoiled(c, v) ==
  /\ "write" \in Faults
  /\ \E x \in {eeprom[c], Bad, v} : Stored(c, x)

ReadFails == "read" \in Faults

\* A write of a copy was hit, by the device or by power.  What becomes of the
\* main copy matters only when the backup is not sure.
MainHit(b) == hit' = [hit EXCEPT ![b] = IF @ = "none" THEN "none" ELSE "both"]
BackupHit(b) == hit' = [hit EXCEPT ![b] = IF @ = "both" THEN "both" ELSE "backup"]

\* The main copy was verified: only the backup may still be unsure.
MainSure(b) == hit' = [hit EXCEPT ![b] = IF @ = "both" THEN "backup" ELSE @]

\* The backup was written from a main copy that is no older than it should be.
BackupSure(b) == hit' = [hit EXCEPT ![b] = IF @ = "both" THEN "both" ELSE "none"]

-----------------------------------------------------------------------------
(***************************************************************************)
(* NVM_WriteBlockData.                                                     *)
(***************************************************************************)
\* The application data goes to local memory, then its CRC is computed.
StartSave(b) ==
  /\ op.at = "idle"
  /\ saves < MaxSaves
  /\ saves' = saves + 1
  /\ attempted' = [attempted EXCEPT ![b] = saves']
  /\ local' = [local EXCEPT ![b] = saves']
  /\ op' = [at |-> "main", block |-> b, tries |-> MaxTries]
  /\ UNCHANGED <<eeprom, app, completed, hit>>

SpentNone(n) == n   \* mutant: a failed attempt is not counted
Spent(n) == n - 1

\* One attempt: the main copy is written; a reported failure costs the attempt.
WriteMain ==
  LET c == Main(op.block)
      v == local[op.block]
  IN  /\ op.at = "main"
      /\ op.tries > 0
      /\ \/ /\ Stored(c, v) /\ UNCHANGED hit
            /\ op' = [op EXCEPT !.at = "verify", !.tries = Spent(@)]
         \/ /\ Spoiled(c, v) /\ MainHit(op.block)
            /\ \E place \in {"main", "verify"} :
                 op' = [op EXCEPT !.at = place, !.tries = Spent(@)]
      /\ UNCHANGED <<local, app, history>>

VerifyMainUnread ==   \* mutant: a write that reports success is believed
  /\ op.at = "verify"
  /\ Goto("backup")
  /\ UNCHANGED <<eeprom, local, app, history, hit>>

\* The main copy is read back and compared.
VerifyMain ==
  /\ op.at = "verify"
  /\ \/ ReadFails /\ Goto("main") /\ UNCHANGED hit
     \/ IF eeprom[Main(op.block)] = local[op.block]
        THEN Goto("backup") /\ MainSure(op.block)
        ELSE Goto("main") /\ UNCHANGED hit
  /\ UNCHANGED <<eeprom, local, app, history>>

GiveUpUnnoticed ==   \* mutant: the last failed attempt passes for a success
  /\ op.at = "main"
  /\ op.tries = 0
  /\ Goto("backup")
  /\ UNCHANGED <<eeprom, local, app, history, hit>>

\* No attempt left: FLTMON_EepromWarning; the backup is not touched.
GiveUp ==
  /\ op.at = "main"
  /\ op.tries = 0
  /\ op' = Idle
  /\ UNCHANGED <<eeprom, local, app, history, hit>>

\* The backup is written after the main copy was verified; nobody looks at the
\* status of this write and the save reports success.
WriteBackup ==
  LET b == op.block
      c == WriterBackup(b)
  IN  /\ op.at = "backup"
      /\ \/ Stored(c, local[b]) /\ BackupSure(b)
         \/ Spoiled(c, local[b]) /\ BackupHit(b)
      /\ completed' = [completed EXCEPT ![b] = local[b]]
      /\ op' = Idle
      /\ UNCHANGED <<local, app, saves, attempted>>

-----------------------------------------------------------------------------
(***************************************************************************)
(* NVM_ReadBlockData.                                                      *)
(***************************************************************************)
StartRead(b) ==
  /\ op.at = "idle"
  /\ op' = [at |-> "readMain", block |-> b, tries |-> 0]
  /\ UNCHANGED <<eeprom, local, app, history, hit>>

\* The read returns NVM_SUCCESS and local memory goes to the application.
Deliver ==
  /\ op' = Idle
  /\ app' = [app EXCEPT ![op.block] = local[op.block]]

\* The read returns NVM_FAILURE: the application keeps what it has.
Fail ==
  /\ op' = Idle
  /\ UNCHANGED app

\* An EEPROM read of the reader fails.
FailedRead ==
  /\ op.at \in {"readMain", "readBackup", "checkBackup"}
  /\ ReadFails
  /\ Fail
  /\ UNCHANGED <<eeprom, local, history, hit>>

\* The main copy decides which copy local memory is taken from.
ReadMain ==
  LET v == eeprom[Main(op.block)]
  IN  /\ op.at = "readMain"
      /\ IF v # Bad
         THEN local' = [local EXCEPT ![op.block] = v] /\ Goto("checkBackup")
         ELSE UNCHANGED local /\ Goto("readBackup")
      /\ UNCHANGED <<eeprom, app, history, hit>>

\* With a good main copy the backup is only asked for its CRC.
CheckBackup ==
  /\ op.at = "checkBackup"
  /\ IF eeprom[ReaderBackup(op.block)] # Bad
     THEN Deliver
     ELSE Goto("repairBackup") /\ UNCHANGED app
  /\ UNCHANGED <<eeprom, local, history, hit>>

RepairBackup ==
  LET b == op.block
      c == ReaderBackup(b)
  IN  /\ op.at = "repairBackup"
      /\ \/ Stored(c, local[b]) /\ BackupSure(b)
         \/ Spoiled(c, local[b]) /\ BackupHit(b)
      /\ Deliver
      /\ UNCHANGED <<local, history>>

\* With a bad main copy the backup is taken, unless it is bad as well.
ReadBackup ==
  LET v == eeprom[ReaderBackup(op.block)]
  IN  /\ op.at = "readBackup"
      /\ IF v # Bad
         THEN /\ local' = [local EXCEPT ![op.block] = v]
              /\ Goto("repairMain")
              /\ UNCHANGED app
         ELSE Fail /\ UNCHANGED local
      /\ UNCHANGED <<eeprom, history, hit>>

RepairMain ==
  LET b == op.block
  IN  /\ op.at = "repairMain"
      /\ \/ Stored(Main(b), local[b]) /\ UNCHANGED hit
         \/ Spoiled(Main(b), local[b]) /\ MainHit(b)
      /\ Deliver
      /\ UNCHANGED <<local, history>>

-----------------------------------------------------------------------------
(***************************************************************************)
(* Power.                                                                  *)
(***************************************************************************)
\* The copy the running write goes to.
Target ==
  CASE op.at \in {"main", "repairMain"} -> Main(op.block)
    [] op.at = "backup" -> WriterBackup(op.block)
    [] OTHER -> ReaderBackup(op.block)

\* Power fails between two accesses or inside a write, and the program starts
\* again.  The loop of NVM_Init visits nvm_num = 0 devices: it reads nothing.
PowerFails ==
  /\ \/ UNCHANGED <<eeprom, hit>>
     \/ /\ op.at \in WritePlaces
        /\ op.at = "main" => op.tries > 0
        /\ \E x \in {Bad, local[op.block]} : Stored(Target, x)
        /\ IF op.at \in {"main", "repairMain"}
           THEN MainHit(op.block) ELSE BackupHit(op.block)
  /\ local' = [b \in Blocks |-> Bad]
  /\ app' = [b \in Blocks |-> Bad]
  /\ op' = Idle
  /\ UNCHANGED history

-----------------------------------------------------------------------------
Init ==
  /\ eeprom = [c \in Cells |-> Bad]
  /\ local = [b \in Blocks |-> Bad]
  /\ app = [b \in Blocks |-> Bad]
  /\ op = Idle
  /\ saves = 0
  /\ attempted = [b \in Blocks |-> 0]
  /\ completed = [b \in Blocks |-> 0]
  /\ hit = [b \in Blocks |-> "none"]

Save == WriteMain \/ VerifyMain \/ GiveUp \/ WriteBackup
Read == FailedRead \/ ReadMain \/ CheckBackup \/ RepairBackup \/ ReadBackup \/ RepairMain

Next ==
  \/ \E b \in Blocks : StartSave(b) \/ StartRead(b)
  \/ Save
  \/ Read
  \/ PowerFails

Spec == Init /\ [][Next]_vars

\* The background loop runs on: a started function takes its next step.
FairSpec == Spec /\ WF_vars(Save \/ Read)

-----------------------------------------------------------------------------
(***************************************************************************)
(* Properties.                                                             *)
(***************************************************************************)
\* The variables have their types.
TypeOK ==
  /\ eeprom \in [Cells -> 0..MaxSaves]
  /\ local \in [Blocks -> 0..MaxSaves]
  /\ app \in [Blocks -> 0..MaxSaves]
  /\ op \in [at : Places, block : Blocks, tries : 0..MaxTries]
  /\ saves \in 0..MaxSaves
  /\ attempted \in [Blocks -> 0..MaxSaves]
  /\ completed \in [Blocks -> 0..MaxSaves]
  /\ hit \in [Blocks -> Hits]

\* Once a save of a block has succeeded, one of its copies is good at every
\* moment, through failing writes, retries, repairs, and saves cut off by power
\* that no read follows, until it is hit twice: in a write of the backup, whose
\* status nobody checks, and after that in a write of the main copy before one
\* was verified again.  No single fault loses a block.
CopySurvives ==
  \A b \in Blocks : completed[b] # 0 /\ hit[b] # "both"
                       => eeprom[Main(b)] # Bad \/ eeprom[ReaderBackup(b)] # Bad

\* A good main copy is never older than the last save that succeeded, and a
\* good backup is not unless its last write was hit.
CopiesCurrent ==
  \A b \in Blocks :
    /\ hit[b] # "both" /\ eeprom[Main(b)] # Bad => completed[b] <= eeprom[Main(b)]
    /\ hit[b] = "none" /\ eeprom[ReaderBackup(b)] # Bad
         => completed[b] <= eeprom[ReaderBackup(b)]

\* What a read hands to the application is the last successful save of the
\* block, or a later one that power or the device cut short, also when the
\* write of the backup failed unnoticed, until both copies have been hit.
ReadsCurrent ==
  [][\A b \in Blocks : app'[b] # app[b] /\ app'[b] # Bad /\ hit'[b] # "both"
       => app'[b] \in completed[b]..attempted[b]]_vars

\* Every save and every read ends.
OperationEnds == (op.at # "idle") ~> (op.at = "idle")
=============================================================================
