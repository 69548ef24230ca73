--------------------------- MODULE NVMBlockProofs ---------------------------
(***************************************************************************)
(* The redundancy of NVM.c holds for every number of blocks, attempts and  *)
(* saves: no single fault, of the device or of power, loses a block whose  *)
(* save has succeeded.  One hypothesis, HalvesAgree: the reader and the    *)
(* writer agree on where backups are, as they do for the SSDCB EEPROM.     *)
(***************************************************************************)
EXTENDS NVMBlock, TLAPS

HalvesAgree == ReadHalf = WriteHalf

-----------------------------------------------------------------------------
(***************************************************************************)
(* The types.                                                              *)
(***************************************************************************)
\* The copies of a block lie in the device.
LEMMA CellsLie ==
  ASSUME NEW b \in Blocks
  PROVE  Main(b) \in Cells /\ ReaderBackup(b) \in Cells /\ WriterBackup(b) \in Cells
  BY NVMAssumption DEF Blocks, Cells, Main, ReaderBackup, WriterBackup, Half

\* The value of op between two functions is well typed.
LEMMA IdleType == Idle \in [at : Places, block : Blocks, tries : 0..MaxTries]
  BY NVMAssumption DEF Idle, Places, Blocks

\* The model starts in its types.
LEMMA InitTypes == Init => TypeOK
  BY NVMAssumption, IdleType DEF Init, TypeOK, Bad, Hits

\* Every step keeps the types.
LEMMA StepTypes ==
  ASSUME TypeOK, [Next]_vars
  PROVE  TypeOK'
<1> USE NVMAssumption
<1>1. /\ op.block \in Blocks /\ op.tries \in 0..MaxTries /\ Bad \in 0..MaxSaves
      /\ Main(op.block) \in Cells
      /\ ReaderBackup(op.block) \in Cells /\ WriterBackup(op.block) \in Cells
  BY CellsLie DEF TypeOK, Bad
<1>2. local[op.block] \in 0..MaxSaves
  BY <1>1 DEF TypeOK
<1>3. CASE UNCHANGED vars
  BY <1>3 DEF vars, TypeOK
<1>4. ASSUME NEW b \in Blocks, StartSave(b) PROVE TypeOK'
  BY <1>4 DEF TypeOK, StartSave, Places, WritePlaces
<1>5. ASSUME NEW b \in Blocks, StartRead(b) PROVE TypeOK'
  BY <1>5 DEF TypeOK, StartRead, history, Places, WritePlaces
<1>6. CASE WriteMain
  <2>1. PICK x \in 0..MaxSaves, place \in {"main", "verify"} :
          /\ eeprom' = [eeprom EXCEPT ![Main(op.block)] = x]
          /\ op' = [op EXCEPT !.at = place, !.tries = @ - 1]
    BY <1>1, <1>2, <1>6 DEF TypeOK, WriteMain, Stored, Spoiled, Spent
  <2>2. op' \in [at : Places, block : Blocks, tries : 0..MaxTries]
    <3>1. op' = [at |-> place, block |-> op.block, tries |-> op.tries - 1]
      BY <2>1 DEF TypeOK
    <3>2. op.tries - 1 \in 0..MaxTries /\ place \in Places
      BY <1>1, <1>6 DEF WriteMain, Places, WritePlaces
    <3>3. QED
      BY <1>1, <3>1, <3>2
  <2>3. hit' \in [Blocks -> Hits]
    BY <1>1, <1>6 DEF TypeOK, WriteMain, MainHit, Hits
  <2>4. QED
    BY <1>1, <1>6, <2>1, <2>2, <2>3 DEF TypeOK, WriteMain, history
<1>7. CASE VerifyMain
  BY <1>1, <1>7 DEF TypeOK, VerifyMain, MainSure, Hits, Goto, history, Places, WritePlaces
<1>8. CASE GiveUp
  BY <1>8, IdleType DEF TypeOK, GiveUp, history
<1>9. CASE WriteBackup
  <2>1. hit' \in [Blocks -> Hits]
    BY <1>1, <1>9 DEF TypeOK, WriteBackup, BackupHit, BackupSure, Hits
  <2>2. eeprom' \in [Cells -> 0..MaxSaves]
    BY <1>1, <1>2, <1>9 DEF TypeOK, WriteBackup, Stored, Spoiled
  <2>3. QED
    BY <1>1, <1>2, <1>9, <2>1, <2>2, IdleType DEF TypeOK, WriteBackup
<1>10. CASE FailedRead
  BY <1>10, IdleType DEF TypeOK, FailedRead, Fail, history
<1>11. CASE ReadMain
  BY <1>1, <1>11 DEF TypeOK, ReadMain, Goto, history, Places, WritePlaces
<1>12. CASE CheckBackup
  BY <1>1, <1>2, <1>12, IdleType
  DEF TypeOK, CheckBackup, Deliver, Goto, history, Places, WritePlaces
<1>13. CASE RepairBackup
  <2>1. hit' \in [Blocks -> Hits]
    BY <1>1, <1>13 DEF TypeOK, RepairBackup, BackupHit, BackupSure, Hits
  <2>2. eeprom' \in [Cells -> 0..MaxSaves]
    BY <1>1, <1>2, <1>13 DEF TypeOK, RepairBackup, Stored, Spoiled
  <2>3. QED
    BY <1>1, <1>2, <1>13, <2>1, <2>2, IdleType DEF TypeOK, RepairBackup, Deliver, history
<1>14. CASE ReadBackup
  BY <1>1, <1>14, IdleType
  DEF TypeOK, ReadBackup, Fail, Goto, history, Places, WritePlaces
<1>15. CASE RepairMain
  <2>1. hit' \in [Blocks -> Hits]
    BY <1>1, <1>15 DEF TypeOK, RepairMain, MainHit, Hits
  <2>2. eeprom' \in [Cells -> 0..MaxSaves]
    BY <1>1, <1>2, <1>15 DEF TypeOK, RepairMain, Stored, Spoiled
  <2>3. QED
    BY <1>1, <1>2, <1>15, <2>1, <2>2, IdleType DEF TypeOK, RepairMain, Deliver, history
<1>16. CASE PowerFails
  <2>1. Target \in Cells
    BY <1>1 DEF Target
  <2>2. hit' \in [Blocks -> Hits]
    BY <1>1, <1>16 DEF TypeOK, PowerFails, MainHit, BackupHit, Hits
  <2>3. eeprom' \in [Cells -> 0..MaxSaves]
    BY <1>1, <1>2, <1>16, <2>1 DEF TypeOK, PowerFails, Stored
  <2>4. QED
    BY <1>1, <1>16, <2>2, <2>3, IdleType DEF TypeOK, PowerFails, history
<1>17. QED
  BY <1>3, <1>4, <1>5, <1>6, <1>7, <1>8, <1>9, <1>10, <1>11, <1>12, <1>13, <1>14,
     <1>15, <1>16 DEF Next, Save, Read

\* The model never leaves its types, for any number of blocks, attempts and
\* saves, and wherever the two halves of the device lie.
THEOREM NVMTypeCorrect == Spec => []TypeOK
<1>1. Init => TypeOK
  BY InitTypes
<1>2. TypeOK /\ [Next]_vars => TypeOK'
  BY StepTypes
<1>3. QED
  BY <1>1, <1>2, PTL DEF Spec

-----------------------------------------------------------------------------
(***************************************************************************)
(* The inductive invariant.                                                *)
(***************************************************************************)
\* No copy is newer than the latest save, and a save counts as successful
\* only after it was asked for.
Ordered(b) ==
  /\ completed[b] <= attempted[b]
  /\ attempted[b] <= saves
  /\ eeprom[Main(b)] <= attempted[b]
  /\ eeprom[ReaderBackup(b)] <= attempted[b]

\* While the backup is sure it carries the block; once a write of it was hit
\* the main copy does.
Redundant(b) ==
  /\ hit[b] = "none" =>
       /\ completed[b] # 0 => eeprom[ReaderBackup(b)] # Bad
       /\ eeprom[Main(b)] # Bad => completed[b] <= eeprom[Main(b)]
       /\ eeprom[ReaderBackup(b)] # Bad => completed[b] <= eeprom[ReaderBackup(b)]
  /\ hit[b] = "backup" =>
       eeprom[Main(b)] # Bad /\ completed[b] <= eeprom[Main(b)]

\* What the running function knows about its block.
InFlight(b) ==
  op.block = b =>
    /\ op.at \in {"main", "verify", "backup"} =>
         local[b] = attempted[b] /\ attempted[b] # 0
    /\ op.at \in {"backup", "checkBackup", "repairBackup"} =>
         local[b] # Bad /\ eeprom[Main(b)] = local[b]
    /\ op.at = "backup" => hit[b] # "both"
    /\ op.at \in {"readBackup", "repairMain"} => eeprom[Main(b)] = Bad
    /\ op.at = "repairBackup" => eeprom[ReaderBackup(b)] = Bad
    /\ op.at = "repairMain" =>
         local[b] # Bad /\ eeprom[ReaderBackup(b)] = local[b]

BlockInv(b) == Ordered(b) /\ Redundant(b) /\ InFlight(b)

IInv == TypeOK /\ \A b \in Blocks : BlockInv(b)

-----------------------------------------------------------------------------
\* Copies of different blocks, and the two of one block, are different cells.
LEMMA CellsDistinct ==
  ASSUME HalvesAgree, NEW b \in Blocks
  PROVE  /\ Main(b) \in Cells /\ ReaderBackup(b) \in Cells
         /\ WriterBackup(b) = ReaderBackup(b)
         /\ \A d \in Blocks : /\ Main(b) # ReaderBackup(d)
                              /\ ReaderBackup(b) # Main(d)
                              /\ d # b => Main(b) # Main(d)
                              /\ d # b => ReaderBackup(b) # ReaderBackup(d)
  BY NVMAssumption
  DEF HalvesAgree, Blocks, Cells, Main, ReaderBackup, WriterBackup, Half

\* The invariant holds when the device is new.
LEMMA InitInv ==
  ASSUME HalvesAgree, Init
  PROVE  IInv
<1>1. TypeOK
  BY InitTypes
<1>2. ASSUME NEW b \in Blocks PROVE BlockInv(b)
  BY <1>2, CellsDistinct DEF Init, BlockInv, Ordered, Redundant, InFlight, Idle, Bad
<1>3. QED
  BY <1>1, <1>2 DEF IInv

\* A step of the function running on one block leaves the others alone.
LEMMA OtherBlocks ==
  ASSUME HalvesAgree, IInv, NEW d \in Blocks, NEW b \in Blocks, d # b,
         NEW c \in {Main(b), ReaderBackup(b)}, NEW x \in 0..MaxSaves,
         eeprom' = [eeprom EXCEPT ![c] = x] \/ eeprom' = eeprom,
         hit'[d] = hit[d], attempted'[d] = attempted[d], completed'[d] = completed[d],
         saves' >= saves, saves' \in Nat,
         op'.block # d \/ op'.at = "idle"
  PROVE  BlockInv(d)'
<1>1. BlockInv(d) /\ TypeOK
  BY DEF IInv
<1>2. /\ eeprom'[Main(d)] = eeprom[Main(d)]
      /\ eeprom'[ReaderBackup(d)] = eeprom[ReaderBackup(d)]
  BY <1>1, CellsDistinct DEF TypeOK
<1>3. attempted[d] \in Nat /\ saves \in Nat
  BY <1>1, NVMAssumption DEF TypeOK
<1>4. QED
  BY <1>1, <1>2, <1>3 DEF BlockInv, Ordered, Redundant, InFlight

\* The same, said of the function that is running.
LEMMA OthersKept ==
  ASSUME HalvesAgree, IInv, NEW d \in Blocks, d # op.block,
         UNCHANGED <<saves, attempted>>,
         \/ UNCHANGED eeprom
         \/ \E c \in {Main(op.block), ReaderBackup(op.block)}, x \in 0..MaxSaves :
              eeprom' = [eeprom EXCEPT ![c] = x],
         hit'[d] = hit[d], completed'[d] = completed[d],
         op'.block = op.block \/ op'.at = "idle"
  PROVE  BlockInv(d)'
<1>1. op.block \in Blocks /\ saves \in Nat /\ 0 \in 0..MaxSaves
  BY NVMAssumption DEF IInv, TypeOK
<1>2. PICK c \in {Main(op.block), ReaderBackup(op.block)}, x \in 0..MaxSaves :
        eeprom' = [eeprom EXCEPT ![c] = x] \/ eeprom' = eeprom
  BY <1>1
<1>3. QED
  BY <1>1, <1>2, OtherBlocks

\* A save starts: nothing is written yet.
LEMMA StartSaveInv ==
  ASSUME HalvesAgree, IInv, NEW b \in Blocks, StartSave(b)
  PROVE  IInv'
<1>1. TypeOK /\ TypeOK' /\ BlockInv(b)
  BY StepTypes DEF IInv, Next
<1>2. ASSUME NEW d \in Blocks PROVE BlockInv(d)'
  <2>1. CASE d = b
    BY <1>1, <2>1, CellsDistinct, NVMAssumption
    DEF TypeOK, BlockInv, Ordered, Redundant, InFlight, StartSave, Bad
  <2>2. CASE d # b
    <3>1. /\ eeprom' = eeprom /\ hit' = hit /\ completed' = completed
          /\ saves' = saves + 1 /\ op'.block = b /\ attempted'[d] = attempted[d]
      BY <1>1, <2>2 DEF StartSave, TypeOK
    <3>2. saves \in Nat /\ 0 \in 0..MaxSaves
      BY <1>1, NVMAssumption DEF TypeOK
    <3>3. BlockInv(d)
      BY DEF IInv
    <3>4. attempted[d] \in Nat
      BY <1>1, NVMAssumption DEF TypeOK
    <3>5. QED
      BY <2>2, <3>1, <3>2, <3>3, <3>4 DEF BlockInv, Ordered, Redundant, InFlight
  <2>3. QED
    BY <2>1, <2>2
<1>3. QED
  BY <1>1, <1>2 DEF IInv

\* A read starts and touches no copy.
LEMMA StartReadInv ==
  ASSUME HalvesAgree, IInv, NEW b \in Blocks, StartRead(b)
  PROVE  IInv'
<1>1. TypeOK /\ TypeOK'
  BY StepTypes DEF IInv, Next
<1>2. ASSUME NEW d \in Blocks PROVE BlockInv(d)'
  BY <1>1 DEF IInv, BlockInv, Ordered, Redundant, InFlight, StartRead, history
<1>3. QED
  BY <1>1, <1>2 DEF IInv

\* Whatever becomes of the main copy, the backup stands.
LEMMA WriteMainInv ==
  ASSUME HalvesAgree, IInv, WriteMain
  PROVE  IInv'
<1>1. TypeOK /\ TypeOK' /\ op.block \in Blocks
  BY StepTypes DEF IInv, TypeOK, Next, Save
<1>2. /\ BlockInv(op.block) /\ Bad \in 0..MaxSaves /\ local[op.block] \in 0..MaxSaves
      /\ eeprom[Main(op.block)] \in 0..MaxSaves
      /\ eeprom[ReaderBackup(op.block)] \in 0..MaxSaves
  BY <1>1, CellsDistinct, NVMAssumption DEF IInv, TypeOK, Bad
<1>3. ASSUME NEW d \in Blocks PROVE BlockInv(d)'
  <2>1. CASE d = op.block
    <3>1. eeprom'[ReaderBackup(d)] = eeprom[ReaderBackup(d)]
      BY <1>1, <2>1, CellsDistinct DEF TypeOK, WriteMain, Stored, Spoiled
    <3>2. \/ eeprom'[Main(d)] = local[d] /\ hit' = hit
          \/ /\ eeprom'[Main(d)] \in {eeprom[Main(d)], Bad, local[d]}
             /\ hit'[d] = IF hit[d] = "none" THEN "none" ELSE "both"
      BY <1>1, <2>1, CellsDistinct DEF TypeOK, WriteMain, Stored, Spoiled, MainHit
    <3>3. op'.at \in {"main", "verify"}
      BY DEF WriteMain, IInv, TypeOK
    <3>4. UNCHANGED <<local, saves, attempted, completed>> /\ op.at = "main"
      BY DEF WriteMain, history
    <3>5. QED
      BY <1>1, <1>2, <2>1, <3>1, <3>2, <3>3, <3>4, NVMAssumption
      DEF TypeOK, Hits, BlockInv, Ordered, Redundant, InFlight, Bad
  <2>2. CASE d # op.block
    <3>1. /\ UNCHANGED <<saves, attempted>>
          /\ hit'[d] = hit[d] /\ completed'[d] = completed[d]
          /\ op'.block = op.block \/ op'.at = "idle"
      BY <1>1, <2>2
      DEF TypeOK, WriteMain, Stored, Spoiled, MainHit, Spent, history
    <3>2. \/ UNCHANGED eeprom
          \/ \E c \in {Main(op.block), ReaderBackup(op.block)}, x \in 0..MaxSaves :
               eeprom' = [eeprom EXCEPT ![c] = x]
      BY <1>1, <1>2, CellsDistinct
      DEF TypeOK, WriteMain, Stored, Spoiled, MainHit, Spent, history
    <3>3. QED
      BY <2>2, <3>1, <3>2, OthersKept
  <2>3. QED
    BY <2>1, <2>2
<1>4. QED
  BY <1>1, <1>3 DEF IInv

\* Only a main copy read back equal leads to the backup.
LEMMA VerifyMainInv ==
  ASSUME HalvesAgree, IInv, VerifyMain
  PROVE  IInv'
<1>1. TypeOK /\ TypeOK' /\ op.block \in Blocks
  BY StepTypes DEF IInv, TypeOK, Next, Save
<1>2. /\ BlockInv(op.block) /\ Bad \in 0..MaxSaves /\ local[op.block] \in 0..MaxSaves
      /\ eeprom[Main(op.block)] \in 0..MaxSaves
      /\ eeprom[ReaderBackup(op.block)] \in 0..MaxSaves
  BY <1>1, CellsDistinct, NVMAssumption DEF IInv, TypeOK, Bad
<1>3. ASSUME NEW d \in Blocks PROVE BlockInv(d)'
  <2>1. CASE d = op.block
    BY <1>1, <1>2, <2>1, CellsDistinct, NVMAssumption
    DEF TypeOK, BlockInv, Ordered, Redundant, InFlight, Bad,
        VerifyMain, MainSure, Goto, history
  <2>2. CASE d # op.block
    <3>1. /\ UNCHANGED <<saves, attempted, eeprom>>
          /\ hit'[d] = hit[d] /\ completed'[d] = completed[d]
          /\ op'.block = op.block \/ op'.at = "idle"
      BY <1>1, <2>2
      DEF TypeOK, VerifyMain, MainSure, Goto, history
    <3>2. QED
      BY <2>2, <3>1, OthersKept
  <2>3. QED
    BY <2>1, <2>2
<1>4. QED
  BY <1>1, <1>3 DEF IInv

\* Giving up touches no copy.
LEMMA GiveUpInv ==
  ASSUME HalvesAgree, IInv, GiveUp
  PROVE  IInv'
<1>1. TypeOK /\ TypeOK' /\ op.block \in Blocks
  BY StepTypes DEF IInv, TypeOK, Next, Save
<1>2. /\ BlockInv(op.block) /\ Bad \in 0..MaxSaves /\ local[op.block] \in 0..MaxSaves
      /\ eeprom[Main(op.block)] \in 0..MaxSaves
      /\ eeprom[ReaderBackup(op.block)] \in 0..MaxSaves
  BY <1>1, CellsDistinct, NVMAssumption DEF IInv, TypeOK, Bad
<1>3. ASSUME NEW d \in Blocks PROVE BlockInv(d)'
  <2>1. CASE d = op.block
    BY <1>1, <1>2, <2>1, CellsDistinct, NVMAssumption
    DEF TypeOK, BlockInv, Ordered, Redundant, InFlight, Bad,
        GiveUp, Idle, history
  <2>2. CASE d # op.block
    <3>1. /\ UNCHANGED <<saves, attempted, eeprom>>
          /\ hit'[d] = hit[d] /\ completed'[d] = completed[d]
          /\ op'.block = op.block \/ op'.at = "idle"
      BY <1>1, <2>2
      DEF TypeOK, GiveUp, Idle, history
    <3>2. QED
      BY <2>2, <3>1, OthersKept
  <2>3. QED
    BY <2>1, <2>2
<1>4. QED
  BY <1>1, <1>3 DEF IInv

\* The backup is written under a main copy that holds the same save.
LEMMA WriteBackupInv ==
  ASSUME HalvesAgree, IInv, WriteBackup
  PROVE  IInv'
<1>1. TypeOK /\ TypeOK' /\ op.block \in Blocks
  BY StepTypes DEF IInv, TypeOK, Next, Save
<1>2. /\ BlockInv(op.block) /\ Bad \in 0..MaxSaves /\ local[op.block] \in 0..MaxSaves
      /\ eeprom[Main(op.block)] \in 0..MaxSaves
      /\ eeprom[ReaderBackup(op.block)] \in 0..MaxSaves
  BY <1>1, CellsDistinct, NVMAssumption DEF IInv, TypeOK, Bad
<1>3. ASSUME NEW d \in Blocks PROVE BlockInv(d)'
  <2>1. CASE d = op.block
    BY <1>1, <1>2, <2>1, CellsDistinct, NVMAssumption
    DEF TypeOK, BlockInv, Ordered, Redundant, InFlight, Bad,
        WriteBackup, Stored, Spoiled, BackupHit, BackupSure, Idle
  <2>2. CASE d # op.block
    <3>1. /\ UNCHANGED <<saves, attempted>>
          /\ hit'[d] = hit[d] /\ completed'[d] = completed[d]
          /\ op'.block = op.block \/ op'.at = "idle"
      BY <1>1, <2>2
      DEF TypeOK, WriteBackup, Stored, Spoiled, BackupHit, BackupSure, Idle
    <3>2. \/ UNCHANGED eeprom
          \/ \E c \in {Main(op.block), ReaderBackup(op.block)}, x \in 0..MaxSaves :
               eeprom' = [eeprom EXCEPT ![c] = x]
      BY <1>1, <1>2, CellsDistinct
      DEF TypeOK, WriteBackup, Stored, Spoiled, BackupHit, BackupSure, Idle
    <3>3. QED
      BY <2>2, <3>1, <3>2, OthersKept
  <2>3. QED
    BY <2>1, <2>2
<1>4. QED
  BY <1>1, <1>3 DEF IInv

\* A read of the device that fails changes no copy.
LEMMA FailedReadInv ==
  ASSUME HalvesAgree, IInv, FailedRead
  PROVE  IInv'
<1>1. TypeOK /\ TypeOK' /\ op.block \in Blocks
  BY StepTypes DEF IInv, TypeOK, Next, Read
<1>2. /\ BlockInv(op.block) /\ Bad \in 0..MaxSaves /\ local[op.block] \in 0..MaxSaves
      /\ eeprom[Main(op.block)] \in 0..MaxSaves
      /\ eeprom[ReaderBackup(op.block)] \in 0..MaxSaves
  BY <1>1, CellsDistinct, NVMAssumption DEF IInv, TypeOK, Bad
<1>3. ASSUME NEW d \in Blocks PROVE BlockInv(d)'
  <2>1. CASE d = op.block
    BY <1>1, <1>2, <2>1, CellsDistinct, NVMAssumption
    DEF TypeOK, BlockInv, Ordered, Redundant, InFlight, Bad,
        FailedRead, Fail, Idle, history
  <2>2. CASE d # op.block
    <3>1. /\ UNCHANGED <<saves, attempted, eeprom>>
          /\ hit'[d] = hit[d] /\ completed'[d] = completed[d]
          /\ op'.block = op.block \/ op'.at = "idle"
      BY <1>1, <2>2
      DEF TypeOK, FailedRead, Fail, Idle, history
    <3>2. QED
      BY <2>2, <3>1, OthersKept
  <2>3. QED
    BY <2>1, <2>2
<1>4. QED
  BY <1>1, <1>3 DEF IInv

\* Local memory is taken from a good main copy.
LEMMA ReadMainInv ==
  ASSUME HalvesAgree, IInv, ReadMain
  PROVE  IInv'
<1>1. TypeOK /\ TypeOK' /\ op.block \in Blocks
  BY StepTypes DEF IInv, TypeOK, Next, Read
<1>2. /\ BlockInv(op.block) /\ Bad \in 0..MaxSaves /\ local[op.block] \in 0..MaxSaves
      /\ eeprom[Main(op.block)] \in 0..MaxSaves
      /\ eeprom[ReaderBackup(op.block)] \in 0..MaxSaves
  BY <1>1, CellsDistinct, NVMAssumption DEF IInv, TypeOK, Bad
<1>3. ASSUME NEW d \in Blocks PROVE BlockInv(d)'
  <2>1. CASE d = op.block
    BY <1>1, <1>2, <2>1, CellsDistinct, NVMAssumption
    DEF TypeOK, BlockInv, Ordered, Redundant, InFlight, Bad,
        ReadMain, Goto, history
  <2>2. CASE d # op.block
    <3>1. /\ UNCHANGED <<saves, attempted, eeprom>>
          /\ hit'[d] = hit[d] /\ completed'[d] = completed[d]
          /\ op'.block = op.block \/ op'.at = "idle"
      BY <1>1, <2>2
      DEF TypeOK, ReadMain, Goto, history
    <3>2. QED
      BY <2>2, <3>1, OthersKept
  <2>3. QED
    BY <2>1, <2>2
<1>4. QED
  BY <1>1, <1>3 DEF IInv

\* A read that finds two good copies leaves them.
LEMMA CheckBackupInv ==
  ASSUME HalvesAgree, IInv, CheckBackup
  PROVE  IInv'
<1>1. TypeOK /\ TypeOK' /\ op.block \in Blocks
  BY StepTypes DEF IInv, TypeOK, Next, Read
<1>2. /\ BlockInv(op.block) /\ Bad \in 0..MaxSaves /\ local[op.block] \in 0..MaxSaves
      /\ eeprom[Main(op.block)] \in 0..MaxSaves
      /\ eeprom[ReaderBackup(op.block)] \in 0..MaxSaves
  BY <1>1, CellsDistinct, NVMAssumption DEF IInv, TypeOK, Bad
<1>3. ASSUME NEW d \in Blocks PROVE BlockInv(d)'
  <2>1. CASE d = op.block
    BY <1>1, <1>2, <2>1, CellsDistinct, NVMAssumption
    DEF TypeOK, BlockInv, Ordered, Redundant, InFlight, Bad,
        CheckBackup, Deliver, Goto, Idle, history
  <2>2. CASE d # op.block
    <3>1. /\ UNCHANGED <<saves, attempted, eeprom>>
          /\ hit'[d] = hit[d] /\ completed'[d] = completed[d]
          /\ op'.block = op.block \/ op'.at = "idle"
      BY <1>1, <2>2
      DEF TypeOK, CheckBackup, Deliver, Goto, Idle, history
    <3>2. QED
      BY <2>2, <3>1, OthersKept
  <2>3. QED
    BY <2>1, <2>2
<1>4. QED
  BY <1>1, <1>3 DEF IInv

\* A bad backup is rewritten from the only good copy.
LEMMA RepairBackupInv ==
  ASSUME HalvesAgree, IInv, RepairBackup
  PROVE  IInv'
<1>1. TypeOK /\ TypeOK' /\ op.block \in Blocks
  BY StepTypes DEF IInv, TypeOK, Next, Read
<1>2. /\ BlockInv(op.block) /\ Bad \in 0..MaxSaves /\ local[op.block] \in 0..MaxSaves
      /\ eeprom[Main(op.block)] \in 0..MaxSaves
      /\ eeprom[ReaderBackup(op.block)] \in 0..MaxSaves
  BY <1>1, CellsDistinct, NVMAssumption DEF IInv, TypeOK, Bad
<1>3. ASSUME NEW d \in Blocks PROVE BlockInv(d)'
  <2>1. CASE d = op.block
    <3>1. eeprom'[Main(d)] = eeprom[Main(d)]
      BY <1>1, <2>1, CellsDistinct DEF TypeOK, RepairBackup, Stored, Spoiled
    <3>2. \/ /\ eeprom'[ReaderBackup(d)] = local[d]
             /\ hit'[d] = IF hit[d] = "both" THEN "both" ELSE "none"
          \/ /\ eeprom'[ReaderBackup(d)] \in {eeprom[ReaderBackup(d)], Bad, local[d]}
             /\ hit'[d] = IF hit[d] = "both" THEN "both" ELSE "backup"
      BY <1>1, <2>1, CellsDistinct
      DEF TypeOK, RepairBackup, Stored, Spoiled, BackupHit, BackupSure
    <3>3. UNCHANGED <<saves, attempted, completed>> /\ op.at = "repairBackup" /\ op' = Idle
      BY DEF RepairBackup, history, Deliver
    <3>4. QED
      BY <1>1, <1>2, <2>1, <3>1, <3>2, <3>3, NVMAssumption
      DEF TypeOK, Hits, BlockInv, Ordered, Redundant, InFlight, Bad, Idle
  <2>2. CASE d # op.block
    <3>1. /\ UNCHANGED <<saves, attempted>>
          /\ hit'[d] = hit[d] /\ completed'[d] = completed[d]
          /\ op'.block = op.block \/ op'.at = "idle"
      BY <1>1, <2>2
      DEF TypeOK, RepairBackup, Stored, Spoiled, BackupHit, BackupSure, Deliver, Idle, history
    <3>2. \/ UNCHANGED eeprom
          \/ \E c \in {Main(op.block), ReaderBackup(op.block)}, x \in 0..MaxSaves :
               eeprom' = [eeprom EXCEPT ![c] = x]
      BY <1>1, <1>2, CellsDistinct
      DEF TypeOK, RepairBackup, Stored, Spoiled, BackupHit, BackupSure, Deliver, Idle, history
    <3>3. QED
      BY <2>2, <3>1, <3>2, OthersKept
  <2>3. QED
    BY <2>1, <2>2
<1>4. QED
  BY <1>1, <1>3 DEF IInv

\* Local memory is taken from the backup when the main copy is bad.
LEMMA ReadBackupInv ==
  ASSUME HalvesAgree, IInv, ReadBackup
  PROVE  IInv'
<1>1. TypeOK /\ TypeOK' /\ op.block \in Blocks
  BY StepTypes DEF IInv, TypeOK, Next, Read
<1>2. /\ BlockInv(op.block) /\ Bad \in 0..MaxSaves /\ local[op.block] \in 0..MaxSaves
      /\ eeprom[Main(op.block)] \in 0..MaxSaves
      /\ eeprom[ReaderBackup(op.block)] \in 0..MaxSaves
  BY <1>1, CellsDistinct, NVMAssumption DEF IInv, TypeOK, Bad
<1>3. ASSUME NEW d \in Blocks PROVE BlockInv(d)'
  <2>1. CASE d = op.block
    BY <1>1, <1>2, <2>1, CellsDistinct, NVMAssumption
    DEF TypeOK, BlockInv, Ordered, Redundant, InFlight, Bad,
        ReadBackup, Fail, Goto, Idle, history
  <2>2. CASE d # op.block
    <3>1. /\ UNCHANGED <<saves, attempted, eeprom>>
          /\ hit'[d] = hit[d] /\ completed'[d] = completed[d]
          /\ op'.block = op.block \/ op'.at = "idle"
      BY <1>1, <2>2
      DEF TypeOK, ReadBackup, Fail, Goto, Idle, history
    <3>2. QED
      BY <2>2, <3>1, OthersKept
  <2>3. QED
    BY <2>1, <2>2
<1>4. QED
  BY <1>1, <1>3 DEF IInv

\* The main copy is rewritten from the only good copy.
LEMMA RepairMainInv ==
  ASSUME HalvesAgree, IInv, RepairMain
  PROVE  IInv'
<1>1. TypeOK /\ TypeOK' /\ op.block \in Blocks
  BY StepTypes DEF IInv, TypeOK, Next, Read
<1>2. /\ BlockInv(op.block) /\ Bad \in 0..MaxSaves /\ local[op.block] \in 0..MaxSaves
      /\ eeprom[Main(op.block)] \in 0..MaxSaves
      /\ eeprom[ReaderBackup(op.block)] \in 0..MaxSaves
  BY <1>1, CellsDistinct, NVMAssumption DEF IInv, TypeOK, Bad
<1>3. ASSUME NEW d \in Blocks PROVE BlockInv(d)'
  <2>1. CASE d = op.block
    BY <1>1, <1>2, <2>1, CellsDistinct, NVMAssumption
    DEF TypeOK, BlockInv, Ordered, Redundant, InFlight, Bad,
        RepairMain, Stored, Spoiled, MainHit, Deliver, Idle, history
  <2>2. CASE d # op.block
    <3>1. /\ UNCHANGED <<saves, attempted>>
          /\ hit'[d] = hit[d] /\ completed'[d] = completed[d]
          /\ op'.block = op.block \/ op'.at = "idle"
      BY <1>1, <2>2
      DEF TypeOK, RepairMain, Stored, Spoiled, MainHit, Deliver, Idle, history
    <3>2. \/ UNCHANGED eeprom
          \/ \E c \in {Main(op.block), ReaderBackup(op.block)}, x \in 0..MaxSaves :
               eeprom' = [eeprom EXCEPT ![c] = x]
      BY <1>1, <1>2, CellsDistinct
      DEF TypeOK, RepairMain, Stored, Spoiled, MainHit, Deliver, Idle, history
    <3>3. QED
      BY <2>2, <3>1, <3>2, OthersKept
  <2>3. QED
    BY <2>1, <2>2
<1>4. QED
  BY <1>1, <1>3 DEF IInv

\* A power failure spoils at most the copy being written.
LEMMA PowerFailsInv ==
  ASSUME HalvesAgree, IInv, PowerFails
  PROVE  IInv'
<1>1. TypeOK /\ TypeOK' /\ op.block \in Blocks
  BY StepTypes DEF IInv, TypeOK, Next
<1>2. /\ BlockInv(op.block) /\ Bad \in 0..MaxSaves /\ local[op.block] \in 0..MaxSaves
      /\ eeprom[Main(op.block)] \in 0..MaxSaves
      /\ eeprom[ReaderBackup(op.block)] \in 0..MaxSaves
  BY <1>1, CellsDistinct, NVMAssumption DEF IInv, TypeOK, Bad
<1>3. ASSUME NEW d \in Blocks PROVE BlockInv(d)'
  <2>1. CASE d = op.block
    <3>1. UNCHANGED <<saves, attempted, completed>> /\ op' = Idle
      BY DEF PowerFails, history
    <3>2. CASE UNCHANGED <<eeprom, hit>>
      BY <1>2, <2>1, <3>1, <3>2 DEF BlockInv, Ordered, Redundant, InFlight, Idle
    <3>3. CASE op.at \in {"main", "repairMain"} /\ ~UNCHANGED <<eeprom, hit>>
      <4>1. /\ eeprom'[Main(d)] \in {Bad, local[d]}
            /\ eeprom'[ReaderBackup(d)] = eeprom[ReaderBackup(d)]
            /\ hit'[d] = IF hit[d] = "none" THEN "none" ELSE "both"
        BY <1>1, <2>1, <3>3, CellsDistinct
        DEF TypeOK, PowerFails, Target, Stored, MainHit, WritePlaces
      <4>2. QED
        BY <1>1, <1>2, <2>1, <3>1, <3>3, <4>1, NVMAssumption
        DEF TypeOK, Hits, BlockInv, Ordered, Redundant, InFlight, Bad, Idle
    <3>4. CASE op.at \notin {"main", "repairMain"} /\ ~UNCHANGED <<eeprom, hit>>
      <4>1. /\ eeprom'[ReaderBackup(d)] \in {Bad, local[d]}
            /\ eeprom'[Main(d)] = eeprom[Main(d)]
            /\ hit'[d] = IF hit[d] = "both" THEN "both" ELSE "backup"
            /\ op.at \in {"backup", "repairBackup"}
        BY <1>1, <2>1, <3>4, CellsDistinct
        DEF TypeOK, PowerFails, Target, Stored, BackupHit, WritePlaces
      <4>2. QED
        BY <1>1, <1>2, <2>1, <3>1, <3>4, <4>1, NVMAssumption
        DEF TypeOK, Hits, BlockInv, Ordered, Redundant, InFlight, Bad, Idle
    <3>5. QED
      BY <3>2, <3>3, <3>4
  <2>2. CASE d # op.block
    <3>1. /\ UNCHANGED <<saves, attempted>>
          /\ hit'[d] = hit[d] /\ completed'[d] = completed[d]
          /\ op'.block = op.block \/ op'.at = "idle"
      BY <1>1, <2>2
      DEF TypeOK, PowerFails, Target, Stored, MainHit, BackupHit, Idle, history, WritePlaces
    <3>2. \/ UNCHANGED eeprom
          \/ \E c \in {Main(op.block), ReaderBackup(op.block)}, x \in 0..MaxSaves :
               eeprom' = [eeprom EXCEPT ![c] = x]
      BY <1>1, <1>2, CellsDistinct
      DEF TypeOK, PowerFails, Target, Stored, MainHit, BackupHit, Idle, history, WritePlaces
    <3>3. QED
      BY <2>2, <3>1, <3>2, OthersKept
  <2>3. QED
    BY <2>1, <2>2
<1>4. QED
  BY <1>1, <1>3 DEF IInv

-----------------------------------------------------------------------------
\* Every step of the specification preserves the invariant.
LEMMA StepInv ==
  ASSUME HalvesAgree, IInv, [Next]_vars
  PROVE  IInv'
<1>1. CASE UNCHANGED vars
  BY <1>1 DEF vars, IInv, TypeOK, BlockInv, Ordered, Redundant, InFlight
<1>2. ASSUME NEW b \in Blocks, StartSave(b) \/ StartRead(b) PROVE IInv'
  BY <1>2, StartSaveInv, StartReadInv
<1>3. CASE Save
  BY <1>3, WriteMainInv, VerifyMainInv, GiveUpInv, WriteBackupInv DEF Save
<1>4. CASE Read
  BY <1>4, FailedReadInv, ReadMainInv, CheckBackupInv, RepairBackupInv,
     ReadBackupInv, RepairMainInv DEF Read
<1>5. CASE PowerFails
  BY <1>5, PowerFailsInv
<1>6. QED
  BY <1>1, <1>2, <1>3, <1>4, <1>5 DEF Next

\* The invariant implies what the runs check of the copies.
LEMMA InvImplies == IInv => CopySurvives /\ CopiesCurrent
  BY DEF IInv, TypeOK, Hits, BlockInv, Redundant, CopySurvives, CopiesCurrent

\* The invariant holds in every state of every behaviour.
LEMMA InvAlways ==
  ASSUME HalvesAgree
  PROVE  Spec => []IInv
<1>1. Init => IInv
  BY InitInv
<1>2. IInv /\ [Next]_vars => IInv'
  BY StepInv
<1>3. QED
  BY <1>1, <1>2, PTL DEF Spec

\* Where the reader looks where the writer writes, a block that was saved has
\* a good copy until it is hit twice.
THEOREM SavedBlocksSurvive ==
  ASSUME HalvesAgree
  PROVE  Spec => []CopySurvives
  BY InvAlways, InvImplies, PTL

\* Where the halves agree, the good copies of a block are never older than its
\* last save that succeeded, but for a backup whose last write was hit.
THEOREM CopiesStayCurrent ==
  ASSUME HalvesAgree
  PROVE  Spec => []CopiesCurrent
  BY InvAlways, InvImplies, PTL

\* A step that hands a block to the application hands over a current copy.
LEMMA DeliversCurrent ==
  ASSUME HalvesAgree, IInv, [Next]_vars, NEW b \in Blocks,
         app'[b] # app[b], app'[b] # Bad, hit'[b] # "both"
  PROVE  app'[b] \in completed[b]..attempted[b]
<1>1. /\ TypeOK /\ op.block \in Blocks /\ BlockInv(b)
      /\ b \in DOMAIN app /\ hit[b] \in Hits
  BY DEF IInv, TypeOK
<1>2. CASE CheckBackup \/ RepairBackup \/ RepairMain
  <2>1. app' = [app EXCEPT ![op.block] = local[op.block]]
    BY <1>2 DEF CheckBackup, RepairBackup, RepairMain, Deliver
  <2>2. b = op.block /\ app'[b] = local[b]
    BY <1>1, <2>1 DEF TypeOK
  <2>3. local[b] \in Nat /\ completed[b] \in Nat /\ attempted[b] \in Nat
    BY <1>1, NVMAssumption DEF TypeOK
  <2>4. hit[b] # "both"
    BY <1>1, <1>2, <2>2
    DEF TypeOK, Hits, CheckBackup, RepairBackup, RepairMain, BackupHit, BackupSure, MainHit
  <2>5. CASE CheckBackup
    BY <1>1, <2>2, <2>3, <2>4, <2>5
    DEF Hits, CheckBackup, BlockInv, Ordered, Redundant, InFlight
  <2>6. CASE RepairBackup
    BY <1>1, <2>2, <2>3, <2>4, <2>6
    DEF Hits, RepairBackup, BlockInv, Ordered, Redundant, InFlight
  <2>7. CASE RepairMain
    BY <1>1, <2>2, <2>3, <2>4, <2>7
    DEF Hits, RepairMain, BlockInv, Ordered, Redundant, InFlight
  <2>8. QED
    BY <1>2, <2>5, <2>6, <2>7
<1>3. CASE PowerFails
  BY <1>1, <1>3 DEF PowerFails
<1>4. CASE ~(CheckBackup \/ RepairBackup \/ RepairMain \/ PowerFails)
  <2>1. app' = app
    BY <1>4 DEF Next, Save, Read, vars, StartSave, StartRead, WriteMain, VerifyMain,
       GiveUp, WriteBackup, FailedRead, Fail, ReadMain, ReadBackup
  <2>2. QED
    BY <2>1
<1>5. QED
  BY <1>2, <1>3, <1>4

\* Where the halves agree, what a read hands to the application is the last
\* successful save of the block or a later one that was cut short.
THEOREM ReadsAreCurrent ==
  ASSUME HalvesAgree
  PROVE  Spec => ReadsCurrent
<1> DEFINE A == \A b \in Blocks : app'[b] # app[b] /\ app'[b] # Bad /\ hit'[b] # "both"
                   => app'[b] \in completed[b]..attempted[b]
<1>1. IInv /\ [Next]_vars => [A]_vars
  BY DeliversCurrent
<1>2. Spec => [][A]_vars
  BY InvAlways, <1>1, PTL DEF Spec
<1>3. QED
  BY <1>2 DEF ReadsCurrent
=============================================================================
