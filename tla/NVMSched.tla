------------------------------ MODULE NVMSched ------------------------------
(***************************************************************************)
(* NVM_SaveUpdate: what the background loop decides to save, and when.     *)
(* A pass looks at the mains, saves the error history of one axis and of   *)
(* the supplier whose flags are set, then the run times of each of the     *)
(* three EEPROMs in one second of every Interval.  Tasks that interrupt    *)
(* the loop count the seconds, record errors and watch the mains, so every *)
(* read of a clock or of a signal and every part of NVM_WriteBlockData is  *)
(* a step.  Module NVMBlock has what happens inside a write.               *)
(*                                                                         *)
(* The blocks are numbered as they are looked at: the history of the axes  *)
(* 0..NumAxes-1, the history of the supplier, then the run times.  The     *)
(* block of the based axes has two entries that fare differently: the      *)
(* axes that are copied into it, and the last one.                         *)
(***************************************************************************)
EXTENDS Integers

CONSTANTS
  NumAxes,     \* ALL_AXIS
  Interval,    \* NVM_SAVE_BLOCK_INTERVAL_TIME, in seconds
  Erring,      \* the history blocks errors are recorded in
  Running,     \* the inverters whose clocks run
  Failing,     \* the blocks whose EEPROM write may fail
  MaxSeconds   \* bound: how far the clocks run

Supplier == NumAxes
Device == NumAxes + 1     \* SSDCB: the device operating time
Based == NumAxes + 2      \* SSDB: the based axes (as an entry: 0 to 4)
Extended == NumAxes + 3   \* EADB: the extended axes
LastAxis == NumAxes + 4   \* the entry of axis 5 in the block of the based axes

Axes == 0..(NumAxes - 1)
HistoryBlocks == 0..Supplier
RunBlocks == Device..Extended
Entries == Device..LastAxis
BlockOf(e) == IF e = LastAxis THEN Based ELSE e

\* What says that the mains are lost: FltCfgData.ACLossStatus, and the bit
\* ACLoss of the warningFlags.
Signals == {"status", "warning"}

ASSUME NVMSchedAssumption ==
  /\ NumAxes \in Nat /\ Interval \in Nat /\ Interval > 3 /\ MaxSeconds \in Nat
  /\ Erring \subseteq HistoryBlocks /\ Running \subseteq {Based, Extended}
  /\ Failing \subseteq 0..Extended

VARIABLES
  pc,        \* the step of the pass, and the block it is about
  flags,     \* ErrHistSaveEepFlag: the history blocks to save
  copied,    \* the history blocks whose local memory is up to date
  kept,      \* the history blocks whose EEPROM copy is up to date
  clk,       \* PoweredOnRunningTime, for each run-time block
  saveTime,  \* the static SaveRunTime of each run-time block
  local,     \* the run times in local memory, by entry
  stored,    \* the run times in EEPROM
  lost,      \* the signals that report a loss of the mains
  lossFlag,  \* NVM_ACLoss_SaveDataFlag
  lossTime,  \* NVM_ACLoss_SaveDataTime
  command,   \* Get_FCT_WriteProductionData_Cmd
  allowed,   \* self check finished, or an ADC power fault
  lapses,    \* history: blocks something outside went wrong for since their copy
  passed,    \* history: run-time blocks looked at in this second of their clock
  wear,      \* history: saves of a run-time block since its last due second
  cleared    \* history: the signals that were clear since the last save at a loss

loop == <<pc, flags, copied, kept, saveTime, local, stored, lossFlag, lossTime, command>>
world == <<clk, lost, allowed>>
vars == <<loop, world, lapses, passed, wear, cleared>>

errors == <<flags, copied, kept>>
times == <<saveTime, local, stored>>
loss == <<lossFlag, lossTime, command>>

Offset(c) == NumAxes + 4 - c
DueAt(c, t) == (t + Offset(c)) % Interval = 0
Due(c) == DueAt(c, clk[c])

Goto(place, b) == pc' = [at |-> place, block |-> b]
At(place) == pc.at = place
Saving(b) == pc.block = b /\ pc.at \in {"copy", "write", "done"}

Steps == {"check", "command", "save", "interval", "status", "warning",
          "axes", "supplier", "due", "compare", "copy", "write", "done"}

-----------------------------------------------------------------------------
(***************************************************************************)
(* NVM_SaveUpdate up to NVM_SaveErrHist.                                   *)
(***************************************************************************)
\* The loss of the mains is looked at before the command, each at its time.
LookAtLoss ==
  /\ At("check") /\ allowed
  /\ IF "warning" \in lost /\ lossFlag THEN Goto("save", 0) ELSE Goto("command", 0)
  /\ UNCHANGED <<errors, times, loss, world, lapses, passed, wear, cleared>>

LookAtCommand ==
  /\ At("command")
  /\ IF command THEN Goto("save", 0) ELSE Goto("interval", 0)
  /\ UNCHANGED <<errors, times, loss, world, lapses, passed, wear, cleared>>

\* NVM_SaveEepromData runs over nvm_num = 0 EEPROMs.  A command that came since
\* the look at it is cleared as well.  The pass ends here.
SaveOnLoss ==
  /\ At("save")
  /\ lossFlag' = FALSE
  /\ lossTime' = clk[Device]
  /\ command' = FALSE
  /\ cleared' = Signals \ lost
  /\ Goto("check", 0)
  /\ UNCHANGED <<errors, times, world, lapses, passed, wear>>

\* The save at a loss may come again, and the pass goes on.
Enable == lossFlag' = TRUE /\ Goto("axes", 0)

LookAtInterval ==
  /\ At("interval")
  /\ IF clk[Device] - lossTime >= Interval
     THEN Enable ELSE Goto("status", 0) /\ UNCHANGED lossFlag
  /\ UNCHANGED <<errors, times, lossTime, command, world, lapses, passed, wear, cleared>>

EnablesAtOnce ==   \* mutant: the status of the loss is not looked at
  /\ At("status")
  /\ Goto("warning", 0)
  /\ UNCHANGED <<errors, times, loss, world, lapses, passed, wear, cleared>>

LookAtStatus ==
  /\ At("status")
  /\ IF "status" \in lost THEN Goto("axes", 0) ELSE Goto("warning", 0)
  /\ UNCHANGED <<errors, times, loss, world, lapses, passed, wear, cleared>>

LookAtWarning ==
  /\ At("warning")
  /\ IF "warning" \in lost THEN Goto("axes", 0) /\ UNCHANGED lossFlag ELSE Enable
  /\ UNCHANGED <<errors, times, lossTime, command, world, lapses, passed, wear, cleared>>

-----------------------------------------------------------------------------
(***************************************************************************)
(* NVM_WriteBlockData.                                                     *)
(***************************************************************************)
CopiesDevice(b) ==   \* mutant: one EEPROM more has no case
  {e \in {Device} : b = Device}

\* The entries NVM_WriteLocalMemoryfromApplication copies for a block: it has
\* no case for the EADB EEPROM, and none of axis 5 is left in that of the SSDB.
CopiesRunTime(b) == {e \in {Device, Based} : b = BlockOf(e)}

\* The accumulated running time of an entry, a counter of its own: the task
\* that counts (external) counts it along with the clock its block is saved
\* by, and no start sets it to another value, as NVM_Init reads no block.
Accumulated(e) == clk[BlockOf(e)]

Copy ==
  /\ At("copy")
  /\ IF pc.block \in HistoryBlocks
     THEN /\ copied' = copied \cup {pc.block}
          /\ lapses' = lapses \ {pc.block}
          /\ UNCHANGED local
     ELSE /\ local' = [e \in Entries |-> IF e \in CopiesRunTime(pc.block)
                                       THEN Accumulated(e) ELSE local[e]]
          /\ UNCHANGED <<copied, lapses>>
  /\ Goto("write", pc.block)
  /\ UNCHANGED <<flags, kept, saveTime, stored, loss, world, passed, wear, cleared>>

\* The caller does not learn of a failure.
Write ==
  /\ At("write")
  /\ \/ /\ IF pc.block \in HistoryBlocks
           THEN /\ kept' = IF pc.block \in copied THEN kept \cup {pc.block}
                           ELSE kept \ {pc.block}
                /\ UNCHANGED <<stored, lapses>>
           ELSE /\ stored' = [e \in Entries |-> IF BlockOf(e) = pc.block
                                             THEN local[e] ELSE stored[e]]
                /\ lapses' = lapses \ {pc.block}
                /\ UNCHANGED kept
     \/ /\ pc.block \in Failing
        /\ kept' = kept \ {pc.block}
        /\ lapses' = lapses \cup {pc.block}
        /\ UNCHANGED stored
  /\ Goto("done", pc.block)
  /\ UNCHANGED <<flags, copied, saveTime, local, loss, world, passed, wear, cleared>>

-----------------------------------------------------------------------------
(***************************************************************************)
(* NVM_SaveErrHist.                                                        *)
(***************************************************************************)
\* The first axis whose flag is set; the others wait for another pass.
FlaggedAxes == flags \cap Axes

LookAtAxes ==
  /\ At("axes")
  /\ \/ \E b \in FlaggedAxes : (\A a \in FlaggedAxes : b <= a) /\ Goto("copy", b)
     \/ FlaggedAxes = {} /\ Goto("supplier", Supplier)
  /\ UNCHANGED <<errors, times, loss, world, lapses, passed, wear, cleared>>

LookAtSupplier ==
  /\ At("supplier")
  /\ IF Supplier \in flags THEN Goto("copy", Supplier) ELSE Goto("due", Device)
  /\ UNCHANGED <<errors, times, loss, world, lapses, passed, wear, cleared>>

AfterAxisOnly(b) ==   \* mutant: an axis that was saved ends the function
  Goto("due", Device)

AfterHistory(b) ==
  IF b \in Axes THEN Goto("supplier", Supplier) ELSE Goto("due", Device)

ClearedAll(b) ==   \* mutant: the flags of all the axes are cleared
  IF b \in Axes THEN flags \ Axes ELSE flags \ {b}

\* The flag goes, whether the write worked or not and whatever came meanwhile.
Cleared(b) == flags \ {b}

ClearFlag ==
  /\ At("done") /\ pc.block \in HistoryBlocks
  /\ flags' = Cleared(pc.block)
  /\ AfterHistory(pc.block)
  /\ UNCHANGED <<copied, kept, times, loss, world, lapses, passed, wear, cleared>>

-----------------------------------------------------------------------------
(***************************************************************************)
(* NVM_SaveRunTime.                                                        *)
(***************************************************************************)
NextClockPast(c) ==   \* mutant: the extended axes are not the last
  IF c > Extended THEN Goto("check", 0) ELSE Goto("due", c + 1)

NextClock(c) == IF c = Extended THEN Goto("check", 0) ELSE Goto("due", c + 1)

LookAtClock ==
  /\ At("due")
  /\ IF Due(pc.block) THEN Goto("compare", pc.block) ELSE NextClock(pc.block)
  /\ passed' = passed \cup {pc.block}
  /\ UNCHANGED <<errors, times, loss, world, lapses, wear, cleared>>

AlwaysNew(c) ==   \* mutant: the saved second is not remembered
  TRUE

\* The clock is read again, maybe in the next second.
NewSecond(c) == saveTime[c] # clk[c]

Compare ==
  /\ At("compare")
  /\ IF NewSecond(pc.block)
     THEN /\ Goto("copy", pc.block)
          /\ wear' = [wear EXCEPT ![pc.block] = @ + 1]
     ELSE NextClock(pc.block) /\ UNCHANGED wear
  /\ UNCHANGED <<errors, times, loss, world, lapses, passed, cleared>>

Stamp ==
  /\ At("done") /\ pc.block \in RunBlocks
  /\ saveTime' = [saveTime EXCEPT ![pc.block] = clk[pc.block]]
  /\ NextClock(pc.block)
  /\ UNCHANGED <<errors, local, stored, loss, world, lapses, passed, wear, cleared>>

LookAtMains == \/ LookAtLoss \/ LookAtCommand \/ SaveOnLoss
               \/ LookAtInterval \/ LookAtStatus \/ LookAtWarning

Pass == \/ LookAtMains \/ Copy \/ Write \/ LookAtAxes \/ LookAtSupplier
        \/ ClearFlag \/ LookAtClock \/ Compare \/ Stamp

-----------------------------------------------------------------------------
(***************************************************************************)
(* What interrupts the loop.                                               *)
(***************************************************************************)
\* An error is recorded in a history and its flag set.
Record ==
  /\ \E b \in Erring :
       /\ flags' = flags \cup {b}
       /\ copied' = copied \ {b}
       /\ kept' = kept \ {b}
       /\ lapses' = IF Saving(b) /\ ~At("copy") THEN lapses \cup {b} ELSE lapses
  /\ UNCHANGED <<pc, times, loss, world, passed, wear, cleared>>

\* A second goes by.  A save does not last until its block is due again.
Second ==
  LET ticking == {Device} \cup Running
      next    == [c \in RunBlocks |-> IF c \in ticking THEN clk[c] + 1 ELSE clk[c]]
      missed  == {c \in ticking : Due(c) /\ c \notin passed}
      due     == {c \in ticking : DueAt(c, next[c])}
  IN  /\ clk[Device] < MaxSeconds
      /\ \A c \in due : ~Saving(c)
      /\ clk' = next
      /\ passed' = passed \ ticking
      /\ lapses' = lapses \cup missed
      /\ wear' = [c \in RunBlocks |-> IF c \in due THEN 0 ELSE wear[c]]
      /\ UNCHANGED <<loop, lost, allowed, cleared>>

\* The mains fail and come back: each of the two signals changes on its own.
Mains ==
  /\ \E m \in SUBSET Signals : lost' = m /\ cleared' = cleared \cup (Signals \ m)
  /\ UNCHANGED <<loop, clk, allowed, lapses, passed, wear>>

\* A command to write the production data; the self check ends, or an ADC
\* power fault comes or goes.
Order ==
  /\ command' = TRUE
  /\ UNCHANGED <<pc, errors, times, lossFlag, lossTime, world, lapses, passed, wear, cleared>>

Allow ==
  /\ allowed' = ~allowed
  /\ UNCHANGED <<loop, clk, lost, lapses, passed, wear, cleared>>

-----------------------------------------------------------------------------
Init ==
  /\ pc = [at |-> "check", block |-> 0]
  /\ flags = {} /\ copied = HistoryBlocks /\ kept = HistoryBlocks
  /\ clk = [c \in RunBlocks |-> 0]
  /\ saveTime = clk
  /\ local = [e \in Entries |-> 0] /\ stored = local
  /\ lost \in SUBSET Signals /\ allowed = FALSE
  /\ lossFlag = TRUE /\ lossTime = 0 /\ command = FALSE
  /\ lapses = {} /\ passed = {} /\ wear = clk /\ cleared = Signals

Next == Pass \/ Record \/ Second \/ Mains \/ Order \/ Allow

\* The background loop goes on.
Spec == Init /\ [][Next]_vars /\ WF_vars(Pass)

-----------------------------------------------------------------------------
(***************************************************************************)
(* Properties.                                                             *)
(***************************************************************************)
\* The variables have their types.
TypeOK ==
  /\ pc \in [at : Steps, block : 0..Extended]
  /\ At("due") \/ At("compare") => pc.block \in RunBlocks
  /\ flags \subseteq HistoryBlocks /\ copied \subseteq HistoryBlocks
  /\ kept \subseteq HistoryBlocks /\ lapses \subseteq 0..Extended
  /\ passed \subseteq RunBlocks
  /\ clk \in [RunBlocks -> Nat] /\ saveTime \in [RunBlocks -> Nat]
  /\ local \in [Entries -> Nat] /\ stored \in [Entries -> Nat]
  /\ lost \subseteq Signals /\ lossTime \in Nat
  /\ lossFlag \in BOOLEAN /\ command \in BOOLEAN /\ allowed \in BOOLEAN
  /\ wear \in [RunBlocks -> Nat] /\ cleared \subseteq Signals

\* An error history that is not in EEPROM is flagged to be saved, unless its
\* last write failed or an error came in the middle of it: those are the two
\* ways in which the flag is cleared (line 620) for something not saved.
FlagOrKept == \A b \in HistoryBlocks : b \in kept \/ b \in flags \/ b \in lapses

\* A run-time block is written at most twice for each due second, however
\* often the loop passes in that second: the second write can only come from
\* a clock that ticks between its two reads.
WearBounded == \A c \in RunBlocks : wear[c] <= 2

\* An entry in EEPROM is at most one interval old, or it is being saved, or
\* something outside the loop kept it from being saved.
RunTimeCurrent(e) ==
  LET b == BlockOf(e)
  IN  \/ b \in lapses \/ Saving(b) \/ (At("compare") /\ pc.block = b)
      \/ Accumulated(e) - stored[e] <= Interval

\* The run times of the device and of the axes 0 to 4 in EEPROM are never more
\* than one interval old, unless the last write failed or the loop did not come
\* by in the one second it was due.
RunTimeSaved == \A e \in {Device, Based} : RunTimeCurrent(e)

\* The run time of axis 5 is saved with the others, as the comment on the based
\* axes says (line 647), which reading it back (line 278) counts on.
LastAxisSaved == RunTimeCurrent(LastAxis)

\* The run time of the extended axes is saved in every interval as well, as the
\* comment of its branch says (line 658).
ExtendedSaved == RunTimeCurrent(Extended)

\* As long as one of the two signals goes on reporting the loss of the mains,
\* the save it triggers is not triggered again within the interval, however the
\* other flickers and whenever the loop looks.
LossSavedOnce ==
  [][lossFlag /\ ~lossFlag' =>
       cleared = Signals \/ command \/ clk[Device] - lossTime >= Interval]_vars

\* A flagged history is saved in the end, if the loop is let through: that of
\* the supplier whatever the axes do, that of an axis if no axis before it
\* keeps recording errors.
HistorySaved ==
  \A b \in HistoryBlocks :
    <>[](allowed /\ ~command /\ (b \in Axes => \A a \in 0..(b - 1) : a \notin flags))
      => (b \in flags ~> b \notin flags)
=============================================================================
