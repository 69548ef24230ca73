--------------------------- MODULE NVMSchedProofs ---------------------------
(***************************************************************************)
(* Promises of the save scheduler for every number of axes, interval and   *)
(* run of the clocks: no recorded error is forgotten without a failed      *)
(* write or an error in the middle of its save, no run-time block is       *)
(* written more than twice for a due second, the run times in EEPROM are   *)
(* never old, and one loss of the mains triggers one save.                 *)
(***************************************************************************)
EXTENDS NVMSched, TLAPS

\* The places at which pc is about a history block or about a run-time block.
Place ==
  /\ pc \in [at : Steps, block : 0..Extended]
  /\ At("due") \/ At("compare") => pc.block \in RunBlocks

\* A history is saved because it is flagged, and what its local memory and its
\* EEPROM copy lack during the save came in the middle of it or failed.
HistoryInv(b) ==
  /\ Saving(b) => b \in flags
  /\ At("write") /\ pc.block = b => b \in copied \/ b \in lapses
  /\ At("done") /\ pc.block = b => b \in kept \/ b \in lapses
  /\ b \in kept \/ b \in flags \/ b \in lapses

HInv == Place /\ \A b \in HistoryBlocks : HistoryInv(b)

LEMMA BlockNumbers ==
  /\ HistoryBlocks \subseteq 0..Extended /\ RunBlocks \subseteq 0..Extended
  /\ HistoryBlocks \cap RunBlocks = {} /\ Axes \subseteq HistoryBlocks
  /\ Supplier \in HistoryBlocks /\ Device \in RunBlocks /\ 0 \in 0..Extended
  /\ \A c \in RunBlocks : c # Extended => c + 1 \in RunBlocks
BY NVMSchedAssumption DEF HistoryBlocks, RunBlocks, Axes, Supplier, Device, Extended

\* pc stays in place whatever step is taken.
LEMMA PlaceKept == Place /\ [Next]_vars => Place'
<1> SUFFICES ASSUME Place, [Next]_vars PROVE Place'
  OBVIOUS
<1> USE BlockNumbers DEF Place, Steps, At, Goto
<1>1. CASE LookAtAxes
  <2>1. CASE \E b \in FlaggedAxes : Goto("copy", b)
    <3>1. PICK b \in FlaggedAxes : Goto("copy", b)
      BY <2>1
    <3>2. b \in 0..Extended
      BY <3>1 DEF FlaggedAxes
    <3> QED
      BY <3>1, <3>2
  <2>2. CASE Goto("supplier", Supplier)
    BY <2>2
  <2> QED
    BY <1>1, <2>1, <2>2 DEF LookAtAxes
<1>2. CASE LookAtSupplier
  BY <1>2 DEF LookAtSupplier
<1>3. CASE LookAtClock
  BY <1>3 DEF LookAtClock, NextClock
<1>4. CASE Compare
  BY <1>4 DEF Compare, NextClock
<1>5. CASE Stamp
  BY <1>5 DEF Stamp, NextClock
<1>6. CASE ClearFlag
  BY <1>6 DEF ClearFlag, AfterHistory
<1>7. CASE LookAtMains
  BY <1>7
  DEF LookAtMains, LookAtLoss, LookAtCommand, SaveOnLoss,
      LookAtInterval, LookAtStatus, LookAtWarning, Enable
<1>9. CASE Copy \/ Write
  BY <1>9 DEF Copy, Write
<1>8. CASE Record \/ Second \/ Mains \/ Order \/ Allow \/ UNCHANGED vars
  BY <1>8 DEF Record, Second, Mains, Order, Allow, vars, loop
<1> QED
  BY <1>1, <1>2, <1>3, <1>4, <1>5, <1>6, <1>7, <1>8, <1>9 DEF Next, Pass

LEMMA HistoryKept ==
  ASSUME HInv, [Next]_vars, NEW b \in HistoryBlocks
  PROVE  HistoryInv(b)'
<1> USE BlockNumbers DEF HInv, HistoryInv, Place, Steps, At, Goto, Saving
<1>1. CASE LookAtAxes
  BY <1>1 DEF LookAtAxes, FlaggedAxes, errors
<1>2. CASE LookAtSupplier
  BY <1>2 DEF LookAtSupplier, errors
<1>3. CASE LookAtClock
  BY <1>3 DEF LookAtClock, NextClock, errors
<1>4. CASE Compare
  BY <1>4 DEF Compare, NextClock, errors
<1>5. CASE Stamp
  BY <1>5 DEF Stamp, NextClock, errors
<1>6. CASE ClearFlag
  BY <1>6 DEF ClearFlag, AfterHistory, Cleared
<1>7. CASE LookAtMains
  BY <1>7
  DEF errors, LookAtMains, LookAtLoss, LookAtCommand, SaveOnLoss,
      LookAtInterval, LookAtStatus, LookAtWarning, Enable
<1>8. CASE Copy
  BY <1>8 DEF Copy
<1>9. CASE Write
  BY <1>9 DEF Write
<1>10. CASE Record
  BY <1>10 DEF Record
<1>11. CASE Second
  BY <1>11 DEF Second, loop
<1>12. CASE Mains \/ Order \/ Allow \/ UNCHANGED vars
  BY <1>12 DEF Mains, Order, Allow, vars, loop, errors
<1> QED
  BY <1>1, <1>2, <1>3, <1>4, <1>5, <1>6, <1>7, <1>8, <1>9, <1>10, <1>11, <1>12
  DEF Next, Pass

\* No recorded error is forgotten: FlagOrKept holds in every state.
THEOREM ErrorsKept == Spec => []FlagOrKept
<1>1. Init => HInv
  BY BlockNumbers DEF Init, HInv, HistoryInv, Place, Steps, At, Saving
<1>2. HInv /\ [Next]_vars => HInv'
  BY PlaceKept, HistoryKept DEF HInv, HistoryBlocks, Supplier
<1>3. HInv => FlagOrKept
  BY DEF HInv, HistoryInv, FlagOrKept
<1> QED
  BY <1>1, <1>2, <1>3, PTL DEF Spec

-----------------------------------------------------------------------------
\* A block is looked at, compared or saved only while at most one of the saves
\* its due second allows is behind it; in the due second itself the save that
\* began in it has stamped the clock.
WearInv(c) ==
  /\ wear[c] \in 0..2
  /\ Due(c) => wear[c] <= 1
  /\ At("compare") /\ pc.block = c => wear[c] <= 1
  /\ Due(c) /\ wear[c] = 1 /\ ~Saving(c) => saveTime[c] = clk[c]

WInv ==
  /\ Place
  /\ clk \in [RunBlocks -> Nat] /\ saveTime \in [RunBlocks -> Nat]
  /\ wear \in [RunBlocks -> Nat]
  /\ \A c \in RunBlocks : WearInv(c)

LEMMA WearTypes ==
  ASSUME WInv, [Next]_vars
  PROVE  /\ clk' \in [RunBlocks -> Nat] /\ saveTime' \in [RunBlocks -> Nat]
         /\ wear' \in [RunBlocks -> Nat]
<1> USE DEF WInv, Place, At
<1>1. CASE Compare
  BY <1>1 DEF Compare, world, times
<1>2. CASE Stamp
  BY <1>2 DEF Stamp, world
<1>3. CASE Second
  BY <1>3 DEF Second, loop
<1>4. CASE LookAtMains \/ LookAtAxes \/ LookAtSupplier \/ LookAtClock
  BY <1>4
  DEF LookAtAxes, LookAtSupplier, LookAtClock, world, times,
      LookAtMains, LookAtLoss, LookAtCommand, SaveOnLoss,
      LookAtInterval, LookAtStatus, LookAtWarning, Enable
<1>5. CASE Copy \/ Write \/ ClearFlag
  BY <1>5 DEF Copy, Write, ClearFlag, world, times
<1>6. CASE Record \/ Mains \/ Order \/ Allow \/ UNCHANGED vars
  BY <1>6 DEF Record, Mains, Order, Allow, vars, loop, world, times
<1> QED
  BY <1>1, <1>2, <1>3, <1>4, <1>5, <1>6 DEF Next, Pass

LEMMA WearKept ==
  ASSUME WInv, [Next]_vars, NEW c \in RunBlocks
  PROVE  WearInv(c)'
<1> USE BlockNumbers DEF WInv, WearInv, Place, Steps, At, Goto, Saving, Due
<1>1. CASE LookAtAxes \/ LookAtSupplier
  BY <1>1 DEF LookAtAxes, LookAtSupplier, FlaggedAxes, times, world
<1>10. CASE LookAtMains
  BY <1>10
  DEF times, world, LookAtMains, LookAtLoss, LookAtCommand, SaveOnLoss,
      LookAtInterval, LookAtStatus, LookAtWarning, Enable
<1>2. CASE LookAtClock
  BY <1>2 DEF LookAtClock, NextClock, times, world
<1>3. CASE Compare
  BY <1>3 DEF Compare, NewSecond, NextClock, times, world
<1>4. CASE Stamp
  BY <1>4 DEF Stamp, NextClock, world
<1>5. CASE ClearFlag
  BY <1>5 DEF ClearFlag, AfterHistory, times, world
<1>6. CASE Copy \/ Write
  BY <1>6 DEF Copy, Write, world
<1>7. CASE Second
  <2> DEFINE next == [d \in RunBlocks |->
                        IF d \in {Device} \cup Running THEN clk[d] + 1 ELSE clk[d]]
             due == {d \in {Device} \cup Running : DueAt(d, next[d])}
  <2>1. /\ clk' = next /\ \A d \in due : ~Saving(d)
        /\ wear' = [d \in RunBlocks |-> IF d \in due THEN 0 ELSE wear[d]]
        /\ pc' = pc /\ saveTime' = saveTime
    BY <1>7 DEF Second, loop
  <2>2. CASE c \in due
    BY <2>1, <2>2
  <2>3. CASE c \notin due /\ c \in {Device} \cup Running
    BY <2>1, <2>3
  <2>4. CASE c \notin {Device} \cup Running
    BY <2>1, <2>4
  <2> QED
    BY <2>2, <2>3, <2>4
<1>8. CASE Record
  BY <1>8 DEF Record, times, world
<1>9. CASE Mains \/ Order \/ Allow \/ UNCHANGED vars
  BY <1>9 DEF Mains, Order, Allow, vars, loop, times, world
<1> QED
  BY <1>1, <1>2, <1>3, <1>4, <1>5, <1>6, <1>7, <1>8, <1>9, <1>10 DEF Next, Pass

LEMMA WearInvStep == WInv /\ [Next]_vars => WInv'
<1> SUFFICES ASSUME WInv, [Next]_vars PROVE WInv'
  OBVIOUS
<1>1. Place'
  BY PlaceKept DEF WInv
<1>2. \A c \in RunBlocks : WearInv(c)'
  BY WearKept
<1> QED
  BY <1>1, <1>2, WearTypes DEF WInv, RunBlocks, Device, Extended

\* At most two writes for a due second: WearBounded holds in every state.
THEOREM WearLimit == Spec => []WearBounded
<1>1. Init => WInv
  BY BlockNumbers DEF Init, WInv, WearInv, Place, Steps, At, Saving
<1>2. WInv /\ [Next]_vars => WInv'
  BY WearInvStep
<1>3. WInv => WearBounded
  BY DEF WInv, WearInv, WearBounded
<1> QED
  BY <1>1, <1>2, <1>3, PTL DEF Spec
-----------------------------------------------------------------------------
(***************************************************************************)
(* The run times: between two due seconds what is stored is not older than *)
(* the first of them.                                                      *)
(***************************************************************************)
\* What div and mod return.
LEMMA Quotient ==
  ASSUME NEW I \in Nat, I > 1, NEW x \in Nat
  PROVE  /\ x \div I \in Int /\ x % I \in 0..(I - 1)
         /\ x = (x \div I) * I + (x % I)
<1>1. x = (x \div I) * I + (x % I)
  BY Z3T(20)
<1>2. x \div I \in Int /\ x % I \in 0..(I - 1)
  OBVIOUS
<1> QED
  BY <1>1, <1>2

\* A remainder is the only one in its range.
LEMMA Remainder ==
  ASSUME NEW I \in Int, I > 1, NEW x \in Int, NEW q \in Int, NEW r \in Int,
         x = q * I + r, 0 <= r, r < I
  PROVE  x % I = r
BY SMTT(20)

\* A remainder counts up and starts again.
LEMMA ModStep ==
  ASSUME NEW I \in Nat, I > 1, NEW x \in Nat
  PROVE  (x + 1) % I = IF (x % I) + 1 = I THEN 0 ELSE (x % I) + 1
<1> DEFINE q == x \div I
           r == x % I
<1>1. q \in Int /\ r \in 0..(I - 1) /\ x = q * I + r
  BY Quotient
<1> HIDE DEF q, r
<1>2. CASE r + 1 = I
  <2>1. (q + 1) * I = q * I + I /\ (q+1)*I \in Int /\ q*I \in Int
    BY <1>1
  <2>2. x + 1 = (q + 1) * I + 0
    BY <1>1, <1>2, <2>1
  <2>3. (x + 1) % I = 0
    BY <2>2, <1>1, Remainder
  <2> QED
    BY <1>2, <2>3 DEF r
<1>3. CASE r + 1 # I
  <2> DEFINE y == x + 1
             p == r + 1
  <2>1. y = q * I + p /\ y \in Int /\ p \in Int /\ 0 <= p /\ p < I
    BY <1>1, <1>3
  <2>2. y % I = p
    <3> HIDE DEF y, p
    <3> QED
      BY <2>1, <1>1, Remainder
  <2> QED
    BY <1>3, <2>2 DEF r
<1> QED
  BY <1>2, <1>3

\* The seconds since c was last due.
Since(c) == (clk[c] + Offset(c)) % Interval

AgeInv(c) ==
  /\ saveTime[c] <= clk[c]
  /\ (At("write") \/ At("done")) /\ pc.block = c => local[c] >= clk[c] - Since(c)
  /\ c \notin lapses /\ At("done") /\ pc.block = c => stored[c] >= clk[c] - Since(c)
  /\ c \notin lapses /\ ~Saving(c) /\ ~(At("compare") /\ pc.block = c) =>
       \/ stored[c] >= clk[c] - Since(c)
       \/ Since(c) = 0 /\ c \notin passed /\ stored[c] >= clk[c] - Interval
  /\ c \notin lapses /\ ~Saving(c) /\ saveTime[c] = clk[c] => stored[c] >= clk[c] - Since(c)

Numbers ==
  /\ clk \in [RunBlocks -> Nat] /\ saveTime \in [RunBlocks -> Nat]
  /\ local \in [Entries -> Nat] /\ stored \in [Entries -> Nat]

AInv == Place /\ Numbers /\ \A c \in {Device, Based} : AgeInv(c)

LEMMA SinceRange ==
  ASSUME NEW c \in RunBlocks, NEW t \in Nat
  PROVE  /\ (t + Offset(c)) % Interval \in 0..(Interval - 1)
         /\ (t + 1 + Offset(c)) % Interval =
              IF ((t + Offset(c)) % Interval) + 1 = Interval THEN 0
              ELSE ((t + Offset(c)) % Interval) + 1
<1>1. Offset(c) \in Nat
  BY NVMSchedAssumption DEF Offset, RunBlocks, Device, Extended
<1> HIDE DEF Offset
<1> DEFINE x == t + Offset(c)
<1>2. x \in Nat /\ t + 1 + Offset(c) = x + 1
  BY <1>1
<1>3. Interval \in Nat /\ Interval > 1
  BY NVMSchedAssumption
<1>4. /\ x % Interval \in 0..(Interval - 1)
      /\ (x + 1) % Interval = IF (x % Interval) + 1 = Interval THEN 0 ELSE (x % Interval) + 1
  <2> HIDE DEF x
  <2> QED
    BY <1>2, <1>3, Quotient, ModStep
<1> QED
  BY <1>2, <1>4

LEMMA NumbersKept == Place /\ Numbers /\ [Next]_vars => Numbers'
<1> SUFFICES ASSUME Place, Numbers, [Next]_vars PROVE Numbers'
  OBVIOUS
<1> USE DEF Numbers, Place, At
<1>1. CASE Copy
  <2>1. \A e \in Entries : Accumulated(e) \in Nat
    BY NVMSchedAssumption
    DEF Accumulated, BlockOf, Entries, RunBlocks, LastAxis, Based, Extended, Device
  <2> QED
    BY <1>1, <2>1 DEF Copy, world
<1>2. CASE Write
  BY <1>2 DEF Write, world
<1>3. CASE Stamp
  BY <1>3 DEF Stamp, world
<1>4. CASE Second
  BY <1>4 DEF Second, loop
<1>5. CASE LookAtMains \/ LookAtAxes \/ LookAtSupplier
  BY <1>5
  DEF LookAtAxes, LookAtSupplier, world, times, LookAtMains, LookAtLoss, LookAtCommand, SaveOnLoss,
      LookAtInterval, LookAtStatus, LookAtWarning, Enable
<1>6. CASE LookAtClock \/ Compare \/ ClearFlag
  BY <1>6 DEF LookAtClock, Compare, ClearFlag, world, times
<1>7. CASE Record \/ Mains \/ Order \/ Allow \/ UNCHANGED vars
  BY <1>7 DEF Record, Mains, Order, Allow, vars, loop, world, times
<1> QED
  BY <1>1, <1>2, <1>3, <1>4, <1>5, <1>6, <1>7 DEF Next, Pass

LEMMA AgeKept ==
  ASSUME AInv, [Next]_vars, NEW c \in {Device, Based}
  PROVE  AgeInv(c)'
<1> DEFINE r == Since(c)
<1>1. /\ c \in RunBlocks /\ c \notin HistoryBlocks /\ Interval \in Nat
      /\ clk[c] \in Nat /\ saveTime[c] \in Nat /\ local[c] \in Nat /\ stored[c] \in Nat
  BY NVMSchedAssumption
  DEF AInv, Numbers, Entries, RunBlocks, HistoryBlocks, Supplier, Device, Based, Extended, LastAxis
<1>0. c \in Entries /\ BlockOf(c) = c /\ c # LastAxis
  BY NVMSchedAssumption
  DEF Entries, RunBlocks, BlockOf, Device, Based, Extended, LastAxis
<1>2. r \in 0..(Interval - 1) /\ (clk'[c] = clk[c] => Since(c)' = r)
  BY <1>1, SinceRange DEF Since, Offset
<1>3. Due(c) <=> r = 0
  BY DEF Due, DueAt, Since
<1> HIDE DEF r
<1> USE BlockNumbers, <1>1, <1>2, <1>3
    DEF AInv, Numbers, AgeInv, Place, Steps, At, Goto, Saving, r
<1>4. CASE Second
  <2>1. pc' = pc /\ saveTime' = saveTime /\ local' = local /\ stored' = stored
    BY <1>4 DEF Second, loop
  <2>2. CASE c \in {Device} \cup Running
    <3>1. /\ clk'[c] = clk[c] + 1 /\ c \notin passed'
          /\ (c \notin lapses' => c \notin lapses /\ (Due(c) => c \in passed))
          /\ (DueAt(c, clk[c] + 1) => ~Saving(c))
      BY <1>4, <2>2 DEF Second
    <3>2. Since(c)' = IF r + 1 = Interval THEN 0 ELSE r + 1
      <4>1. (clk[c] + 1 + Offset(c)) % Interval = IF r + 1 = Interval THEN 0 ELSE r + 1
        BY SinceRange DEF Since
      <4> QED
        BY <3>1, <4>1 DEF Since, Offset
    <3>3. r + 1 = Interval => ~Saving(c)
      BY <3>1, <3>2 DEF DueAt, Since, Offset
    <3>4. c \notin lapses /\ (c \in passed \/ r # 0) =>
            stored[c] >= clk[c] - r \/ Saving(c) \/ (At("compare") /\ pc.block = c)
      OBVIOUS
    <3> QED
      BY <2>1, <3>1, <3>2, <3>3, <3>4
  <2>3. CASE c \notin {Device} \cup Running
    <3>1. /\ clk'[c] = clk[c] /\ (c \in passed' <=> c \in passed)
          /\ (c \notin lapses' => c \notin lapses)
      BY <1>4, <2>3 DEF Second
    <3> QED
      BY <2>1, <3>1
  <2> QED
    BY <2>2, <2>3
<1>5. CASE Copy
  <2>1. local'[c] = IF pc.block = c THEN clk[c] ELSE local[c]
    BY <1>0, <1>5 DEF Copy, CopiesRunTime, Accumulated
  <2> QED
    BY <1>5, <2>1 DEF Copy, world
<1>6. CASE Write
  <2>1. stored'[c] = stored[c] \/ (pc.block = c /\ stored'[c] = local[c])
    BY <1>0, <1>6 DEF Write
  <2>2. pc.block = c => c \in lapses' \/ stored'[c] = local[c]
    BY <1>0, <1>6 DEF Write
  <2> QED
    BY <1>6, <2>1, <2>2 DEF Write, world
<1>7. CASE Stamp
  BY <1>7 DEF Stamp, NextClock, world
<1>8. CASE Compare
  BY <1>8 DEF Compare, NewSecond, NextClock, world, times
<1>9. CASE LookAtClock
  BY <1>9 DEF LookAtClock, NextClock, world, times
<1>10. CASE LookAtAxes \/ LookAtSupplier
  BY <1>10 DEF LookAtAxes, LookAtSupplier, FlaggedAxes, world, times
<1>14. CASE LookAtMains
  BY <1>14
  DEF world, times, LookAtMains, LookAtLoss, LookAtCommand, SaveOnLoss,
      LookAtInterval, LookAtStatus, LookAtWarning, Enable
<1>11. CASE ClearFlag
  BY <1>11 DEF ClearFlag, AfterHistory, world, times
<1>12. CASE Record
  BY <1>12, NVMSchedAssumption DEF Record, world, times
<1>13. CASE Mains \/ Order \/ Allow \/ UNCHANGED vars
  BY <1>13 DEF Mains, Order, Allow, vars, loop, world, times
<1> QED
  BY <1>4, <1>5, <1>6, <1>7, <1>8, <1>9, <1>10, <1>11, <1>12, <1>13, <1>14
  DEF Next, Pass

\* The run times of the device and of the axes 0 to 4 in EEPROM are at most one
\* interval old, as RunTimeSaved says; nothing is claimed of the other axes.
THEOREM RunTimeKept == Spec => []RunTimeSaved
<1>1. Init => AInv
  <2> SUFFICES ASSUME Init PROVE AInv
    OBVIOUS
  <2>1. Place /\ Numbers
    BY BlockNumbers DEF Init, Place, Numbers, Steps, At
  <2>2. ASSUME NEW c \in {Device, Based} PROVE AgeInv(c)
    <3>1. c \in RunBlocks
      BY NVMSchedAssumption DEF RunBlocks, Device, Based, Extended
    <3>4. c \in Entries
      BY NVMSchedAssumption DEF Entries, Device, Based, LastAxis
    <3>2. clk[c] = 0 /\ saveTime[c] = 0 /\ stored[c] = 0 /\ At("check")
      BY <3>1, <3>4 DEF Init, At
    <3>3. Since(c) \in 0..(Interval - 1)
      BY <3>1, <3>2, SinceRange DEF Since
    <3> QED
      BY <3>2, <3>3, NVMSchedAssumption DEF AgeInv, At, Saving
  <2> QED
    BY <2>1, <2>2 DEF AInv
<1>2. AInv /\ [Next]_vars => AInv'
  BY PlaceKept, NumbersKept, AgeKept DEF AInv, Device, Based
<1>3. AInv => RunTimeSaved
  <2> SUFFICES ASSUME AInv, NEW c \in {Device, Based} PROVE RunTimeCurrent(c)
    BY DEF RunTimeSaved
  <2>1. c \in RunBlocks /\ clk[c] \in Nat /\ stored[c] \in Nat /\ BlockOf(c) = c
    BY NVMSchedAssumption
    DEF AInv, Numbers, Entries, RunBlocks, BlockOf, Device, Based, Extended, LastAxis
  <2>2. Since(c) \in 0..(Interval - 1)
    BY <2>1, SinceRange DEF Since
  <2> QED
    BY <2>1, <2>2, NVMSchedAssumption DEF AInv, AgeInv, RunTimeCurrent, Accumulated
<1> QED
  BY <1>1, <1>2, <1>3, PTL DEF Spec

-----------------------------------------------------------------------------
(***************************************************************************)
(* The save for a loss of the mains.                                       *)
(***************************************************************************)
\* The flag of a save for a loss is set only after both signals were clear, or
\* an interval later; a signal that is clear counts from that moment, and the
\* loop looks at the second one only if the first was.
LossInv ==
  /\ lossFlag \in BOOLEAN /\ lossTime \in Nat /\ clk[Device] \in Nat
  /\ lossFlag => cleared = Signals \/ clk[Device] - lossTime >= Interval
  /\ lost \subseteq Signals /\ cleared \subseteq Signals /\ Signals \ lost \subseteq cleared
  /\ At("warning") => "status" \in cleared

LEMMA LossKept ==
  ASSUME Place, Numbers, LossInv, [Next]_vars
  PROVE  LossInv'
<1>1. Interval \in Nat /\ clk \in [RunBlocks -> Nat] /\ clk' \in [RunBlocks -> Nat]
      /\ Device \in RunBlocks
  BY NVMSchedAssumption, BlockNumbers, NumbersKept DEF Numbers
<1> USE <1>1 DEF LossInv
<1>2. CASE SaveOnLoss
  BY <1>2 DEF SaveOnLoss, world, At, Goto
<1>3. CASE LookAtWarning
  BY <1>3 DEF LookAtWarning, Enable, world, Signals, At, Goto
<1>11. CASE LookAtInterval
  <2>1. UNCHANGED <<lossTime, lost, cleared, clk>> /\ ~At("warning")'
    BY <1>11 DEF LookAtInterval, Enable, world, At, Goto
  <2>2. /\ lossFlag' \in BOOLEAN
        /\ lossFlag' => lossFlag \/ clk[Device] - lossTime >= Interval
    BY <1>11 DEF LookAtInterval, Enable
  <2>3. lossFlag' => cleared' = Signals \/ clk'[Device] - lossTime' >= Interval
    BY <2>1, <2>2
  <2> QED
    BY <2>1, <2>2, <2>3
<1>12. CASE LookAtStatus
  BY <1>12 DEF LookAtStatus, loss, world, Signals, At, Goto
<1>13. CASE LookAtLoss \/ LookAtCommand
  BY <1>13 DEF LookAtLoss, LookAtCommand, loss, world, At, Goto
<1>4. CASE Copy \/ Write
  BY <1>4 DEF Copy, Write, loss, world, At, Goto
<1>5. CASE LookAtAxes \/ LookAtSupplier \/ ClearFlag
  BY <1>5 DEF LookAtAxes, LookAtSupplier, ClearFlag, AfterHistory, loss, world, At, Goto
<1>6. CASE LookAtClock \/ Compare \/ Stamp
  BY <1>6 DEF LookAtClock, Compare, Stamp, NextClock, loss, world, At, Goto
<1>7. CASE Record
  BY <1>7 DEF Record, loss, world, At
<1>8. CASE Second
  <2>1. clk'[Device] = clk[Device] + 1
    BY <1>8 DEF Second
  <2>2. UNCHANGED <<lossFlag, lossTime, lost, cleared, pc>>
    BY <1>8 DEF Second, loop
  <2> QED
    BY <2>1, <2>2 DEF At
<1>9. CASE Mains
  BY <1>9 DEF Mains, loop, At
<1>10. CASE Order \/ Allow \/ UNCHANGED vars
  BY <1>10 DEF Order, Allow, vars, loop, world, At
<1> QED
  BY <1>2, <1>3, <1>4, <1>5, <1>6, <1>7, <1>8, <1>9, <1>10, <1>11, <1>12, <1>13
  DEF Next, Pass, LookAtMains

\* While one of its two signals goes on, a loss of the mains triggers one save
\* for each interval: LossSavedOnce holds of every step.
THEOREM OneSaveForALoss == Spec => LossSavedOnce
<1> DEFINE IInv == Place /\ Numbers /\ LossInv
           Rare == lossFlag /\ ~lossFlag' =>
                     cleared = Signals \/ command \/ clk[Device] - lossTime >= Interval
<1>1. Init => IInv
  BY BlockNumbers DEF Init, Place, Numbers, LossInv, Steps, At, Entries
<1>2. IInv /\ [Next]_vars => IInv'
  BY PlaceKept, NumbersKept, LossKept
<1>3. IInv /\ [Next]_vars => [Rare]_vars
  BY DEF LossInv
<1> QED
  BY <1>1, <1>2, <1>3, PTL DEF Spec, LossSavedOnce

-----------------------------------------------------------------------------
(***************************************************************************)
(* The types.                                                              *)
(***************************************************************************)
\* The sets hold blocks of their kind.
SetsInv ==
  /\ flags \subseteq HistoryBlocks /\ copied \subseteq HistoryBlocks
  /\ kept \subseteq HistoryBlocks /\ lapses \subseteq 0..Extended
  /\ passed \subseteq RunBlocks
  /\ command \in BOOLEAN /\ allowed \in BOOLEAN

LEMMA SetsKept ==
  ASSUME Place, LossInv, SetsInv, [Next]_vars
  PROVE  SetsInv'
<1>1. /\ HistoryBlocks \subseteq 0..Extended /\ RunBlocks \subseteq 0..Extended
      /\ Erring \subseteq HistoryBlocks /\ {Device} \cup Running \subseteq RunBlocks
      /\ pc.block \in 0..Extended /\ (At("due") => pc.block \in RunBlocks)
  BY NVMSchedAssumption, BlockNumbers
  DEF Place, RunBlocks, HistoryBlocks, Supplier, Device, Based, Extended
<1> USE <1>1 DEF SetsInv
<1>2. CASE LookAtMains
  BY <1>2
  DEF errors, loss, world, LookAtMains, LookAtLoss, LookAtCommand, SaveOnLoss,
      LookAtInterval, LookAtStatus, LookAtWarning, Enable
<1>3. CASE Copy
  BY <1>3 DEF Copy, loss, world
<1>4. CASE Write
  BY <1>4 DEF Write, loss, world
<1>5. CASE LookAtAxes \/ LookAtSupplier
  BY <1>5 DEF LookAtAxes, LookAtSupplier, errors, loss, world
<1>6. CASE ClearFlag
  BY <1>6 DEF ClearFlag, Cleared, loss, world
<1>7. CASE LookAtClock
  BY <1>7 DEF LookAtClock, errors, loss, world
<1>8. CASE Compare \/ Stamp
  BY <1>8 DEF Compare, Stamp, errors, loss, world
<1>9. CASE Record
  BY <1>9 DEF Record, loss, world
<1>10. CASE Second
  BY <1>10 DEF Second, loop, errors, loss
<1>11. CASE Mains
  BY <1>11 DEF Mains, loop, errors, loss
<1>12. CASE Order \/ Allow \/ UNCHANGED vars
  BY <1>12 DEF Order, Allow, vars, loop, errors, loss, world
<1> QED
  BY <1>2, <1>3, <1>4, <1>5, <1>6, <1>7, <1>8, <1>9, <1>10, <1>11, <1>12 DEF Next, Pass

\* The variables of the scheduler have their types, for any axes and interval.
THEOREM NVMSchedTypeCorrect == Spec => []TypeOK
<1> DEFINE IInv == Numbers /\ LossInv /\ SetsInv /\ WInv
<1>1. Init => IInv
  <2> SUFFICES ASSUME Init PROVE IInv
    OBVIOUS
  <2>1. WInv
    BY BlockNumbers DEF Init, WInv, WearInv, Place, Steps, At, Saving
  <2>2. Numbers /\ LossInv /\ SetsInv
    BY BlockNumbers DEF Init, Numbers, Entries, LossInv, SetsInv, At
  <2> QED
    BY <2>1, <2>2
<1>2. IInv /\ [Next]_vars => IInv'
  <2>1. WInv => Place
    BY DEF WInv
  <2> QED
    BY <2>1, WearInvStep, NumbersKept, LossKept, SetsKept
<1>3. IInv => TypeOK
  BY DEF Numbers, LossInv, SetsInv, WInv, Place, Steps, TypeOK
<1> QED
  BY <1>1, <1>2, <1>3, PTL DEF Spec
=============================================================================
