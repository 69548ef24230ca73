--------------------------- MODULE FileManProofs ----------------------------
(***************************************************************************)
(* The directory and its sectors for every disk, every size of packets and *)
(* any number of transfers, with the firmware update beside them: names    *)
(* stay unique as long as only listed files are deleted, and a transfer    *)
(* touches no other file's sectors as long as none is.  The lemmas about   *)
(* the searches, the entry being written and the directory and the flash a *)
(* packet leaves also carry StoredProofs.                                  *)
(***************************************************************************)
EXTENDS Firmware, TLAPS, WellFoundedInduction

Stream == Seq(Nat \X Nat)
Entry == [name : Names \cup {NoName}, sector : Sectors, size : Nat, crc : Stream]

\* The records of the directory, the write position and the session.
DirShape(d) ==
  /\ d = [total |-> d.total, occupy |-> d.occupy, table |-> d.table, info |-> d.info]
  /\ d.total \in 0..N
  /\ d.info \in [Sectors -> Entry]

WriteState == [index : Sectors \cup {NotFound}, offset : Nat, sector : Nat,
               addr : Nat, crc : Stream, firstIn : BOOLEAN]
WrShape == wr \in WriteState

Kinds == {"none", "write", "delete", "format", "firmware"}

ClientShape ==
  /\ client \in [phase : {"idle", "open"}, kind : Kinds,
                 name : Names \cup {NoName}, sent : Stream]
  /\ transfers \in Nat

UniqueIn(d) ==
  \A i, j \in Sectors : i < d.total /\ j < d.total /\ d.info[i].name = d.info[j].name => i = j

\* A transfer that is open knows its entry: a listed one, or the first free
\* one, whose name is not listed yet.
Opened ==
  client.phase = "open" =>
    /\ client.kind # "none"
    /\ client.kind \in {"format", "firmware"} => wr.index = NotFound
    /\ client.kind \in {"write", "delete"} =>
         /\ wr.index \in Sectors /\ client.name \in Names
         /\ dir.info[wr.index].name = client.name
         /\ IF existFlag THEN wr.index < dir.total
            ELSE /\ wr.index = dir.total
                 /\ \A i \in Sectors : i < dir.total => dir.info[i].name # client.name
    /\ client.kind = "delete" => existFlag

NInv ==
  /\ DirShape(dir) /\ UniqueIn(dir)
  /\ disk # NoDir => DirShape(disk) /\ UniqueIn(disk)
  /\ fileNum = dir.total
  /\ existFlag \in BOOLEAN
  /\ WrShape /\ ClientShape /\ Opened

-----------------------------------------------------------------------------
(***************************************************************************)
(* The searches in the directory.                                          *)
(***************************************************************************)
LEMMA LessThanWellFounded ==
  \E R : IsWellFoundedOn(R, Nat) /\ \A x, y \in Nat : y < x => <<y, x>> \in R
<1>1. IsWellFoundedOn(OpToRel(<, Nat), Nat)
  BY NatLessThanWellFounded
<1>2. \A x, y \in Nat : y < x => <<y, x>> \in OpToRel(<, Nat)
  BY DEF OpToRel
<1> QED
  BY <1>1, <1>2

\* The lowest of some numbers is one of them and not above any.
LEMMA LowestIs ==
  ASSUME NEW set, set \subseteq Nat, set # {}
  PROVE  Lowest(set) \in set /\ \A x \in set : Lowest(set) <= x
<1>1. PICK R : IsWellFoundedOn(R, Nat) /\ \A x, y \in Nat : y < x => <<y, x>> \in R
  BY LessThanWellFounded
<1>2. \A x, y \in Nat : y < x => <<y, x>> \in R
  BY <1>1
<1>3. PICK m \in set : \A y \in set : ~(<<y, m>> \in R)
  BY <1>1, WFMin
<1>4. \A y \in set : m <= y
  <2> SUFFICES ASSUME NEW y \in set PROVE ~(y < m)
    OBVIOUS
  <2> QED
    BY <1>2, <1>3
<1> QED
  BY <1>4 DEF Lowest

LEMMA SectorNumbers ==
  /\ Sectors \subseteq Nat /\ NotFound \notin Sectors /\ 0 \in Sectors
  /\ N \in Nat /\ N < NotFound /\ NotFound \in Nat
  /\ \A n \in Nat : n < N <=> n \in Sectors
<1>1. NotFound \in Nat
  BY DEF NotFound
<1> QED
  BY <1>1, SizesAssumption DEF Sectors

\* A sector found is at or past the place the search starts and has the owner.
LEMMA FirstAtFinds ==
  ASSUME NEW table, NEW from \in Nat, NEW owner, FirstAt(table, from, owner) # NotFound
  PROVE  /\ FirstAt(table, from, owner) \in Sectors
         /\ FirstAt(table, from, owner) >= from
         /\ table[FirstAt(table, from, owner)] = owner
<1> DEFINE hits == {s \in from..(N - 1) : table[s] = owner}
<1>1. hits # {} /\ FirstAt(table, from, owner) = Lowest(hits)
  BY DEF FirstAt
<1>2. hits \subseteq Nat
  OBVIOUS
<1>3. Lowest(hits) \in hits
  BY <1>1, <1>2, LowestIs
<1> QED
  BY <1>1, <1>3, SectorNumbers DEF Sectors

\* A name found is the name of a listed entry; one that is not found is not listed.
LEMMA FileFound ==
  ASSUME NEW d, NEW count \in Nat, NEW name,
         NEW found, found = FindFile(d, count, name), found # NotFound
  PROVE  found \in Sectors /\ found < count /\ d.info[found].name = name
<1> DEFINE hits == {i \in Sectors : i < count /\ d.info[i].name = name}
<1>1. hits # {} /\ found = Lowest(hits)
  BY DEF FindFile
<1>2. hits \subseteq Nat
  BY SectorNumbers
<1>3. found \in hits
  BY <1>1, <1>2, LowestIs
<1> QED
  BY <1>3

LEMMA FileMissing ==
  ASSUME NEW d, NEW count \in Nat, NEW name, FindFile(d, count, name) = NotFound,
         NEW i \in Sectors, i < count
  PROVE  d.info[i].name # name
<1> DEFINE hits == {j \in Sectors : j < count /\ d.info[j].name = name}
<1>1. FindFile(d, count, name) = IF hits = {} THEN NotFound ELSE Lowest(hits)
  BY DEF FindFile
<1>2. hits \subseteq Nat
  BY SectorNumbers
<1>3. hits # {} => Lowest(hits) \in hits
  BY <1>2, LowestIs
<1>4. hits = {}
  BY <1>1, <1>3, SectorNumbers
<1> QED
  BY <1>4

-----------------------------------------------------------------------------
(***************************************************************************)
(* Names: what the handlers do to the entries and the counts.              *)
(***************************************************************************)
\* Two directories that agree on the names of the listed entries and their
\* number are both without duplicates, or both with.
LEMMA SameNames ==
  ASSUME NEW d, NEW e, UniqueIn(d), e.total = d.total,
         \A i \in Sectors : i < d.total => e.info[i].name = d.info[i].name
  PROVE  UniqueIn(e)
BY DEF UniqueIn

LEMMA AddFileNames ==
  ASSUME NInv, NEW name \in Names, NEW add, add = AddFile(name)
  PROVE  /\ add.index \in Sectors \cup {NotFound} /\ add.exist \in BOOLEAN
         /\ DirShape(add.dir) /\ add.dir.total = dir.total
         /\ \A i \in Sectors : i < dir.total => add.dir.info[i] = dir.info[i]
         /\ add.index # NotFound =>
              /\ add.dir.info[add.index].name = name
              /\ IF add.exist THEN add.index < dir.total
                 ELSE /\ add.index = dir.total
                      /\ \A i \in Sectors : i < dir.total => dir.info[i].name # name
<1> DEFINE found == FindFile(dir, fileNum, name)
           free == FirstAt(dir.table, 0, 0)
           idx == dir.total
           refused == [index |-> NotFound, dir |-> dir, exist |-> existFlag]
<1>1. fileNum \in Nat /\ fileNum = dir.total /\ DirShape(dir) /\ existFlag \in BOOLEAN
  BY SectorNumbers DEF NInv, DirShape
<1>2. /\ found # NotFound =>
           found \in Sectors /\ found < dir.total /\ dir.info[found].name = name
      /\ found = NotFound => \A i \in Sectors : i < dir.total => dir.info[i].name # name
  <2>1. CASE found # NotFound
    <3>1. found = FindFile(dir, fileNum, name)
      OBVIOUS
    <3> HIDE DEF found
    <3> QED
      BY <1>1, <2>1, <3>1, FileFound
  <2>2. CASE found = NotFound
    <3> SUFFICES ASSUME NEW i \in Sectors, i < dir.total PROVE dir.info[i].name # name
      BY <2>2
    <3> QED
      BY <1>1, <2>2, FileMissing
  <2> QED
    BY <2>1, <2>2
<1>3. CASE add = refused
  BY <1>1, <1>3
<1>4. CASE fileNum < N /\ found # NotFound
  <2>1. add = [refused EXCEPT !.index = found, !.exist = TRUE]
    BY <1>1, <1>4, SectorNumbers DEF AddFile
  <2>2. add.index = found /\ add.dir = dir /\ add.exist = TRUE
    BY <2>1
  <2> QED
    BY <1>1, <1>2, <1>4, <2>2
<1>5. CASE fileNum < N /\ found = NotFound /\ free # NotFound
  <2>1. free \in Sectors
    BY <1>5, FirstAtFinds
  <2>2. idx \in Sectors
    BY <1>1, <1>5, SectorNumbers
  <2> DEFINE entry == [dir.info[idx] EXCEPT !.name = name, !.sector = free, !.size = 0]
             new == [total |-> dir.total, occupy |-> dir.occupy,
                     table |-> [dir.table EXCEPT ![free] = idx + 1],
                     info |-> [dir.info EXCEPT ![idx] = entry]]
  <2>3. add.index = idx /\ add.exist = FALSE /\ add.dir = new
    <3>1. add = [index |-> idx,
                 dir |-> [Claim(dir, free, idx) EXCEPT !.info[idx] =
                            [@ EXCEPT !.name = name, !.sector = free, !.size = 0]],
                 exist |-> FALSE]
      BY <1>1, <1>5, SectorNumbers DEF AddFile
    <3>2. Claim(dir, free, idx) = [total |-> dir.total, occupy |-> dir.occupy,
             table |-> [dir.table EXCEPT ![free] = idx + 1], info |-> dir.info]
      BY <1>1 DEF Claim, DirShape
    <3> HIDE DEF free, idx
    <3>3. [Claim(dir, free, idx) EXCEPT !.info[idx] =
             [@ EXCEPT !.name = name, !.sector = free, !.size = 0]] = new
      BY <3>2
    <3> QED
      BY <3>1, <3>3
  <2>4. entry \in Entry /\ entry.name = name
    <3>1. dir.info[idx] \in Entry
      BY <1>1, <2>2 DEF DirShape
    <3> HIDE DEF free, idx
    <3> QED
      BY <2>1, <3>1, ValuesAssumption DEF Entry
  <2>5. new.info \in [Sectors -> Entry] /\ new.info[idx] = entry
    BY <1>1, <2>2, <2>4 DEF DirShape
  <2> HIDE DEF entry, free
  <2>6. \A i \in Sectors : i < dir.total => new.info[i] = dir.info[i]
    BY <1>1, <2>2 DEF DirShape
  <2>7. DirShape(new)
    BY <1>1, <2>5 DEF DirShape
  <2>8. new.total = dir.total /\ idx \in Sectors /\ idx = dir.total
    BY <2>2
  <2> HIDE DEF new, idx, found
  <2>9. DirShape(add.dir) /\ add.dir.total = dir.total /\ add.index \in Sectors
    BY <2>3, <2>7, <2>8
  <2>10. \A i \in Sectors : i < dir.total => add.dir.info[i] = dir.info[i]
    BY <2>3, <2>6
  <2>11. add.dir.info[add.index].name = name
    BY <2>3, <2>4, <2>5
  <2> QED
    BY <1>2, <1>5, <2>3, <2>8, <2>9, <2>10, <2>11
<1>6. add = refused \/ (fileNum < N /\ (found # NotFound \/ free # NotFound))
  BY <1>1, SectorNumbers DEF AddFile
<1> QED
  BY <1>3, <1>4, <1>5, <1>6

\* The parts of WriteOutcome that its directory and its writing position need.
Offset(units) == wr.offset + Len(units)
Over(units) ==
  IF Offset(units) > S * (wr.sector + 1) THEN Offset(units) - S * (wr.sector + 1) ELSE 0
Start == IF wr.firstIn THEN dir.info[wr.index].sector * S ELSE wr.addr
Following(units) ==
  IF Over(units) > 0 THEN NextWriteSector(dir, existFlag, wr.index, Start) ELSE NotFound
Full(units) == Over(units) > 0 /\ Following(units) = NotFound
Crosses(units) == Over(units) > 0 /\ ~Full(units)
Grown(units) == IF Crosses(units) THEN Claim(dir, Following(units), wr.index) ELSE dir

After(units) ==
  [wr EXCEPT !.offset = Offset(units),
             !.sector = IF Crosses(units) THEN @ + 1 ELSE @,
             !.addr = IF Crosses(units) THEN Following(units) * S + Over(units)
                      ELSE Start + Len(SubSeq(units, 1, Len(units) - Over(units))),
             !.crc = IF Full(units) THEN @ ELSE wr.crc \o units,
             !.firstIn = FALSE]
Commits(units, more) == ~more /\ ~Full(units)
Final(units, more) ==
  IF Commits(units, more)
  THEN Commit(Grown(units), fileNum, existFlag, wr.index, Offset(units), wr.crc \o units)
  ELSE Grown(units)

LEMMA OutcomeIs ==
  ASSUME NEW units, NEW more, NEW out, out = WriteOutcome(units, more)
  PROVE  /\ out.start = Start /\ out.over = Over(units) /\ out.full = Full(units)
         /\ out.crosses = Crosses(units) /\ out.commits = Commits(units, more)
         /\ out.grown = Grown(units)
         /\ out.dir = Final(units, more)
         /\ out.wr = After(units)
BY Zenon DEF WriteOutcome, Start, Offset, Over, Following, Full, Crosses, Grown, After,
             Commits, Final

LEMMA CommitNames ==
  ASSUME NEW d, DirShape(d), UniqueIn(d), NEW exist \in BOOLEAN, NEW idx \in Sectors,
         NEW size \in Nat, NEW crc \in Stream, NEW e,
         e = Commit(d, d.total, exist, idx, size, crc),
         ~exist => /\ idx = d.total
                   /\ \A i \in Sectors : i < d.total => d.info[i].name # d.info[idx].name
  PROVE  /\ DirShape(e) /\ UniqueIn(e)
         /\ e.total = IF exist THEN d.total ELSE d.total + 1
         /\ e.info = [d.info EXCEPT ![idx] = [@ EXCEPT !.size = size, !.crc = crc]]
<1> DEFINE entry == [d.info[idx] EXCEPT !.size = size, !.crc = crc]
           info == [d.info EXCEPT ![idx] = entry]
<1>1. e = [total |-> IF exist THEN d.total ELSE d.total + 1,
           occupy |-> e.occupy, table |-> e.table, info |-> e.info]
      /\ e.info = [d.info EXCEPT ![idx].size = size, ![idx].crc = crc]
  BY DEF Commit
<1>2. d.info[idx] \in Entry /\ d.total \in 0..N /\ d.info \in [Sectors -> Entry]
  BY DEF DirShape
<1>3. e.info = info
  BY <1>1, <1>2 DEF Entry
<1>4. entry \in Entry /\ entry.name = d.info[idx].name
  BY <1>2 DEF Entry
<1>5. e.info \in [Sectors -> Entry] /\ \A i \in Sectors : e.info[i].name = d.info[i].name
  BY <1>2, <1>3, <1>4
<1>6. e.total = IF exist THEN d.total ELSE d.total + 1
  BY <1>1
<1>7. e.total \in 0..N
  BY <1>2, <1>6, SectorNumbers
<1>8. DirShape(e)
  BY <1>1, <1>5, <1>6, <1>7 DEF DirShape
<1>9. UniqueIn(e)
  <2> SUFFICES ASSUME NEW i \in Sectors, NEW j \in Sectors, i < e.total, j < e.total,
                      e.info[i].name = e.info[j].name
               PROVE  i = j
    BY DEF UniqueIn
  <2>1. d.info[i].name = d.info[j].name /\ i \in Nat /\ j \in Nat
    BY <1>5, SectorNumbers
  <2>2. CASE exist
    BY <1>6, <2>1, <2>2 DEF UniqueIn
  <2>3. CASE ~exist
    <3>1. /\ i < d.total \/ i = idx
          /\ j < d.total \/ j = idx
      BY <1>2, <1>6, <2>1, <2>3
    <3> QED
      BY <2>1, <2>3, <3>1 DEF UniqueIn
  <2> QED
    BY <2>2, <2>3
<1> QED
  BY <1>3, <1>6, <1>8, <1>9

LEMMA Modulus ==
  ASSUME NEW m \in Nat, NEW x \in Nat, x < m
  PROVE  (x + m) % m = x
BY SMTT(30)

LEMMA DecrementIs ==
  ASSUME NEW n \in 1..N
  PROVE  Decrement(n) = n - 1
<1>1. Wrap \in Nat /\ n - 1 \in Nat /\ n - 1 < Wrap /\ n + Wrap - 1 = (n - 1) + Wrap
  BY SizesAssumption
<1> QED
  BY <1>1, Modulus DEF Decrement

LEMMA DeleteNames ==
  ASSUME DirShape(dir), UniqueIn(dir), fileNum = dir.total,
         NEW idx \in Sectors, idx < dir.total, NEW e, e = DeleteEntry(idx)
  PROVE  /\ DirShape(e) /\ UniqueIn(e)
         /\ e.total = Decrement(fileNum)
<1> DEFINE moved == [i \in Sectors |-> IF idx <= i /\ i < fileNum - 1
                                       THEN dir.info[i + 1] ELSE dir.info[i]]
<1>1. e = [total |-> Decrement(dir.total), occupy |-> e.occupy, table |-> e.table,
           info |-> IF fileNum = idx + 1 THEN [dir.info EXCEPT ![idx] = BlankInfo] ELSE moved]
  BY DEF DeleteEntry
<1>2. dir.total \in 1..N /\ dir.info \in [Sectors -> Entry] /\ idx \in Nat
  BY SectorNumbers DEF DirShape
<1>3. Decrement(dir.total) = dir.total - 1
  BY <1>2, DecrementIs
<1>4. BlankInfo \in Entry
  BY SectorNumbers DEF BlankInfo, Entry, Stream
<1>5. \A i \in Sectors : i < fileNum - 1 => i + 1 \in Sectors
  BY <1>2, SectorNumbers
<1>6. e.info \in [Sectors -> Entry]
  BY <1>1, <1>2, <1>4, <1>5
<1>7. e.total = dir.total - 1
  BY <1>1, <1>3
<1>8. e.total \in 0..N
  BY <1>2, <1>7, SectorNumbers
<1>9. DirShape(e)
  BY <1>1, <1>6, <1>8 DEF DirShape
<1>10. ASSUME NEW i \in Sectors, NEW j \in Sectors, i < e.total, j < e.total,
              e.info[i].name = e.info[j].name
       PROVE  i = j
  <2>1. i \in Nat /\ j \in Nat /\ i < fileNum - 1 /\ j < fileNum - 1
    BY <1>7, <1>10, SectorNumbers
  <2>2. CASE fileNum = idx + 1
    <3>1. e.info[i] = dir.info[i] /\ e.info[j] = dir.info[j]
      BY <1>1, <1>2, <2>1, <2>2
    <3> QED
      BY <1>2, <1>10, <2>1, <3>1 DEF UniqueIn
  <2>3. CASE fileNum # idx + 1
    <3> DEFINE p == IF idx <= i THEN i + 1 ELSE i
               q == IF idx <= j THEN j + 1 ELSE j
    <3>1. p \in Sectors /\ q \in Sectors /\ p < dir.total /\ q < dir.total
      BY <1>2, <1>5, <2>1
    <3>2. e.info[i] = dir.info[p] /\ e.info[j] = dir.info[q]
      BY <1>1, <2>1, <2>3
    <3>3. p = q
      BY <1>10, <3>1, <3>2 DEF UniqueIn
    <3> QED
      BY <1>2, <2>1, <3>3
  <2> QED
    BY <2>2, <2>3
<1> QED
  BY <1>1, <1>9, <1>10 DEF UniqueIn

-----------------------------------------------------------------------------
(***************************************************************************)
(* Names: one lemma for each handler.                                      *)
(***************************************************************************)
LEMMA ZeroDirNames == DirShape(ZeroDir) /\ UniqueIn(ZeroDir) /\ ZeroDir.total = 0
<1>1. BlankInfo \in Entry
  BY SectorNumbers DEF BlankInfo, Entry, Stream
<1>2. 0 \in 0..N
  BY SectorNumbers
<1> QED
  BY <1>1, <1>2, SectorNumbers DEF ZeroDir, DirShape, UniqueIn

LEMMA IdleShape == Idle \in [phase : {"idle", "open"}, kind : Kinds,
                             name : Names \cup {NoName}, sent : Stream]
BY DEF Idle, Kinds, Stream

LEMMA BootNames ==
  ASSUME NInv, NEW dk, dk # NoDir => DirShape(dk) /\ UniqueIn(dk), Boot(dk),
         transfers' = transfers
  PROVE  NInv'
<1>1. DirShape(LoadDir(dk)) /\ UniqueIn(LoadDir(dk))
  BY ZeroDirNames DEF LoadDir
<1>2. /\ disk' = dk /\ dir' = LoadDir(dk) /\ fileNum' = dir'.total
      /\ existFlag' = FALSE /\ wr' = NoWrite /\ client' = Idle
  BY DEF Boot
<1>3. DirShape(dir') /\ UniqueIn(dir')
  BY <1>1, <1>2
<1>4. WrShape'
  BY <1>2, SectorNumbers DEF WrShape, WriteState, NoWrite, Stream
<1>5. ClientShape' /\ Opened'
  BY <1>2, IdleShape DEF ClientShape, Opened, Idle, NInv
<1> QED
  BY <1>2, <1>3, <1>4, <1>5 DEF NInv, DirShape, UniqueIn

LEMMA PacketStream ==
  ASSUME ClientShape, NEW size \in Nat
  PROVE  Packet(size) \in Stream /\ Len(Packet(size)) = size
<1>1. Len(client.sent) \in Nat /\ transfers \in Nat
  BY DEF ClientShape, Stream
<1> QED
  BY <1>1 DEF Packet, Stream

LEMMA FreshShape ==
  ASSUME WrShape, NEW index \in Sectors \cup {NotFound}, wr' = Fresh(index)
  PROVE  WrShape' /\ wr'.index = index /\ wr'.offset = 0 /\ wr'.crc = <<>> /\ wr'.firstIn
<1>1. <<>> \in Stream
  BY DEF Stream
<1> QED
  BY <1>1 DEF WrShape, WriteState, Fresh

LEMMA OpenNames ==
  ASSUME NInv, "deleteMissing" \notin Ops, NEW name \in Names, NEW kind \in {"write", "delete"},
         OpenFile(name, kind)
  PROVE  NInv'
<1> DEFINE add == AddFile(name)
<1>1. /\ add.index \in Sectors \cup {NotFound} /\ add.exist \in BOOLEAN
      /\ DirShape(add.dir) /\ add.dir.total = dir.total
      /\ \A i \in Sectors : i < dir.total => add.dir.info[i] = dir.info[i]
      /\ add.index # NotFound =>
           /\ add.dir.info[add.index].name = name
           /\ IF add.exist THEN add.index < dir.total
              ELSE /\ add.index = dir.total
                   /\ \A i \in Sectors : i < dir.total => dir.info[i].name # name
  BY AddFileNames
<1>2. /\ dir' = add.dir /\ existFlag' = add.exist /\ wr' = Fresh(add.index)
      /\ client' = IF add.index = NotFound THEN Idle
                   ELSE [phase |-> "open", kind |-> kind, name |-> name, sent |-> <<>>]
      /\ disk' = disk /\ fileNum' = fileNum /\ transfers' = transfers + 1
      /\ Requests(name, kind)
  BY DEF OpenFile, flashVars
<1> HIDE DEF add
<1>3. UniqueIn(add.dir)
  BY <1>1, SameNames DEF NInv
<1>4. kind = "delete" => Listed(name)
  BY <1>2 DEF Requests
<1>5. WrShape' /\ wr'.index = add.index
  BY <1>1, <1>2, FreshShape DEF NInv
<1>6. ClientShape'
  BY <1>2, IdleShape DEF NInv, ClientShape, Kinds, Stream
<1>7. kind = "delete" /\ add.index # NotFound => add.exist
  <2> SUFFICES ASSUME kind = "delete", add.index # NotFound, ~add.exist PROVE FALSE
    BY <1>1
  <2>1. fileNum \in Nat /\ fileNum = dir.total
    BY SectorNumbers DEF NInv, DirShape
  <2>2. FindFile(dir, fileNum, name) # NotFound
    BY <1>4 DEF Listed
  <2> QED
    BY <1>1, <2>1, <2>2, FileFound
<1>8. Opened'
  <2>1. CASE add.index = NotFound
    BY <1>2, <2>1 DEF Opened, Idle
  <2>2. CASE add.index # NotFound
    <3>1. wr'.index = add.index /\ client'.phase = "open" /\ client'.kind = kind
          /\ client'.name = name
      BY <1>2, <1>5, <2>2
    <3>2. add.index \in Sectors
      BY <1>1, <2>2
    <3> QED
      BY <1>1, <1>2, <1>7, <2>2, <3>1, <3>2 DEF Opened
  <2> QED
    BY <2>1, <2>2
<1> QED
  BY <1>1, <1>2, <1>3, <1>5, <1>6, <1>8 DEF NInv, DirShape, UniqueIn

LEMMA DivisionNat ==
  ASSUME NEW m \in Nat, m > 0, NEW n \in Nat
  PROVE  n \div m \in Nat
<1>1. n \div m \in Int /\ n % m \in 0..(m - 1)
  OBVIOUS
<1>2. n = (n \div m) * m + (n % m)
  BY Z3T(20)
<1>3. ASSUME NEW q \in Int, q < 0 PROVE q * m <= -m
  BY <1>3, SMTT(20)
<1>4. ASSUME NEW q \in Int, NEW r \in 0..(m - 1), n = q * m + r PROVE q >= 0
  <2>1. q * m \in Int
    OBVIOUS
  <2>2. q < 0 => q * m <= -m
    BY <1>3
  <2> QED
    BY <1>4, <2>1, <2>2
<1> QED
  BY <1>1, <1>2, <1>4

LEMMA Products ==
  /\ S \in Nat /\ S > 0
  /\ \A n \in Nat : n * S \in Nat /\ S * (n + 1) \in Nat
  /\ \A n \in Nat : n \div S \in Nat
<1>1. S \in Nat /\ S > 0
  BY SizesAssumption
<1>2. \A n \in Nat : n * S \in Nat /\ S * (n + 1) \in Nat
  BY <1>1
<1>3. ASSUME NEW n \in Nat PROVE n \div S \in Nat
  BY <1>1, DivisionNat
<1> QED
  BY <1>1, <1>2, <1>3

\* The sector a file goes on in is one of the disk's.
LEMMA NextSectorFinds ==
  ASSUME NEW d, NEW exist, NEW idx, NEW addr \in Nat, NEW next,
         next = NextWriteSector(d, exist, idx, addr), next # NotFound
  PROVE  next \in Sectors /\ d.table[next] \in {0, idx + 1}
<1> DEFINE start == addr \div S
<1>1. start \in Nat /\ start + 1 \in Nat
  BY Products
<1>2. \/ next = FirstAt(d.table, start + 1, idx + 1)
      \/ next = FirstAt(d.table, start, 0)
  BY DEF NextWriteSector
<1> HIDE DEF start
<1>3. CASE next = FirstAt(d.table, start + 1, idx + 1)
  BY <1>1, <1>3, FirstAtFinds
<1>4. CASE next = FirstAt(d.table, start, 0)
  BY <1>1, <1>4, FirstAtFinds
<1> QED
  BY <1>2, <1>3, <1>4

LEMMA OutcomeParts ==
  ASSUME NInv, wr.index \in Sectors, NEW units \in Stream
  PROVE  /\ Offset(units) \in Nat /\ Over(units) \in Nat /\ Start \in Nat
         /\ Over(units) <= Offset(units)
         /\ Crosses(units) => /\ Following(units) \in Sectors
                              /\ dir.table[Following(units)] \in {0, wr.index + 1}
<1>1. /\ wr.offset \in Nat /\ wr.sector \in Nat /\ wr.addr \in Nat /\ Len(units) \in Nat
      /\ dir.info[wr.index].sector \in Nat
  BY SectorNumbers DEF NInv, WrShape, WriteState, DirShape, Entry, Stream
<1>2. S * (wr.sector + 1) \in Nat /\ dir.info[wr.index].sector * S \in Nat
  BY <1>1, Products
<1>3. Offset(units) \in Nat /\ Over(units) \in Nat /\ Over(units) <= Offset(units)
  BY <1>1, <1>2 DEF Offset, Over
<1>4. Start \in Nat
  BY <1>1, <1>2 DEF Start
<1>5. ASSUME Crosses(units)
      PROVE  Following(units) \in Sectors /\ dir.table[Following(units)] \in {0, wr.index + 1}
  BY <1>4, <1>5, NextSectorFinds DEF Crosses, Full, Following
<1> QED
  BY <1>3, <1>4, <1>5

LEMMA GrownNames ==
  ASSUME NInv, NEW units \in Stream, NEW g, g = Grown(units)
  PROVE  DirShape(g) /\ UniqueIn(g) /\ g.total = dir.total /\ g.info = dir.info
<1>1. g = [total |-> dir.total, occupy |-> dir.occupy, table |-> g.table, info |-> dir.info]
  BY DEF Grown, Claim, NInv, DirShape
<1>2. g.total = dir.total /\ g.info = dir.info /\ g.occupy = dir.occupy
  BY <1>1
<1> QED
  BY <1>1, <1>2 DEF NInv, DirShape, UniqueIn

\* The writing position behind a packet.
LEMMA OutcomePosition ==
  ASSUME NInv, wr.index \in Sectors, NEW units \in Stream
  PROVE  /\ After(units) \in WriteState /\ After(units).index = wr.index
         /\ Crosses(units) => After(units).addr >= Over(units)
<1> DEFINE addr == IF Crosses(units) THEN Following(units) * S + Over(units)
                   ELSE Start + Len(SubSeq(units, 1, Len(units) - Over(units)))
           sector == IF Crosses(units) THEN wr.sector + 1 ELSE wr.sector
           crc == IF Full(units) THEN wr.crc ELSE wr.crc \o units
<1>1. wr \in WriteState
  BY DEF NInv, WrShape
<1>2. /\ Offset(units) \in Nat /\ Over(units) \in Nat /\ Start \in Nat
      /\ Crosses(units) => Following(units) \in Sectors
  BY OutcomeParts
<1>3. addr \in Nat /\ (Crosses(units) => addr >= Over(units))
  <2>1. CASE Crosses(units)
    <3>1. Following(units) \in Nat
      BY <1>2, <2>1, SectorNumbers
    <3>2. Following(units) * S \in Nat
      BY <3>1, Products
    <3> QED
      BY <1>2, <2>1, <3>2
  <2>2. CASE ~Crosses(units)
    <3>1. SubSeq(units, 1, Len(units) - Over(units)) \in Stream
      BY <1>2 DEF Stream
    <3>2. Len(SubSeq(units, 1, Len(units) - Over(units))) \in Nat
      BY <3>1 DEF Stream
    <3> QED
      BY <1>2, <2>2, <3>2
  <2> QED
    BY <2>1, <2>2
<1>4. sector \in Nat
  BY <1>1 DEF WriteState
<1>5. crc \in Stream
  BY <1>1 DEF WriteState, Stream
<1>6. After(units) = [wr EXCEPT !.offset = Offset(units), !.sector = sector, !.addr = addr,
                                !.crc = crc, !.firstIn = FALSE]
  BY <1>1 DEF WriteState, After
<1> HIDE DEF addr, sector, crc
<1>7. After(units).addr = addr /\ After(units).index = wr.index
  BY <1>1, <1>6 DEF WriteState
<1>8. After(units) \in WriteState
  BY <1>1, <1>2, <1>3, <1>4, <1>5, <1>6 DEF WriteState
<1> QED
  BY <1>3, <1>7, <1>8

\* The directory behind a packet.
LEMMA FinalNames ==
  ASSUME NInv, wr.index \in Sectors, NEW units \in Stream, NEW more \in BOOLEAN,
         client.phase = "open", client.kind \in {"write", "delete"}
  PROVE  DirShape(Final(units, more)) /\ UniqueIn(Final(units, more))
<1> DEFINE g == Grown(units)
           crc == wr.crc \o units
           size == Offset(units)
           e == Final(units, more)
<1>1. DirShape(g) /\ UniqueIn(g) /\ g.total = dir.total /\ g.info = dir.info
  BY GrownNames
<1>2. crc \in Stream
  BY DEF NInv, WrShape, WriteState, Stream
<1>3. size \in Nat
  BY OutcomeParts
<1>4. e = IF Commits(units, more)
          THEN Commit(g, g.total, existFlag, wr.index, size, crc) ELSE g
  BY <1>1 DEF Final, NInv
<1>5. ~existFlag => /\ wr.index = g.total
                    /\ \A i \in Sectors : i < g.total => g.info[i].name # g.info[wr.index].name
  BY <1>1 DEF NInv, Opened
<1>6. existFlag \in BOOLEAN
  BY DEF NInv
<1> HIDE DEF g, crc, size, e
<1>7. ASSUME e = Commit(g, g.total, existFlag, wr.index, size, crc)
      PROVE  DirShape(e) /\ UniqueIn(e)
  BY <1>1, <1>2, <1>3, <1>5, <1>6, <1>7, CommitNames
<1> QED
  BY <1>1, <1>4, <1>7 DEF e

LEMMA OutcomeNames ==
  ASSUME NInv, wr.index \in Sectors, NEW units \in Stream, NEW more \in BOOLEAN,
         client.phase = "open", client.kind \in {"write", "delete"},
         NEW out, out = WriteOutcome(units, more)
  PROVE  /\ DirShape(out.grown) /\ UniqueIn(out.grown) /\ out.grown.total = dir.total
         /\ out.grown.info = dir.info
         /\ DirShape(out.dir) /\ UniqueIn(out.dir)
         /\ ~out.commits => out.dir = out.grown
         /\ out.wr \in WriteState /\ out.wr.index = wr.index
         /\ out.start \in Nat /\ out.over \in Nat /\ (out.crosses => out.wr.addr >= out.over)
<1>1. /\ out.start = Start /\ out.over = Over(units)
      /\ out.crosses = Crosses(units) /\ out.commits = Commits(units, more)
      /\ out.grown = Grown(units) /\ out.dir = Final(units, more) /\ out.wr = After(units)
  BY OutcomeIs, ZenonT(60)
<1>2. Start \in Nat /\ Over(units) \in Nat
  BY OutcomeParts
<1>3. /\ out.wr \in WriteState /\ out.wr.index = wr.index
      /\ Crosses(units) => out.wr.addr >= Over(units)
  BY <1>1, OutcomePosition
<1>4. out.crosses => out.wr.addr >= out.over
  BY <1>1, <1>3, Zenon
<1>5. /\ DirShape(out.grown) /\ UniqueIn(out.grown) /\ out.grown.total = dir.total
      /\ out.grown.info = dir.info
  BY <1>1, GrownNames
<1>6. DirShape(out.dir) /\ UniqueIn(out.dir)
  BY <1>1, FinalNames
<1>7. ~out.commits => out.dir = out.grown
  BY <1>1, Zenon DEF Final
<1> QED
  BY <1>1, <1>2, <1>3, <1>4, <1>5, <1>6, <1>7

\* What a packet or an error leaves of the session.
LEMMA AcceptedShape ==
  ASSUME ClientShape, NEW size \in Nat, NEW more \in BOOLEAN, Accepted(size, more),
         transfers' = transfers
  PROVE  /\ ClientShape'
         /\ ~more => client' = Idle
         /\ more => /\ client'.phase = client.phase /\ client'.kind = client.kind
                    /\ client'.name = client.name
<1>1. Packet(size) \in Stream
  BY PacketStream
<1>2. client.sent \o Packet(size) \in Stream
  BY <1>1 DEF ClientShape, Stream
<1>3. CASE more
  <2> DEFINE sent == client.sent \o Packet(size)
  <2>1. client' = [client EXCEPT !.sent = sent]
    BY <1>3 DEF Accepted
  <2> HIDE DEF sent
  <2> QED
    BY <1>2, <1>3, <2>1 DEF ClientShape, sent
<1>4. CASE ~more
  BY <1>4, IdleShape DEF Accepted, ClientShape
<1> QED
  BY <1>3, <1>4

LEMMA EndedShape ==
  ASSUME ClientShape, client' = Idle, transfers' = transfers
  PROVE  ClientShape' /\ Opened'
BY IdleShape DEF ClientShape, Opened, Idle

LEMMA StaysOpened ==
  ASSUME Opened, dir'.info = dir.info, dir'.total = dir.total, existFlag' = existFlag,
         wr'.index = wr.index, client'.phase = client.phase, client'.kind = client.kind,
         client'.name = client.name
  PROVE  Opened'
BY Zenon DEF Opened

\* Which transfers reach the update area: those of an image or of a format.
LEMMA UpdateKind ==
  ASSUME NInv, NEW size, NEW more, UpdatePacket(size, more)
  PROVE  client.phase = "open" /\ client.kind \in {"format", "firmware"}
<1>1. client.phase = "open" /\ wr.index = NotFound
  BY DEF UpdatePacket
<1>2. client.kind \in Kinds /\ NotFound \notin Sectors
  BY SectorNumbers DEF NInv, ClientShape
<1> QED
  BY <1>1, <1>2 DEF NInv, Opened, Kinds

\* Which transfers can write data: those of an opened file.
LEMMA WritingFile ==
  ASSUME NInv, NEW size, NEW more, WritesData(size, more)
  PROVE  client.phase = "open" /\ client.kind = "write" /\ wr.index \in Sectors
BY DEF WritesData, Sends, NInv, WrShape, WriteState, ClientShape, Kinds, Opened

LEMMA DataPacketNames ==
  ASSUME NInv, NEW size \in Nat, NEW more \in BOOLEAN, DataPacket(size, more)
  PROVE  NInv'
<1> DEFINE out == WriteOutcome(Packet(size), more)
<1>1. /\ dir' = out.dir /\ wr' = out.wr /\ disk' = IF out.commits THEN out.dir ELSE disk
      /\ fileNum' = IF out.commits THEN out.dir.total ELSE fileNum
      /\ existFlag' = IF out.commits THEN FALSE ELSE existFlag
      /\ IF out.full THEN Rejected ELSE Accepted(size, more)
      /\ transfers' = transfers /\ WritesData(size, more)
      /\ out.commits = (~more /\ ~out.full)
  <2>1. out.commits = Commits(Packet(size), more) /\ out.full = Full(Packet(size))
    BY OutcomeIs, Zenon
  <2>2. out.commits = (~more /\ ~out.full)
    BY <2>1, Zenon DEF Commits
  <2> QED
    BY <2>2 DEF DataPacket
<1>2. client.phase = "open" /\ client.kind = "write" /\ wr.index \in Sectors
  BY <1>1, WritingFile
<1>3. Packet(size) \in Stream
  BY PacketStream DEF NInv
<1>4. /\ out.grown.total = dir.total /\ out.grown.info = dir.info
      /\ DirShape(out.dir) /\ UniqueIn(out.dir)
      /\ ~out.commits => out.dir = out.grown
      /\ out.wr \in WriteState /\ out.wr.index = wr.index
  BY <1>2, <1>3, OutcomeNames
<1> HIDE DEF out
<1>5. DirShape(dir') /\ UniqueIn(dir') /\ WrShape' /\ existFlag' \in BOOLEAN
  BY <1>1, <1>4 DEF NInv, WrShape
<1>6. fileNum' = dir'.total
  BY <1>1, <1>4 DEF NInv
<1>7. disk' # NoDir => DirShape(disk') /\ UniqueIn(disk')
  BY <1>1, <1>4 DEF NInv
<1>8. ClientShape' /\ Opened'
  <2>1. CASE out.full
    BY <1>1, <2>1, EndedShape DEF NInv, Rejected
  <2>2. CASE ~out.full /\ ~more
    BY <1>1, <2>2, AcceptedShape, EndedShape DEF NInv
  <2>3. CASE ~out.full /\ more
    <3>1. /\ ClientShape' /\ client'.phase = client.phase /\ client'.kind = client.kind
          /\ client'.name = client.name
      BY <1>1, <2>3, AcceptedShape DEF NInv
    <3>2. dir'.info = dir.info /\ dir'.total = dir.total /\ existFlag' = existFlag
          /\ wr'.index = wr.index
      BY <1>1, <1>4, <2>3
    <3> QED
      BY <3>1, <3>2, StaysOpened DEF NInv
  <2> QED
    BY <2>1, <2>2, <2>3
<1> QED
  BY <1>5, <1>6, <1>7, <1>8 DEF NInv, DirShape, UniqueIn

LEMMA FailedDataWriteNames ==
  ASSUME NInv, NEW size \in Nat, NEW more \in BOOLEAN, FailedDataWrite(size, more)
  PROVE  NInv'
<1> DEFINE out == WriteOutcome(Packet(size), more)
<1>1. client' = Idle /\ transfers' = transfers /\ WritesData(size, more)
  BY DEF FailedDataWrite, Rejected
<1>2. \/ /\ wr' = [out.wr EXCEPT !.addr = out.start, !.sector = wr.sector, !.crc = wr.crc]
         /\ UNCHANGED <<disk, dir, fileNum, existFlag>>
      \/ /\ out.crosses /\ dir' = out.grown
         /\ wr' = [out.wr EXCEPT !.addr = @ - out.over, !.sector = wr.sector, !.crc = wr.crc]
         /\ UNCHANGED <<disk, fileNum, existFlag>>
      \/ /\ wr' = out.wr /\ disk' = NoDir /\ dir' = out.dir
         /\ fileNum' = out.dir.total /\ existFlag' = FALSE
  BY Zenon DEF FailedDataWrite
<1>3. client.phase = "open" /\ client.kind = "write" /\ wr.index \in Sectors
  BY <1>1, WritingFile
<1>4. Packet(size) \in Stream
  BY PacketStream DEF NInv
<1>5. /\ DirShape(out.grown) /\ UniqueIn(out.grown) /\ out.grown.total = dir.total
      /\ DirShape(out.dir) /\ UniqueIn(out.dir)
      /\ out.wr \in WriteState /\ out.wr.index = wr.index
      /\ out.start \in Nat /\ out.over \in Nat /\ (out.crosses => out.wr.addr >= out.over)
  BY <1>3, <1>4, OutcomeNames
<1> HIDE DEF out
<1>6. wr.sector \in Nat /\ wr.crc \in Stream
  BY DEF NInv, WrShape, WriteState
<1>7. out.crosses => out.wr.addr - out.over \in Nat
  BY <1>5 DEF WriteState
<1>8. WrShape'
  BY <1>2, <1>5, <1>6, <1>7 DEF WrShape, WriteState
<1>9. /\ DirShape(dir') /\ UniqueIn(dir') /\ fileNum' = dir'.total /\ existFlag' \in BOOLEAN
      /\ disk' # NoDir => DirShape(disk') /\ UniqueIn(disk')
  BY <1>2, <1>5 DEF NInv
<1>10. ClientShape' /\ Opened'
  BY <1>1, EndedShape DEF NInv
<1> QED
  BY <1>8, <1>9, <1>10 DEF NInv, DirShape, UniqueIn

\* A step that leaves the directories alone.
LEMMA FrameNames ==
  ASSUME NInv, UNCHANGED <<dir, disk, fileNum, existFlag>>, WrShape', ClientShape', Opened'
  PROVE  NInv'
BY DEF NInv, DirShape, UniqueIn

\* What a further packet, or none, leaves of the writing position.
LEMMA OffsetShape ==
  ASSUME WrShape, NEW size \in Nat, NEW offset, offset = wr.offset + size,
         \/ wr' = wr
         \/ wr' = [wr EXCEPT !.offset = offset]
         \/ wr' = [wr EXCEPT !.offset = offset, !.firstIn = FALSE]
  PROVE  WrShape' /\ wr'.index = wr.index
<1>1. wr \in WriteState /\ offset \in Nat
  BY DEF WrShape, WriteState
<1> QED
  BY <1>1 DEF WrShape, WriteState

LEMMA OtherFilesNames ==
  ASSUME NInv, NEW size \in Nat, NEW more \in BOOLEAN,
         \/ OpenFormat
         \/ RefuseName
         \/ SwallowPacket(size, more)
         \/ SwallowEmptyPacket
         \/ DeleteFaults
         \/ Abort
  PROVE  NInv'
<1>1. CASE OpenFormat
  <2>1. /\ dir' = ZeroDir /\ fileNum' = 0 /\ wr' = Fresh(NotFound)
        /\ client' = [phase |-> "open", kind |-> "format", name |-> NoName, sent |-> <<>>]
        /\ transfers' = transfers + 1 /\ disk' = disk /\ existFlag' = existFlag
    BY <1>1 DEF OpenFormat, flashVars
  <2>2. WrShape' /\ wr'.index = NotFound
    BY <2>1, FreshShape DEF NInv
  <2>3. ClientShape' /\ Opened'
    BY <2>1, <2>2 DEF NInv, ClientShape, Opened, Kinds, Stream
  <2>4. DirShape(dir') /\ UniqueIn(dir') /\ dir'.total = 0
    BY <2>1, ZeroDirNames
  <2> QED
    BY <2>1, <2>2, <2>3, <2>4 DEF NInv, DirShape, UniqueIn
<1>2. CASE SwallowPacket(size, more)
  <2>1. /\ UNCHANGED <<dir, disk, fileNum, existFlag>> /\ wr' = wr /\ transfers' = transfers
        /\ client' = client \/ Accepted(size, more)
    BY <1>2 DEF SwallowPacket, flashVars
  <2>2. WrShape'
    BY <2>1 DEF NInv, WrShape
  <2>3. CASE client' = client
    BY <2>1, <2>2, <2>3, FrameNames DEF NInv, ClientShape, Opened
  <2>4. CASE Accepted(size, more) /\ more
    <3>1. /\ ClientShape' /\ client'.phase = client.phase /\ client'.kind = client.kind
          /\ client'.name = client.name
      BY <2>1, <2>4, AcceptedShape DEF NInv
    <3>2. Opened'
      BY <2>1, <3>1, StaysOpened DEF NInv
    <3> QED
      BY <2>1, <2>2, <3>1, <3>2, FrameNames
  <2>5. CASE Accepted(size, more) /\ ~more
    BY <2>1, <2>2, <2>5, AcceptedShape, EndedShape, FrameNames DEF NInv
  <2> QED
    BY <2>1, <2>3, <2>4, <2>5
<1>3. CASE RefuseName
  <2>1. /\ UNCHANGED <<dir, disk, fileNum, existFlag, client, transfers>>
        /\ wr' = Fresh(NotFound) /\ client.phase = "idle"
    BY <1>3 DEF RefuseName, flashVars, clientVars, Ready
  <2>2. WrShape'
    BY <2>1, FreshShape DEF NInv
  <2> QED
    BY <2>1, <2>2, FrameNames DEF NInv, ClientShape, Opened
<1>4. CASE SwallowEmptyPacket
  <2>1. /\ UNCHANGED <<dir, disk, fileNum, existFlag>> /\ transfers' = transfers
        /\ client' = Idle /\ wr' = wr
    BY <1>4 DEF SwallowEmptyPacket, flashVars
  <2> QED
    BY <2>1, EndedShape, FrameNames DEF NInv, WrShape
<1>5. CASE DeleteFaults
  BY <1>5 DEF DeleteFaults, flashVars, clientVars, NInv, DirShape, UniqueIn, WrShape,
              ClientShape, Opened
<1>6. CASE Abort
  <2>1. /\ UNCHANGED <<dir, disk, fileNum, existFlag>> /\ transfers' = transfers
        /\ client' = Idle /\ wr' = wr
    BY <1>6 DEF Abort, Rejected, flashVars, ramVars
  <2> QED
    BY <2>1, EndedShape, FrameNames DEF NInv, WrShape
<1> QED
  BY <1>1, <1>2, <1>3, <1>4, <1>5, <1>6

LEMMA DeletionNames ==
  ASSUME NInv, DeletePacket \/ FailedDelete
  PROVE  NInv'
<1> DEFINE e == DeleteEntry(wr.index)
<1>1. /\ dir' = e /\ fileNum' = Decrement(fileNum) /\ existFlag' = FALSE
      /\ disk' = dir' \/ disk' = NoDir
      /\ client' = Idle /\ wr' = wr /\ transfers' = transfers /\ DeletesFile
  BY DEF DeletePacket, FailedDelete, Rejected
<1>2. wr.index \in Sectors /\ wr.index < dir.total
  BY <1>1 DEF DeletesFile, NInv, Opened
<1>3. DirShape(e) /\ UniqueIn(e) /\ e.total = Decrement(fileNum)
  BY <1>2, DeleteNames DEF NInv
<1> HIDE DEF e
<1>4. /\ DirShape(dir') /\ UniqueIn(dir') /\ fileNum' = dir'.total /\ existFlag' \in BOOLEAN
      /\ disk' # NoDir => DirShape(disk') /\ UniqueIn(disk')
  BY <1>1, <1>3
<1>5. WrShape' /\ ClientShape' /\ Opened'
  BY <1>1, EndedShape DEF NInv, WrShape
<1> QED
  BY <1>4, <1>5 DEF NInv, DirShape, UniqueIn

LEMMA RestartNames ==
  ASSUME NInv, NEW size \in Nat, NEW more \in BOOLEAN,
         Restart \/ PowerFailsInPacket(size, more) \/ PowerFailsInDelete
  PROVE  NInv'
<1>1. CASE Restart
  BY <1>1, BootNames DEF Restart, NInv
<1>2. CASE PowerFailsInPacket(size, more)
  <2> DEFINE out == WriteOutcome(Packet(size), more)
  <2>1. /\ transfers' = transfers /\ WritesData(size, more)
        /\ Boot(disk) \/ Boot(NoDir) \/ Boot(out.dir)
    BY <1>2 DEF PowerFailsInPacket
  <2>2. client.phase = "open" /\ client.kind = "write" /\ wr.index \in Sectors
    BY <2>1, WritingFile
  <2>3. Packet(size) \in Stream
    BY PacketStream DEF NInv
  <2>4. DirShape(out.dir) /\ UniqueIn(out.dir)
    BY <2>2, <2>3, OutcomeNames
  <2> HIDE DEF out
  <2>5. \E dk : (dk # NoDir => DirShape(dk) /\ UniqueIn(dk)) /\ Boot(dk)
    BY <2>1, <2>4 DEF NInv
  <2> QED
    BY <2>1, <2>5, BootNames
<1>3. CASE PowerFailsInDelete
  <2>1. /\ transfers' = transfers /\ DeletesFile
        /\ Boot(NoDir) \/ Boot(DeleteEntry(wr.index))
    BY <1>3 DEF PowerFailsInDelete
  <2>2. wr.index \in Sectors /\ wr.index < dir.total
    BY <2>1 DEF DeletesFile, NInv, Opened
  <2>3. DirShape(DeleteEntry(wr.index)) /\ UniqueIn(DeleteEntry(wr.index))
    BY <2>2, DeleteNames DEF NInv
  <2>4. \E dk : (dk # NoDir => DirShape(dk) /\ UniqueIn(dk)) /\ Boot(dk)
    BY <2>1, <2>3
  <2> QED
    BY <2>1, <2>4, BootNames
<1> QED
  BY <1>1, <1>2, <1>3

LEMMA FirmwareNames ==
  ASSUME NInv, NEW size \in Nat, NEW more \in BOOLEAN,
         \/ OpenFirmware
         \/ HeaderRefused(size, more)
         \/ ProgramFirmware(size, more)
         \/ PowerFailsInFirmware(size, more)
         \/ AbortFirmware
         \/ SwitchMode
  PROVE  NInv'
<1>1. CASE OpenFirmware
  <2>1. /\ UNCHANGED <<dir, disk, fileNum, existFlag>> /\ transfers' = transfers + 1
        /\ wr' = Fresh(NotFound) /\ client.phase = "idle"
        /\ \/ client' = [phase |-> "open", kind |-> "firmware", name |-> NoName, sent |-> <<>>]
           \/ client' = client
    BY <1>1 DEF OpenFirmware, fileVars, Ready
  <2>2. WrShape' /\ wr'.index = NotFound
    BY <2>1, FreshShape DEF NInv
  <2>3. ClientShape'
    <3>1. CASE client' = client
      BY <2>1, <3>1 DEF NInv, ClientShape
    <3>2. CASE client' = [phase |-> "open", kind |-> "firmware", name |-> NoName, sent |-> <<>>]
      <4>1. <<>> \in Stream /\ transfers' \in Nat
        BY <2>1 DEF NInv, ClientShape, Stream
      <4> QED
        BY <3>2, <4>1 DEF ClientShape, Kinds
    <3> QED
      BY <2>1, <3>1, <3>2
  <2>4. Opened'
    BY <2>1, <2>2 DEF Opened
  <2> QED
    BY <2>1, <2>2, <2>3, <2>4, FrameNames
<1>2. CASE HeaderRefused(size, more)
  <2>1. /\ UNCHANGED <<dir, disk, fileNum, existFlag>> /\ transfers' = transfers
        /\ client' = Idle /\ wr' = [wr EXCEPT !.offset = wr.offset + size]
    BY <1>2 DEF HeaderRefused, HeaderBad, SessionEnds, fileVars
  <2>2. WrShape'
    BY <2>1, OffsetShape DEF NInv
  <2> QED
    BY <2>1, <2>2, EndedShape, FrameNames DEF NInv
<1>3. CASE ProgramFirmware(size, more)
  <2>1. /\ UNCHANGED <<dir, disk, fileNum, existFlag>> /\ transfers' = transfers
        /\ wr' = [wr EXCEPT !.offset = wr.offset + size, !.firstIn = FALSE]
        /\ Accepted(size, more) \/ client' = Idle
    BY <1>3 DEF ProgramFirmware, SessionEnds, fileVars
  <2>2. WrShape' /\ wr'.index = wr.index
    BY <2>1, OffsetShape DEF NInv
  <2>3. CASE client' = Idle
    BY <2>1, <2>2, <2>3, EndedShape, FrameNames DEF NInv
  <2>4. CASE Accepted(size, more) /\ more
    <3>1. /\ ClientShape' /\ client'.phase = client.phase /\ client'.kind = client.kind
          /\ client'.name = client.name
      BY <2>1, <2>4, AcceptedShape DEF NInv
    <3>2. Opened'
      BY <2>1, <2>2, <3>1, StaysOpened DEF NInv
    <3> QED
      BY <2>1, <2>2, <3>1, <3>2, FrameNames
  <2>5. CASE Accepted(size, more) /\ ~more
    BY <2>1, <2>3, <2>5, AcceptedShape DEF NInv
  <2> QED
    BY <2>1, <2>3, <2>4, <2>5
<1>4. CASE PowerFailsInFirmware(size, more)
  BY <1>4, BootNames DEF PowerFailsInFirmware, NInv
<1>5. CASE AbortFirmware
  <2>1. /\ UNCHANGED <<dir, disk, fileNum, existFlag>> /\ transfers' = transfers
        /\ client' = Idle /\ wr' = wr
    BY <1>5 DEF AbortFirmware, SessionEnds, fileVars
  <2> QED
    BY <2>1, EndedShape, FrameNames DEF NInv, WrShape
<1>6. CASE SwitchMode
  BY <1>6 DEF SwitchMode, flashVars, ramVars, clientVars, NInv, DirShape, UniqueIn, WrShape,
              ClientShape, Opened
<1> QED
  BY <1>1, <1>2, <1>3, <1>4, <1>5, <1>6

-----------------------------------------------------------------------------
LEMMA NInvInit == Init => NInv
<1> SUFFICES ASSUME Init PROVE NInv
  OBVIOUS
<1>1. /\ dir = ZeroDir /\ disk = NoDir /\ fileNum = 0 /\ existFlag = FALSE
      /\ wr = NoWrite /\ client = Idle /\ transfers = 0
  BY DEF Init
<1>2. WrShape
  BY <1>1, SectorNumbers DEF WrShape, WriteState, NoWrite, Stream
<1>3. ClientShape /\ Opened
  BY <1>1, IdleShape DEF ClientShape, Opened, Idle
<1> QED
  BY <1>1, <1>2, <1>3, ZeroDirNames DEF NInv

LEMMA PacketSize ==
  /\ \A size \in 0..MaxPacket : size \in Nat
  /\ \A size \in 1..MaxPacket : size \in Nat
BY SizesAssumption

LEMMA ZeroUp == \A size \in 1..MaxPacket : size \in 0..MaxPacket /\ size # 0
BY SizesAssumption

LEMMA NInvStep ==
  ASSUME NInv, "deleteMissing" \notin Ops, [FwNext]_vars
  PROVE  NInv'
<1>1. CASE UNCHANGED vars
  BY <1>1 DEF vars, flashVars, ramVars, clientVars, NInv, DirShape, UniqueIn, WrShape,
              ClientShape, Opened
<1>2. CASE Handlers
  <2>1. ASSUME NEW n \in Names, NEW kind \in {"write", "delete"}, OpenFile(n, kind) PROVE NInv'
    BY <2>1, OpenNames
  <2>2. ASSUME NEW size \in 1..MaxPacket, NEW more \in BOOLEAN,
               \/ SwallowPacket(size, more) \/ DataPacket(size, more)
               \/ FailedDataWrite(size, more)
        PROVE  NInv'
    BY <2>2, PacketSize, OtherFilesNames, DataPacketNames, FailedDataWriteNames
  <2>3. ASSUME RefuseName \/ OpenFormat \/ SwallowEmptyPacket \/ DeleteFaults PROVE NInv'
    BY <2>3, OtherFilesNames
  <2>4. ASSUME DeletePacket \/ FailedDelete PROVE NInv'
    BY <2>4, DeletionNames
  <2> QED
    BY <1>2, <2>1, <2>2, <2>3, <2>4 DEF Handlers
<1>3. CASE Environment
  <2>1. ASSUME NEW size \in 1..MaxPacket, NEW more \in BOOLEAN, PowerFailsInPacket(size, more)
        PROVE  NInv'
    BY <2>1, PacketSize, RestartNames
  <2>2. ASSUME Restart \/ PowerFailsInDelete PROVE NInv'
    BY <2>2, RestartNames
  <2>3. ASSUME Abort PROVE NInv'
    BY <2>3, OtherFilesNames
  <2> QED
    BY <1>3, <2>1, <2>2, <2>3 DEF Environment
<1>4. ASSUME NEW size \in 0..MaxPacket, NEW more \in BOOLEAN,
             \/ HeaderRefused(size, more) \/ ProgramFirmware(size, more)
             \/ PowerFailsInFirmware(size, more)
      PROVE  NInv'
  BY <1>4, PacketSize, FirmwareNames
<1>5. ASSUME OpenFirmware \/ AbortFirmware \/ SwitchMode PROVE NInv'
  BY <1>5, FirmwareNames
<1> QED
  BY <1>1, <1>2, <1>3, <1>4, <1>5 DEF FwNext, Next

\* Names stay unique in the directory and the two copies of the file count
\* agree, whatever is written, rewritten, broken off, formatted, lost with the
\* power or updated in between, on a disk of any size: as long as only files
\* that are listed are deleted.
THEOREM NamesStayUnique ==
  ASSUME "deleteMissing" \notin Ops
  PROVE  FwSpec => []NamesUnique
<1>1. NInv => NamesUnique
  BY DEF NInv, NamesUnique, UniqueIn, Files
<1>2. NInv /\ [FwNext]_vars => NInv'
  BY NInvStep
<1> QED
  BY <1>1, <1>2, NInvInit, PTL DEF FwSpec

\* What holds with firmware updates holds without them.
LEMMA FilesAlone == Spec => FwSpec
<1>1. [Next]_vars => [FwNext]_vars
  BY DEF FwNext
<1> QED
  BY <1>1, PTL DEF Spec, FwSpec

-----------------------------------------------------------------------------
(***************************************************************************)
(* What a transfer may touch: as long as no file is deleted, every sector  *)
(* a listed file starts in is marked with the file, and every flash        *)
(* operation of a packet stays inside a sector that is free or marked with *)
(* the file being written.                                                 *)
(***************************************************************************)
Flash == [Sectors -> [0..(S - 1) -> Nat \X Nat]]

\* Every listed file starts in a sector marked with it.
Owns(d) ==
  /\ d.table \in [Sectors -> Nat]
  /\ \A i \in Sectors : i < d.total => d.table[d.info[i].sector] = i + 1

\* The writing position: "current" is marked with the file being written, and
\* the address is as far into it as the length written says.
InSector(current) ==
  /\ wr.offset >= S * wr.sector /\ wr.offset <= S * (wr.sector + 1)
  /\ wr.addr = current * S + (wr.offset - S * wr.sector)
At(current) == dir.table[current] = wr.index + 1 /\ InSector(current)

Position ==
  client.phase = "open" /\ client.kind = "write" =>
    /\ dir.table[dir.info[wr.index].sector] = wr.index + 1
    /\ IF wr.firstIn THEN wr.offset = 0 /\ wr.sector = 0
       ELSE \E current \in Sectors : At(current)

OInv ==
  /\ data \in Flash
  /\ Owns(dir)
  /\ disk # NoDir => Owns(disk)
  /\ client.kind # "delete"
  /\ Position

NoDeletes == Ops \cap {"deleteMissing", "deleteLast", "deleteAny"} = {}

-----------------------------------------------------------------------------
(***************************************************************************)
(* Flash.                                                                  *)
(***************************************************************************)
\* These contents differ from what flash holds only in sectors that are free
\* or marked with the file being written.
Ours(s) == dir.table[s] \in {0, wr.index + 1}
Untouched(d) == d \in Flash /\ \A s \in Sectors : ~Ours(s) => d[s] = data[s]

LEMMA EraseUntouched ==
  ASSUME NEW d, Untouched(d), NEW sector \in Sectors, Ours(sector)
  PROVE  Untouched(Erase(d, sector))
<1>1. BlankSector \in [0..(S - 1) -> Nat \X Nat]
  BY DEF BlankSector, Erased
<1> QED
  BY <1>1 DEF Untouched, Flash, Erase

\* A product with a larger sector number is larger by a sector.
LEMMA SectorsApart ==
  ASSUME NEW m \in Nat, m > 0, NEW s \in Nat, NEW t \in Nat, s < t
  PROVE  s * m + m <= t * m
<1>1. PICK k \in Nat : t = s + 1 + k
  <2>1. t - s - 1 \in Nat /\ t = s + 1 + (t - s - 1)
    OBVIOUS
  <2> QED
    BY <2>1
<1>2. t * m = s * m + m + k * m
  BY <1>1, SMTT(30)
<1>3. k * m \in Nat /\ s * m \in Nat
  OBVIOUS
<1> QED
  BY <1>2, <1>3

\* Units programmed inside a sector change that sector only.
LEMMA ProgramUntouched ==
  ASSUME NEW d, Untouched(d), NEW home \in Sectors, Ours(home), NEW pos \in Nat,
         NEW units \in Stream, pos + Len(units) <= S
  PROVE  Untouched(Program(d, home * S + pos, units))
<1> DEFINE addr == home * S + pos
           K(s, o) == s * S + o - addr + 1
           p == [s \in Sectors |-> [o \in 0..(S - 1) |->
                   IF K(s, o) \in 1..Len(units) THEN units[K(s, o)] ELSE d[s][o]]]
<1>1. Program(d, addr, units) = p
  BY DEF Program
<1>2. \A k \in 1..Len(units) : units[k] \in Nat \X Nat
  BY DEF Stream
<1>3. d \in Flash
  BY DEF Untouched
<1>4. p \in Flash
  <2> HIDE DEF K
  <2> QED
    BY <1>2, <1>3 DEF Flash
<1>5. ASSUME NEW s \in Sectors, s # home, NEW o \in 0..(S - 1) PROVE K(s, o) \notin 1..Len(units)
  <2>1. s \in Nat /\ home \in Nat /\ S \in Nat /\ S > 0
    BY SectorNumbers, Products
  <2>2. s * S \in Nat /\ home * S \in Nat /\ Len(units) \in Nat
    BY <2>1, Products DEF Stream
  <2>3. CASE s < home
    <3>1. s * S + S <= home * S
      BY <2>1, <2>3, SectorsApart
    <3> QED
      BY <2>1, <2>2, <3>1
  <2>4. CASE s > home
    <3>1. home * S + S <= s * S
      BY <2>1, <2>4, SectorsApart
    <3> QED
      BY <2>1, <2>2, <3>1
  <2> QED
    BY <1>5, <2>1, <2>3, <2>4
<1>6. ASSUME NEW s \in Sectors, s # home PROVE p[s] = d[s]
  <2>1. p[s] = [o \in 0..(S - 1) |-> d[s][o]]
    <3> HIDE DEF K
    <3> QED
      BY <1>5, <1>6
  <2>2. d[s] \in [0..(S - 1) -> Nat \X Nat]
    BY <1>3 DEF Flash
  <2> QED
    BY <2>1, <2>2
<1> HIDE DEF p, addr
<1>7. Untouched(p)
  BY <1>4, <1>6 DEF Untouched
<1> QED
  BY <1>1, <1>7 DEF addr

-----------------------------------------------------------------------------
(***************************************************************************)
(* The flash operations of a packet.                                       *)
(***************************************************************************)
Begun == IF wr.firstIn THEN Erase(data, dir.info[wr.index].sector) ELSE data
Front(units) == SubSeq(units, 1, Len(units) - Over(units))
Rest(units) == SubSeq(units, Len(units) - Over(units) + 1, Len(units))
FrontDone(units) == Program(Begun, Start, Front(units))
NextErased(units) ==
  IF Crosses(units) THEN Erase(FrontDone(units), Following(units)) ELSE FrontDone(units)
RestDone(units) ==
  IF Crosses(units) THEN Program(NextErased(units), Following(units) * S, Rest(units))
  ELSE NextErased(units)
Torn(units) ==
  {Program(Begun, Start, SubSeq(Front(units), 1, k)) : k \in 0..Len(Front(units))}
  \cup {Program(NextErased(units), Following(units) * S, SubSeq(Rest(units), 1, k)) :
          k \in IF Crosses(units) THEN 0..Len(Rest(units)) ELSE {}}

LEMMA ImagesAre ==
  ASSUME NEW units, NEW more, NEW out, out = WriteOutcome(units, more)
  PROVE  /\ out.images = <<Begun, FrontDone(units), NextErased(units), RestDone(units)>>
         /\ out.tornHead \cup out.tornTail = Torn(units)
BY Zenon DEF WriteOutcome, Start, Offset, Over, Following, Full, Crosses,
             Begun, Front, Rest, FrontDone, NextErased, RestDone, Torn

LEMMA Into ==
  ASSUME NEW m \in Nat, NEW a \in Nat, NEW b, b = a + m, NEW o \in Nat, o >= a, o <= b
  PROVE  o - a \in Nat /\ o - a <= m /\ o = a + (o - a)
OBVIOUS

LEMMA Beyond ==
  ASSUME NEW m \in Nat, NEW a \in Nat, NEW b, b = a + m, NEW pos \in Nat, NEW len \in Nat,
         NEW o, o = a + pos + len
  PROVE  (IF o > b THEN o - b ELSE 0) = IF pos + len > m THEN pos + len - m ELSE 0
OBVIOUS

\* The sector of the file that a packet starts in.
Home(home) ==
  IF wr.firstIn THEN home = dir.info[wr.index].sector /\ wr.offset = 0 /\ wr.sector = 0
  ELSE InSector(home)

\* "pos" of that sector is already written; the head of the packet fills at most
\* the rest.
Placed(home, pos, units) ==
  /\ Start = home * S + pos /\ pos <= S /\ wr.offset = S * wr.sector + pos
  /\ Over(units) = IF pos + Len(units) > S THEN pos + Len(units) - S ELSE 0

LEMMA PositionIn ==
  ASSUME NInv, wr.index \in Sectors, NEW home \in Sectors, Home(home),
         NEW units \in Stream
  PROVE  \E pos \in Nat : Placed(home, pos, units)
<1>1. /\ wr.offset \in Nat /\ wr.sector \in Nat /\ Len(units) \in Nat
      /\ wr.firstIn \in BOOLEAN /\ S \in Nat /\ S > 0
      /\ home \in Nat /\ home * S \in Nat
  BY SectorNumbers, Products DEF NInv, WrShape, WriteState, Stream
<1>2. S * wr.sector \in Nat /\ S * (wr.sector + 1) = S * wr.sector + S
  BY <1>1
<1>3. PICK pos \in Nat :
        Start = home * S + pos /\ pos <= S /\ wr.offset = S * wr.sector + pos
  <2>1. CASE wr.firstIn
    <3>1. Start = home * S /\ wr.offset = 0 /\ wr.sector = 0
      BY <2>1 DEF Home, Start
    <3>2. Start = home * S + 0 /\ 0 <= S /\ wr.offset = S * wr.sector + 0
      BY <1>1, <3>1
    <3> QED
      BY <3>2
  <2>2. CASE ~wr.firstIn
    <3> DEFINE a == S * wr.sector
               b == S * (wr.sector + 1)
               pos == wr.offset - a
    <3>1. Start = home * S + pos /\ wr.offset >= a /\ wr.offset <= b
      BY <2>2 DEF Home, Start, InSector
    <3>2. a \in Nat /\ b = a + S
      BY <1>2
    <3>3. pos = wr.offset - a
      OBVIOUS
    <3> HIDE DEF a, b, pos
    <3>4. pos \in Nat /\ pos <= S /\ wr.offset = a + pos
      BY <1>1, <3>1, <3>2, <3>3
    <3> QED
      BY <3>1, <3>4 DEF a
  <2> QED
    BY <2>1, <2>2
<1>4. Over(units) = IF pos + Len(units) > S THEN pos + Len(units) - S ELSE 0
  <2> DEFINE a == S * wr.sector
             b == S * (wr.sector + 1)
             o == Offset(units)
  <2>1. Over(units) = IF o > b THEN o - b ELSE 0
    BY DEF Over
  <2>2. a \in Nat /\ b = a + S
    BY <1>2
  <2>3. o = wr.offset + Len(units)
    BY DEF Offset
  <2>4. wr.offset = a + pos
    BY <1>3
  <2> HIDE DEF a, b, o
  <2> QED
    BY <1>1, <2>1, <2>2, <2>3, <2>4, Beyond
<1> QED
  BY <1>3, <1>4 DEF Placed

LEMMA Geometry ==
  ASSUME NInv, OInv, client.phase = "open", client.kind = "write", wr.index \in Sectors,
         NEW units \in Stream
  PROVE  \E home \in Sectors, pos \in Nat :
           dir.table[home] = wr.index + 1 /\ Placed(home, pos, units)
<1>1. dir.info[wr.index].sector \in Sectors
  BY DEF NInv, DirShape, Entry
<1>2. PICK home \in Sectors : dir.table[home] = wr.index + 1 /\ Home(home)
  BY <1>1 DEF OInv, Position, Home, At
<1> QED
  BY <1>2, PositionIn

LEMMA PartLength ==
  ASSUME NEW units \in Stream, NEW over \in Nat, over <= Len(units)
  PROVE  /\ SubSeq(units, 1, Len(units) - over) \in Stream
         /\ Len(SubSeq(units, 1, Len(units) - over)) = Len(units) - over
         /\ SubSeq(units, Len(units) - over + 1, Len(units)) \in Stream
         /\ Len(SubSeq(units, Len(units) - over + 1, Len(units))) = over
<1> DEFINE front == Len(units) - over
<1>1. front \in Nat /\ Len(units) = front + over /\ front <= Len(units) /\ Len(units) \in Nat
  BY DEF Stream
<1> HIDE DEF front
<1>2. SubSeq(units, 1, front) \in Stream /\ Len(SubSeq(units, 1, front)) = front
  BY <1>1 DEF Stream
<1>3. SubSeq(units, front + 1, Len(units)) \in Stream
  BY <1>1 DEF Stream
<1>4. Len(SubSeq(units, front + 1, Len(units))) = over
  BY <1>1 DEF Stream
<1> QED
  BY <1>2, <1>3, <1>4 DEF front

LEMMA Prefix ==
  ASSUME NEW units \in Stream, NEW k \in 0..Len(units)
  PROVE  SubSeq(units, 1, k) \in Stream /\ Len(SubSeq(units, 1, k)) = k
BY DEF Stream

\* Whatever becomes of a packet, flash changes in sectors that are free or
\* marked with the file being written.
LEMMA PacketUntouched ==
  ASSUME NInv, OInv, client.phase = "open", client.kind = "write", wr.index \in Sectors,
         NEW units \in Stream, Len(units) <= S
  PROVE  /\ Untouched(Begun) /\ Untouched(FrontDone(units))
         /\ Untouched(NextErased(units)) /\ Untouched(RestDone(units))
         /\ \A d \in Torn(units) : Untouched(d)
<1>0. PICK home \in Sectors, pos \in Nat :
        dir.table[home] = wr.index + 1 /\ Placed(home, pos, units)
  BY Geometry
<1>1. /\ dir.table[home] = wr.index + 1
      /\ Start = home * S + pos /\ pos <= S /\ wr.offset = S * wr.sector + pos
      /\ Over(units) = IF pos + Len(units) > S THEN pos + Len(units) - S ELSE 0
  BY <1>0 DEF Placed
<1>2. Ours(home)
  BY <1>1 DEF Ours
<1>3. S \in Nat /\ Len(units) \in Nat /\ Over(units) \in Nat
  BY OutcomeParts, Products DEF Stream
<1>4. Over(units) <= Len(units) /\ Over(units) <= S /\ pos + (Len(units) - Over(units)) <= S
  BY <1>1, <1>3
<1>5. /\ Front(units) \in Stream /\ Len(Front(units)) = Len(units) - Over(units)
      /\ Rest(units) \in Stream /\ Len(Rest(units)) = Over(units)
  BY <1>3, <1>4, PartLength DEF Front, Rest
<1>6. Untouched(Begun)
  <2>1. Untouched(data)
    BY DEF OInv, Untouched
  <2>2. dir.info[wr.index].sector \in Sectors /\ wr.firstIn \in BOOLEAN
    BY DEF NInv, WrShape, WriteState, DirShape, Entry
  <2>3. Ours(dir.info[wr.index].sector)
    BY DEF OInv, Position, Ours
  <2> QED
    BY <2>1, <2>2, <2>3, EraseUntouched DEF Begun
<1>7. Untouched(FrontDone(units))
  BY <1>1, <1>2, <1>4, <1>5, <1>6, ProgramUntouched DEF FrontDone
<1>8. Crosses(units) => Following(units) \in Sectors /\ Ours(Following(units))
  BY OutcomeParts DEF Ours
<1>9. Untouched(NextErased(units))
  BY <1>7, <1>8, EraseUntouched DEF NextErased
<1>10. ASSUME NEW part \in Stream, Len(part) <= S, Crosses(units)
       PROVE  Untouched(Program(NextErased(units), Following(units) * S, part))
  <2>1. Following(units) * S + 0 = Following(units) * S
    <3>1. Following(units) \in Nat
      BY <1>8, <1>10, SectorNumbers
    <3>2. Following(units) * S \in Nat
      BY <3>1, Products
    <3> QED
      BY <3>2
  <2>2. 0 + Len(part) <= S
    BY <1>10 DEF Stream
  <2>3. Untouched(Program(NextErased(units), Following(units) * S + 0, part))
    BY <1>8, <1>9, <1>10, <2>2, ProgramUntouched
  <2> QED
    BY <2>1, <2>3
<1>11. Untouched(RestDone(units))
  BY <1>4, <1>5, <1>9, <1>10 DEF RestDone
<1>12. ASSUME NEW k \in 0..Len(Front(units))
       PROVE  Untouched(Program(Begun, Start, SubSeq(Front(units), 1, k)))
  <2>1. SubSeq(Front(units), 1, k) \in Stream /\ Len(SubSeq(Front(units), 1, k)) = k
    BY <1>5, Prefix
  <2>2. pos + k <= S
    BY <1>3, <1>4, <1>5
  <2> QED
    BY <1>1, <1>2, <1>6, <2>1, <2>2, ProgramUntouched
<1>13. ASSUME NEW k \in 0..Len(Rest(units)), Crosses(units)
       PROVE  Untouched(Program(NextErased(units), Following(units) * S,
                                SubSeq(Rest(units), 1, k)))
  <2>1. SubSeq(Rest(units), 1, k) \in Stream /\ Len(SubSeq(Rest(units), 1, k)) = k
    BY <1>5, Prefix
  <2>2. k <= S
    BY <1>3, <1>4, <1>5
  <2> QED
    BY <1>10, <1>13, <2>1, <2>2
<1>14. \A d \in Torn(units) : Untouched(d)
  BY <1>12, <1>13 DEF Torn
<1> QED
  BY <1>6, <1>7, <1>9, <1>11, <1>14

-----------------------------------------------------------------------------
(***************************************************************************)
(* The marks in the sector table.                                          *)
(***************************************************************************)
LEMMA ClaimOwns ==
  ASSUME DirShape(dir), Owns(dir), NEW idx \in Sectors, NEW s \in Sectors,
         dir.table[s] \in {0, idx + 1}, NEW e, e = Claim(dir, s, idx)
  PROVE  /\ Owns(e) /\ e.table[s] = idx + 1 /\ e.total = dir.total /\ e.info = dir.info
         /\ \A t \in Sectors : dir.table[t] = idx + 1 => e.table[t] = idx + 1
<1>1. /\ e.table = [dir.table EXCEPT ![s] = idx + 1] /\ e.total = dir.total
      /\ e.info = dir.info
  BY DEF Claim, DirShape
<1>2. idx + 1 \in Nat
  BY SectorNumbers
<1>3. e.table \in [Sectors -> Nat]
  BY <1>1, <1>2 DEF Owns
<1>4. e.table[s] = idx + 1 /\ \A t \in Sectors : t # s => e.table[t] = dir.table[t]
  BY <1>1 DEF Owns
<1>5. ASSUME NEW i \in Sectors, i < e.total PROVE e.table[e.info[i].sector] = i + 1
  <2>1. dir.table[dir.info[i].sector] = i + 1 /\ dir.info[i].sector \in Sectors
    BY <1>1, <1>5 DEF Owns, DirShape, Entry
  <2>2. CASE dir.info[i].sector = s
    <3>1. i + 1 \in {0, idx + 1} /\ i \in Nat /\ idx \in Nat
      BY <2>1, <2>2, SectorNumbers
    <3>2. i = idx
      BY <3>1
    <3> QED
      BY <1>1, <1>4, <2>2, <3>2
  <2>3. CASE dir.info[i].sector # s
    BY <1>1, <1>4, <2>1, <2>3
  <2> QED
    BY <2>2, <2>3
<1> QED
  BY <1>1, <1>3, <1>4, <1>5 DEF Owns

LEMMA CommitOwns ==
  ASSUME NEW d, DirShape(d), UniqueIn(d), Owns(d), NEW exist \in BOOLEAN, NEW idx \in Sectors,
         NEW size \in Nat, NEW crc \in Stream, NEW e,
         e = Commit(d, d.total, exist, idx, size, crc),
         d.table[d.info[idx].sector] = idx + 1,
         ~exist => /\ idx = d.total
                   /\ \A i \in Sectors : i < d.total => d.info[i].name # d.info[idx].name
  PROVE  Owns(e)
<1> DEFINE surplus == IF exist THEN Surplus(d, idx, size) ELSE {}
           table == [s \in Sectors |-> IF s \in surplus THEN 0 ELSE d.table[s]]
<1>1. e.table = table
  BY DEF Commit
<1>2. e.total = (IF exist THEN d.total ELSE d.total + 1)
      /\ e.info = [d.info EXCEPT ![idx].size = size, ![idx].crc = crc]
  BY DEF Commit
<1>3. d.info \in [Sectors -> Entry] /\ d.table \in [Sectors -> Nat] /\ d.total \in Nat
  BY SectorNumbers DEF DirShape, Owns
<1>4. \A i \in Sectors : e.info[i].sector = d.info[i].sector
  BY <1>2, <1>3 DEF Entry
<1>5. \A s \in surplus : s \in Sectors /\ s > d.info[idx].sector /\ d.table[s] = idx + 1
  <2> SUFFICES ASSUME exist, NEW s \in Surplus(d, idx, size)
               PROVE  s \in Sectors /\ s > d.info[idx].sector /\ d.table[s] = idx + 1
    OBVIOUS
  <2>1. s \in Sectors /\ s > d.info[idx].sector + size \div S /\ d.table[s] = idx + 1
    BY DEF Surplus
  <2>2. d.info[idx].sector \in Nat /\ size \div S \in Nat /\ s \in Nat
    BY <1>3, <2>1, Products, SectorNumbers DEF Entry
  <2> QED
    BY <2>1, <2>2
<1>6. e.table \in [Sectors -> Nat]
  <2> HIDE DEF surplus
  <2> QED
    BY <1>1, <1>3
<1>7. ASSUME NEW i \in Sectors, i < e.total PROVE e.table[e.info[i].sector] = i + 1
  <2>1. d.info[i].sector \in Sectors /\ d.info[idx].sector \in Nat /\ i \in Nat /\ idx \in Nat
    BY <1>3, SectorNumbers DEF Entry
  <2>2. d.table[d.info[i].sector] = i + 1
    BY <1>2, <1>3, <1>7, <2>1 DEF Owns
  <2>3. d.info[i].sector \notin surplus
    <3> SUFFICES ASSUME d.info[i].sector \in surplus PROVE FALSE
      OBVIOUS
    <3>1. d.info[i].sector > d.info[idx].sector /\ i = idx
      BY <1>5, <2>1, <2>2
    <3> QED
      BY <2>1, <3>1
  <2> HIDE DEF surplus
  <2> QED
    BY <1>1, <1>4, <2>1, <2>2, <2>3
<1> QED
  BY <1>6, <1>7 DEF Owns

LEMMA PacketOwns ==
  ASSUME NInv, OInv, client.phase = "open", client.kind = "write", wr.index \in Sectors,
         NEW units \in Stream, NEW more \in BOOLEAN
  PROVE  /\ Owns(Grown(units)) /\ Grown(units).info = dir.info
         /\ \A t \in Sectors : dir.table[t] = wr.index + 1 =>
                                 Grown(units).table[t] = wr.index + 1
         /\ Crosses(units) => Grown(units).table[Following(units)] = wr.index + 1
         /\ Owns(Final(units, more))
<1> DEFINE g == Grown(units)
           crc == wr.crc \o units
           size == Offset(units)
           e == Final(units, more)
<1>1. DirShape(g) /\ UniqueIn(g) /\ g.total = dir.total /\ g.info = dir.info
  BY GrownNames
<1>2. /\ Owns(g)
      /\ \A t \in Sectors : dir.table[t] = wr.index + 1 => g.table[t] = wr.index + 1
      /\ Crosses(units) => g.table[Following(units)] = wr.index + 1
  <2>1. CASE Crosses(units)
    <3>1. Following(units) \in Sectors /\ dir.table[Following(units)] \in {0, wr.index + 1}
      BY <2>1, OutcomeParts
    <3>2. g = Claim(dir, Following(units), wr.index)
      BY <2>1 DEF Grown
    <3> HIDE DEF g
    <3> QED
      BY <3>1, <3>2, ClaimOwns DEF NInv, OInv
  <2>2. CASE ~Crosses(units)
    BY <2>2 DEF Grown, OInv
  <2> QED
    BY <2>1, <2>2
<1>3. crc \in Stream
  BY DEF NInv, WrShape, WriteState, Stream
<1>4. size \in Nat /\ existFlag \in BOOLEAN
  BY OutcomeParts DEF NInv
<1>5. e = IF Commits(units, more)
          THEN Commit(g, g.total, existFlag, wr.index, size, crc) ELSE g
  BY <1>1 DEF Final, NInv
<1>6. ~existFlag => /\ wr.index = g.total
                    /\ \A i \in Sectors : i < g.total => g.info[i].name # g.info[wr.index].name
  BY <1>1 DEF NInv, Opened
<1>7. g.table[g.info[wr.index].sector] = wr.index + 1
  <2>1. dir.info[wr.index].sector \in Sectors
    BY DEF NInv, DirShape, Entry
  <2> QED
    BY <1>1, <1>2, <2>1 DEF OInv, Position
<1> HIDE DEF g, crc, size, e
<1>8. ASSUME e = Commit(g, g.total, existFlag, wr.index, size, crc)
      PROVE  Owns(e)
  BY <1>1, <1>2, <1>3, <1>4, <1>6, <1>7, <1>8, CommitOwns
<1>9. Owns(e)
  BY <1>2, <1>5, <1>8
<1> QED
  BY <1>1, <1>2, <1>9 DEF g, e

\* The next two multiples of a size.
LEMMA NextMultiples ==
  ASSUME NEW m \in Nat, NEW k \in Nat
  PROVE  /\ m * k \in Nat /\ m * (k + 1) = m * k + m
         /\ m * (k + 1 + 1) = m * k + m + m
BY SMTT(30)

\* Behind a packet that did not run out of sectors, the writing position is
\* again in a sector of the file: the one it started in or the one it crossed into.
LEMMA PositionMoves ==
  ASSUME NInv, wr.index \in Sectors, NEW units \in Stream, Len(units) <= S, ~Full(units),
         NEW w, w = After(units),
         NEW home \in Sectors, NEW pos \in Nat, Placed(home, pos, units),
         NEW current, current = IF Crosses(units) THEN Following(units) ELSE home
  PROVE  /\ ~w.firstIn /\ current \in Sectors
         /\ w.sector = (IF Crosses(units) THEN wr.sector + 1 ELSE wr.sector)
         /\ w.offset >= S * w.sector /\ w.offset <= S * (w.sector + 1)
         /\ w.addr = current * S + (w.offset - S * w.sector)
<1>1. /\ Start = home * S + pos /\ pos <= S /\ wr.offset = S * wr.sector + pos
      /\ Over(units) = IF pos + Len(units) > S THEN pos + Len(units) - S ELSE 0
  BY DEF Placed
<1>2. S \in Nat /\ Len(units) \in Nat /\ Over(units) \in Nat /\ wr.sector \in Nat
  BY OutcomeParts, Products DEF Stream, NInv, WrShape, WriteState
<1>3. S * wr.sector \in Nat /\ S * (wr.sector + 1) = S * wr.sector + S
      /\ S * (wr.sector + 1 + 1) = S * wr.sector + S + S
  BY <1>2, NextMultiples
<1>4. wr \in WriteState
  BY DEF NInv, WrShape
<1>5. /\ w.offset = wr.offset + Len(units)
      /\ w.sector = (IF Crosses(units) THEN wr.sector + 1 ELSE wr.sector)
      /\ w.addr = (IF Crosses(units) THEN Following(units) * S + Over(units)
                   ELSE Start + Len(Front(units)))
      /\ ~w.firstIn
  BY <1>4 DEF After, WriteState, Front, Offset
<1>6. CASE Crosses(units)
  <2>1. Over(units) = pos + Len(units) - S /\ Over(units) <= S
    BY <1>1, <1>2, <1>6 DEF Crosses
  <2>2. w.sector = wr.sector + 1 /\ w.offset = S * wr.sector + S + Over(units)
    <3> DEFINE a == S * wr.sector
    <3>1. a \in Nat /\ w.offset = a + pos + Len(units)
      BY <1>1, <1>3, <1>5
    <3> HIDE DEF a
    <3>2. w.offset = a + S + Over(units)
      BY <1>2, <2>1, <3>1
    <3> QED
      BY <1>5, <1>6, <3>2 DEF a
  <2>3. w.offset - S * w.sector = Over(units)
        /\ w.offset >= S * w.sector /\ w.offset <= S * (w.sector + 1)
    <3> DEFINE a == S * wr.sector
               b == S * (wr.sector + 1)
               c == S * (wr.sector + 1 + 1)
    <3>1. a \in Nat /\ b = a + S /\ c = a + S + S /\ w.offset = a + S + Over(units)
      BY <1>3, <2>2
    <3>2. S * w.sector = b /\ S * (w.sector + 1) = c
      BY <2>2
    <3> HIDE DEF a, b, c
    <3> QED
      BY <1>2, <2>1, <3>1, <3>2
  <2>4. Following(units) \in Sectors
    BY <1>6, OutcomeParts
  <2>5. w.addr = Following(units) * S + (w.offset - S * w.sector)
    BY <1>5, <1>6, <2>3
  <2>6. current = Following(units)
    BY <1>6
  <2> QED
    BY <1>5, <2>3, <2>4, <2>5, <2>6
<1>7. CASE ~Crosses(units)
  <2>1. Over(units) = 0 /\ pos + Len(units) <= S
    BY <1>1, <1>2, <1>7 DEF Crosses
  <2>2. Len(Front(units)) = Len(units)
    BY <1>2, <2>1, PartLength DEF Front
  <2>3. w.sector = wr.sector /\ w.addr = Start + Len(units)
    BY <1>5, <1>7, <2>2
  <2>4. w.offset - S * w.sector = pos + Len(units)
        /\ w.offset >= S * w.sector /\ w.offset <= S * (w.sector + 1)
    <3> DEFINE a == S * wr.sector
               b == S * (wr.sector + 1)
    <3>1. a \in Nat /\ b = a + S /\ w.offset = a + pos + Len(units)
      BY <1>1, <1>2, <1>3, <1>5
    <3>2. S * w.sector = a /\ S * (w.sector + 1) = b
      BY <2>3
    <3> HIDE DEF a, b
    <3> QED
      BY <1>2, <2>1, <3>1, <3>2
  <2>5. w.addr = home * S + (w.offset - S * w.sector)
    <3>1. home * S \in Nat
      BY SectorNumbers, Products
    <3>2. w.addr = home * S + pos + Len(units)
      BY <1>1, <2>3
    <3> HIDE DEF Sectors
    <3> QED
      BY <1>2, <2>4, <3>1, <3>2
  <2>6. current = home
    BY <1>7
  <2> QED
    BY <1>5, <2>4, <2>5, <2>6
<1> QED
  BY <1>6, <1>7

\* In a file that is marked, that sector is marked with it.
LEMMA PositionAfter ==
  ASSUME NInv, OInv, client.phase = "open", client.kind = "write", wr.index \in Sectors,
         NEW units \in Stream, Len(units) <= S, ~Full(units), NEW w, w = After(units),
         NEW home \in Sectors, NEW pos \in Nat,
         dir.table[home] = wr.index + 1, Placed(home, pos, units),
         NEW current, current = IF Crosses(units) THEN Following(units) ELSE home
  PROVE  /\ ~w.firstIn /\ current \in Sectors
         /\ w.sector = (IF Crosses(units) THEN wr.sector + 1 ELSE wr.sector)
         /\ Grown(units).table[current] = wr.index + 1
         /\ w.offset >= S * w.sector /\ w.offset <= S * (w.sector + 1)
         /\ w.addr = current * S + (w.offset - S * w.sector)
<1>1. Grown(units).table[current] = wr.index + 1
  BY PacketOwns
<1> QED
  BY <1>1, PositionMoves, Zenon

LEMMA NextPosition ==
  ASSUME NInv, OInv, client.phase = "open", client.kind = "write", wr.index \in Sectors,
         NEW units \in Stream, Len(units) <= S, ~Full(units), NEW w, w = After(units)
  PROVE  /\ ~w.firstIn
         /\ \E current \in Sectors :
              /\ Grown(units).table[current] = wr.index + 1
              /\ w.offset >= S * w.sector /\ w.offset <= S * (w.sector + 1)
              /\ w.addr = current * S + (w.offset - S * w.sector)
<1>1. PICK home \in Sectors, pos \in Nat :
        dir.table[home] = wr.index + 1 /\ Placed(home, pos, units)
  BY Geometry
<1> QED
  BY <1>1, PositionAfter

-----------------------------------------------------------------------------
(***************************************************************************)
(* One lemma for each handler.                                             *)
(***************************************************************************)
Kept == \A s \in Sectors : data'[s] # data[s] => dir.table[s] \in {0, wr.index + 1}

LEMMA SessionOver ==
  ASSUME client' = Idle, data' \in Flash, Owns(dir'), disk' # NoDir => Owns(disk')
  PROVE  OInv'
<1>1. client'.phase # "open" /\ client'.kind # "delete"
  BY DEF Idle
<1> QED
  BY <1>1 DEF OInv, Position, Flash, Owns

LEMMA UntouchedKept ==
  ASSUME Untouched(data')
  PROVE  Kept /\ data' \in Flash
BY DEF Untouched, Ours, Kept

LEMMA FrameOwns ==
  ASSUME OInv, UNCHANGED <<data, dir, disk>>, client' = Idle
  PROVE  OInv' /\ Kept
<1>1. OInv'
  BY SessionOver DEF OInv
<1> QED
  BY <1>1 DEF Kept

\* A file just opened starts in a sector marked with it, a new one in a sector
\* that was free.
LEMMA AddFileOwns ==
  ASSUME NInv, OInv, NEW name \in Names, NEW add, add = AddFile(name)
  PROVE  /\ Owns(add.dir)
         /\ add.index # NotFound =>
              add.dir.table[add.dir.info[add.index].sector] = add.index + 1
<1> DEFINE found == FindFile(dir, fileNum, name)
           free == FirstAt(dir.table, 0, 0)
           idx == dir.total
           entry == [dir.info[idx] EXCEPT !.name = name, !.sector = free, !.size = 0]
           refused == [index |-> NotFound, dir |-> dir, exist |-> existFlag]
           filled == [Claim(dir, free, idx) EXCEPT !.info[idx] =
                        [@ EXCEPT !.name = name, !.sector = free, !.size = 0]]
<1>1. fileNum \in Nat /\ fileNum = dir.total /\ DirShape(dir) /\ Owns(dir)
  BY SectorNumbers DEF NInv, OInv, DirShape
<1>2. found # NotFound => found \in Sectors /\ found < dir.total
  BY <1>1, FileFound
<1>3. \/ add = refused
      \/ found # NotFound /\ add = [refused EXCEPT !.index = found, !.exist = TRUE]
      \/ /\ fileNum < N /\ free # NotFound
         /\ add = [index |-> idx, dir |-> filled, exist |-> FALSE]
  BY <1>1, SectorNumbers DEF AddFile
<1>4. CASE add = refused
  BY <1>1, <1>4
<1>5. CASE found # NotFound /\ add = [refused EXCEPT !.index = found, !.exist = TRUE]
  <2>1. add.index = found /\ add.dir = dir
    BY <1>5
  <2> QED
    BY <1>1, <1>2, <1>5, <2>1 DEF Owns
<1>6. CASE /\ fileNum < N /\ free # NotFound
           /\ add = [index |-> idx, dir |-> filled, exist |-> FALSE]
  <2>0. add.index = idx /\ add.dir = filled
    BY <1>6
  <2>1. free \in Sectors /\ dir.table[free] = 0
    BY <1>6, FirstAtFinds
  <2>2. idx \in Sectors
    BY <1>1, <1>6, SectorNumbers
  <2> DEFINE c == Claim(dir, free, idx)
  <2>3. Owns(c) /\ c.table[free] = idx + 1 /\ c.total = dir.total /\ c.info = dir.info
    BY <1>1, <2>1, <2>2, ClaimOwns
  <2>4. c = [total |-> dir.total, occupy |-> dir.occupy, table |-> c.table, info |-> dir.info]
    BY <1>1 DEF Claim, DirShape
  <2> HIDE DEF free, idx
  <2>5. add.dir = [total |-> dir.total, occupy |-> dir.occupy, table |-> c.table,
                   info |-> [dir.info EXCEPT ![idx] = entry]]
    <3> HIDE DEF c
    <3> QED
      BY <2>0, <2>3, <2>4 DEF c
  <2> HIDE DEF c
  <2>6. entry.sector = free
    BY <1>1, <2>2 DEF DirShape, Entry
  <2> HIDE DEF entry
  <2>7. /\ add.dir.total = dir.total /\ add.dir.table = c.table
        /\ add.dir.info[idx].sector = free
        /\ \A i \in Sectors : i # idx => add.dir.info[i] = dir.info[i]
    BY <1>1, <2>2, <2>5, <2>6 DEF DirShape
  <2>8. \A i \in Sectors : i < dir.total => i # idx
    BY <1>1, SectorNumbers DEF idx
  <2>9. Owns(add.dir)
    BY <2>3, <2>7, <2>8 DEF Owns
  <2> QED
    BY <2>0, <2>3, <2>7, <2>9
<1> QED
  BY <1>3, <1>4, <1>5, <1>6

LEMMA OpenOwns ==
  ASSUME NInv, OInv, NoDeletes, NEW name \in Names, NEW kind \in {"write", "delete"},
         OpenFile(name, kind)
  PROVE  OInv' /\ Kept
<1> DEFINE add == AddFile(name)
<1>1. /\ dir' = add.dir /\ wr' = Fresh(add.index) /\ data' = data /\ disk' = disk
      /\ client' = IF add.index = NotFound THEN Idle
                   ELSE [phase |-> "open", kind |-> kind, name |-> name, sent |-> <<>>]
      /\ Requests(name, kind)
  BY DEF OpenFile, flashVars
<1>2. kind # "delete"
  BY <1>1 DEF Requests, NoDeletes
<1>3. /\ Owns(add.dir)
      /\ add.index # NotFound =>
           add.dir.table[add.dir.info[add.index].sector] = add.index + 1
  BY AddFileOwns
<1>4. add.index \in Sectors \cup {NotFound}
  BY AddFileNames
<1> HIDE DEF add
<1>5. wr'.index = add.index /\ wr'.offset = 0 /\ wr'.sector = 0 /\ wr'.firstIn
  BY <1>1, <1>4 DEF NInv, WrShape, WriteState, Fresh
<1>6. CASE add.index = NotFound
  <2>1. OInv'
    BY <1>1, <1>3, <1>6, SessionOver DEF OInv
  <2> QED
    BY <1>1, <2>1 DEF Kept
<1>7. CASE add.index # NotFound
  <2>1. client'.kind # "delete"
    BY <1>1, <1>2, <1>7
  <2>2. Position'
    BY <1>1, <1>3, <1>5, <1>7 DEF Position
  <2> QED
    BY <1>1, <1>3, <2>1, <2>2 DEF OInv, Kept, Flash, Owns
<1> QED
  BY <1>6, <1>7

\* A packet of a file, as the lemmas above take it.
LEMMA WritingPacket ==
  ASSUME NInv, NEW size \in 0..MaxPacket, NEW more, WritesData(size, more)
  PROVE  /\ client.phase = "open" /\ client.kind = "write" /\ wr.index \in Sectors
         /\ Packet(size) \in Stream /\ Len(Packet(size)) <= S
<1>1. Packet(size) \in Stream /\ Len(Packet(size)) = size
  BY PacketSize, PacketStream DEF NInv
<1>2. size <= S
  BY SizesAssumption
<1> QED
  BY <1>1, <1>2, WritingFile

LEMMA DataPacketOwns ==
  ASSUME NInv, OInv, NEW size \in 1..MaxPacket, NEW more \in BOOLEAN, DataPacket(size, more)
  PROVE  OInv' /\ Kept
<1> DEFINE units == Packet(size)
           out == WriteOutcome(units, more)
<1>1. /\ dir' = out.dir /\ wr' = out.wr /\ disk' = IF out.commits THEN out.dir ELSE disk
      /\ data' = out.images[4]
      /\ IF out.full THEN Rejected ELSE Accepted(size, more)
      /\ WritesData(size, more) /\ transfers' = transfers
  BY DEF DataPacket
<1>2. /\ client.phase = "open" /\ client.kind = "write" /\ wr.index \in Sectors
      /\ units \in Stream /\ Len(units) <= S
  BY <1>1, WritingPacket
<1> HIDE DEF units
<1>3. /\ out.full = Full(units) /\ out.commits = Commits(units, more)
      /\ out.dir = Final(units, more) /\ out.wr = After(units)
  BY OutcomeIs, Zenon
<1>4. out.images = <<Begun, FrontDone(units), NextErased(units), RestDone(units)>>
  BY ImagesAre, Zenon
<1> HIDE DEF out
<1>5. Kept /\ data' \in Flash
  <2>1. data' = RestDone(units)
    BY <1>1, <1>4
  <2>2. Untouched(data')
    BY <1>2, <2>1, PacketUntouched
  <2> QED
    BY <2>2, UntouchedKept
<1>6. Owns(dir') /\ (disk' # NoDir => Owns(disk'))
  <2>1. Owns(Final(units, more))
    BY <1>2, PacketOwns
  <2> QED
    BY <1>1, <1>3, <2>1 DEF OInv
<1>7. CASE client' = Idle
  BY <1>5, <1>6, <1>7, SessionOver
<1>8. CASE ~Full(units) /\ more
  <2>1. Accepted(size, more) /\ ~Commits(units, more)
    BY <1>1, <1>3, <1>8 DEF Commits
  <2>2. /\ client'.phase = client.phase /\ client'.kind = client.kind
        /\ client'.name = client.name
    BY <1>1, <1>8, <2>1, PacketSize, AcceptedShape DEF NInv
  <2>3. dir' = Grown(units) /\ wr' = After(units) /\ wr'.index = wr.index
    BY <1>1, <1>2, <1>3, <2>1, OutcomePosition DEF Final
  <2>4. /\ ~wr'.firstIn
        /\ \E current \in Sectors :
             /\ dir'.table[current] = wr.index + 1
             /\ wr'.offset >= S * wr'.sector /\ wr'.offset <= S * (wr'.sector + 1)
             /\ wr'.addr = current * S + (wr'.offset - S * wr'.sector)
    BY <1>2, <1>8, <2>3, NextPosition
  <2>5. dir'.table[dir'.info[wr'.index].sector] = wr'.index + 1
    <3>1. dir.info[wr.index].sector \in Sectors
      BY <1>2 DEF NInv, DirShape, Entry
    <3>2. dir.table[dir.info[wr.index].sector] = wr.index + 1
      BY <1>2 DEF OInv, Position
    <3> QED
      BY <1>2, <2>3, <3>1, <3>2, PacketOwns
  <2>6. Position'
    BY <2>3, <2>4, <2>5 DEF Position, At, InSector
  <2>7. client'.kind # "delete"
    BY <1>2, <2>2
  <2> QED
    BY <1>5, <1>6, <2>6, <2>7 DEF OInv, Flash, Owns
<1>9. client' = Idle \/ (~Full(units) /\ more)
  BY <1>1, <1>3 DEF Rejected, Accepted
<1> QED
  BY <1>7, <1>8, <1>9

LEMMA FailedDataWriteOwns ==
  ASSUME NInv, OInv, NEW size \in 1..MaxPacket, NEW more \in BOOLEAN,
         FailedDataWrite(size, more)
  PROVE  OInv' /\ Kept
<1> DEFINE units == Packet(size)
           out == WriteOutcome(units, more)
<1>1. client' = Idle /\ WritesData(size, more)
  BY DEF FailedDataWrite, Rejected
<1>2. \/ data' \in out.tornHead /\ dir' = dir /\ disk' = disk
      \/ data' \in out.tornTail /\ dir' = out.grown /\ disk' = disk
      \/ data' = out.images[4] /\ dir' = out.dir /\ disk' = NoDir
  BY DEF FailedDataWrite
<1>3. /\ client.phase = "open" /\ client.kind = "write" /\ wr.index \in Sectors
      /\ units \in Stream /\ Len(units) <= S
  BY <1>1, WritingPacket
<1> HIDE DEF units
<1>4. out.dir = Final(units, more) /\ out.grown = Grown(units)
  BY OutcomeIs, Zenon
<1>5. /\ out.images = <<Begun, FrontDone(units), NextErased(units), RestDone(units)>>
      /\ out.tornHead \cup out.tornTail = Torn(units)
  BY ImagesAre, Zenon
<1> HIDE DEF out
<1>6. data' \in {Begun, FrontDone(units), NextErased(units), RestDone(units)} \cup Torn(units)
  BY <1>2, <1>5
<1>7. Untouched(data')
  BY <1>3, <1>6, PacketUntouched
<1>8. Owns(Final(units, more)) /\ Owns(Grown(units))
  BY <1>3, PacketOwns
<1>9. Owns(dir') /\ (disk' # NoDir => Owns(disk'))
  BY <1>2, <1>4, <1>8 DEF OInv
<1> QED
  BY <1>1, <1>7, <1>9, SessionOver, UntouchedKept

LEMMA BootOwns ==
  ASSUME NEW dk, dk # NoDir => Owns(dk), Boot(dk), data' \in Flash
  PROVE  OInv'
<1>1. Owns(ZeroDir)
  BY SectorNumbers DEF Owns, ZeroDir
<1>2. Owns(LoadDir(dk))
  BY <1>1 DEF LoadDir
<1> QED
  BY <1>2, SessionOver DEF Boot

LEMMA RestartOwns ==
  ASSUME NInv, OInv, NEW size \in 0..MaxPacket, NEW more \in BOOLEAN,
         \/ Restart
         \/ PowerFailsInPacket(size, more)
         \/ PowerFailsInFirmware(size, more)
  PROVE  OInv' /\ Kept
<1>1. CASE Restart \/ PowerFailsInFirmware(size, more)
  <2>1. Boot(disk) /\ data' = data
    BY <1>1 DEF Restart, PowerFailsInFirmware
  <2> QED
    BY <2>1, BootOwns DEF OInv, Kept
<1>2. CASE PowerFailsInPacket(size, more)
  <2> DEFINE units == Packet(size)
             out == WriteOutcome(units, more)
  <2>1. /\ WritesData(size, more)
        /\ \/ Boot(disk)
           \/ Boot(NoDir)
           \/ Boot(out.dir)
        /\ \/ \E k \in 1..4 : data' = out.images[k]
           \/ data' \in out.tornHead \cup out.tornTail
    BY <1>2 DEF PowerFailsInPacket
  <2>2. /\ client.phase = "open" /\ client.kind = "write" /\ wr.index \in Sectors
        /\ units \in Stream /\ Len(units) <= S
    BY <2>1, WritingPacket
  <2> HIDE DEF units
  <2>3. out.dir = Final(units, more)
    BY OutcomeIs, Zenon
  <2>4. /\ out.images = <<Begun, FrontDone(units), NextErased(units), RestDone(units)>>
        /\ out.tornHead \cup out.tornTail = Torn(units)
    BY ImagesAre, Zenon
  <2> HIDE DEF out
  <2>5. \/ data' \in {Begun, FrontDone(units), NextErased(units), RestDone(units)}
        \/ data' \in Torn(units)
    BY <2>1, <2>4
  <2>6. Untouched(data')
    BY <2>2, <2>5, PacketUntouched
  <2>7. Owns(Final(units, more))
    BY <2>2, PacketOwns
  <2>8. \E dk : (dk # NoDir => Owns(dk)) /\ Boot(dk)
    BY <2>1, <2>3, <2>7 DEF OInv
  <2> QED
    BY <2>6, <2>8, UntouchedKept, BootOwns
<1> QED
  BY <1>1, <1>2

LEMMA OtherOwns ==
  ASSUME NInv, OInv, NEW size \in 0..MaxPacket, NEW more \in BOOLEAN,
         \/ RefuseName \/ OpenFormat \/ SwallowPacket(size, more)
         \/ SwallowEmptyPacket \/ DeletePacket \/ FailedDelete \/ DeleteFaults \/ Abort
         \/ PowerFailsInDelete \/ OpenFirmware \/ HeaderRefused(size, more)
         \/ ProgramFirmware(size, more) \/ AbortFirmware \/ SwitchMode
  PROVE  OInv' /\ Kept
<1>1. CASE OpenFormat
  <2>1. /\ dir' = ZeroDir /\ data' = data /\ disk' = disk
        /\ client' = [phase |-> "open", kind |-> "format", name |-> NoName, sent |-> <<>>]
    BY <1>1 DEF OpenFormat, flashVars
  <2>2. Owns(ZeroDir)
    BY SectorNumbers DEF Owns, ZeroDir
  <2>3. client'.kind = "format"
    BY <2>1
  <2> QED
    BY <2>1, <2>2, <2>3 DEF OInv, Position, Kept, Flash, Owns
<1>2. CASE SwallowPacket(size, more)
  <2>1. /\ UNCHANGED <<data, disk, dir, wr>> /\ transfers' = transfers
        /\ (client' = client /\ more) \/ Accepted(size, more)
    BY <1>2 DEF SwallowPacket, flashVars
  <2>2. CASE ~more
    BY <2>1, <2>2, FrameOwns DEF Accepted
  <2>3. CASE more
    <3>1. client'.phase = client.phase /\ client'.kind = client.kind
      BY <2>1, <2>3, PacketSize, AcceptedShape DEF NInv
    <3>2. Position'
      BY <2>1, <3>1 DEF OInv, Position, At, InSector
    <3> QED
      BY <2>1, <3>1, <3>2 DEF OInv, Kept, Flash, Owns
  <2> QED
    BY <2>2, <2>3
<1>3. CASE SwallowEmptyPacket \/ Abort
  <2>1. UNCHANGED <<data, dir, disk>> /\ client' = Idle
    BY <1>3 DEF SwallowEmptyPacket, Abort, Rejected, flashVars, ramVars
  <2> QED
    BY <2>1, FrameOwns
<1>4. CASE DeletePacket \/ FailedDelete \/ DeleteFaults \/ PowerFailsInDelete
  BY <1>4 DEF DeletePacket, FailedDelete, DeleteFaults, PowerFailsInDelete, DeletesFile, OInv
<1>5. CASE OpenFirmware \/ RefuseName
  <2>1. /\ UNCHANGED <<data, dir, disk>> /\ client.phase = "idle"
        /\ \/ client' = [phase |-> "open", kind |-> "firmware", name |-> NoName, sent |-> <<>>]
           \/ client' = client
    BY <1>5 DEF OpenFirmware, RefuseName, fileVars, flashVars, clientVars, Ready
  <2>2. client'.kind # "delete" /\ ~(client'.phase = "open" /\ client'.kind = "write")
    BY <2>1 DEF OInv
  <2> QED
    BY <2>1, <2>2 DEF OInv, Position, Kept, Flash, Owns
<1>6. CASE HeaderRefused(size, more) \/ AbortFirmware
  <2>1. UNCHANGED <<data, dir, disk>> /\ client' = Idle
    BY <1>6 DEF HeaderRefused, AbortFirmware, SessionEnds, fileVars
  <2> QED
    BY <2>1, FrameOwns
<1>7. CASE ProgramFirmware(size, more)
  <2>1. /\ UNCHANGED <<data, dir, disk>> /\ transfers' = transfers
        /\ Accepted(size, more) \/ client' = Idle
        /\ UpdatePacket(size, more)
    BY <1>7 DEF ProgramFirmware, SessionEnds, fileVars
  <2>2. client'.kind \in {"format", "firmware"} \/ client' = Idle
    BY <2>1, PacketSize, UpdateKind, AcceptedShape DEF NInv
  <2>3. CASE client' = Idle
    BY <2>1, <2>3, FrameOwns
  <2>4. CASE client'.kind \in {"format", "firmware"}
    BY <2>1, <2>4 DEF OInv, Position, Kept, Flash, Owns
  <2> QED
    BY <2>2, <2>3, <2>4
<1>8. CASE SwitchMode
  BY <1>8 DEF SwitchMode, flashVars, ramVars, clientVars, OInv, Position, At, InSector, Kept,
              Flash, Owns
<1> QED
  BY <1>1, <1>2, <1>3, <1>4, <1>5, <1>6, <1>7, <1>8

-----------------------------------------------------------------------------
LEMMA OInvInit == Init => OInv
<1> SUFFICES ASSUME Init PROVE OInv
  OBVIOUS
<1>1. /\ dir = ZeroDir /\ disk = NoDir /\ client = Idle
      /\ data = [s \in Sectors |-> BlankSector]
  BY DEF Init
<1>2. data \in Flash
  BY <1>1 DEF Flash, BlankSector, Erased
<1>3. Owns(dir)
  BY <1>1, SectorNumbers DEF Owns, ZeroDir
<1> QED
  BY <1>1, <1>2, <1>3 DEF OInv, Position, Idle

LEMMA OInvStep ==
  ASSUME NInv, OInv, NoDeletes, FwNext
  PROVE  OInv' /\ Kept
<1>0. PICK anySize \in 1..MaxPacket, any \in BOOLEAN : any
  <2>1. MaxPacket \in 1..MaxPacket
    BY SizesAssumption
  <2> QED
    BY <2>1
<1>1. CASE Handlers
  <2>1. ASSUME NEW n \in Names, NEW kind \in {"write", "delete"}, OpenFile(n, kind)
        PROVE  OInv' /\ Kept
    BY <2>1, OpenOwns
  <2>2. ASSUME NEW size \in 1..MaxPacket, NEW more \in BOOLEAN,
               \/ SwallowPacket(size, more) \/ DataPacket(size, more)
               \/ FailedDataWrite(size, more)
        PROVE  OInv' /\ Kept
    BY <2>2, ZeroUp, OtherOwns, DataPacketOwns, FailedDataWriteOwns
  <2>3. ASSUME \/ RefuseName \/ OpenFormat \/ SwallowEmptyPacket \/ DeletePacket
               \/ FailedDelete \/ DeleteFaults
        PROVE  OInv' /\ Kept
    BY <2>3, OtherOwns
  <2> QED
    BY <1>1, <2>1, <2>2, <2>3 DEF Handlers
<1>2. CASE Environment
  <2>1. ASSUME NEW size \in 1..MaxPacket, NEW more \in BOOLEAN, PowerFailsInPacket(size, more)
        PROVE  OInv' /\ Kept
    BY <2>1, RestartOwns
  <2>2. ASSUME Restart PROVE OInv' /\ Kept
    BY <2>2, RestartOwns
  <2>3. ASSUME Abort \/ PowerFailsInDelete PROVE OInv' /\ Kept
    BY <2>3, OtherOwns
  <2> QED
    BY <1>2, <2>1, <2>2, <2>3 DEF Environment
<1>3. ASSUME NEW size \in 0..MaxPacket, NEW more \in BOOLEAN,
             \/ HeaderRefused(size, more) \/ ProgramFirmware(size, more)
             \/ PowerFailsInFirmware(size, more)
      PROVE  OInv' /\ Kept
  BY <1>3, OtherOwns, RestartOwns
<1>4. ASSUME OpenFirmware \/ AbortFirmware \/ SwitchMode PROVE OInv' /\ Kept
  BY <1>4, OtherOwns
<1> QED
  BY <1>1, <1>2, <1>3, <1>4 DEF FwNext, Next

LEMMA BothInvariants ==
  ASSUME NoDeletes
  PROVE  FwSpec => [](NInv /\ OInv)
<1>1. Init => NInv /\ OInv
  BY NInvInit, OInvInit
<1>2. NInv /\ OInv /\ [FwNext]_vars => (NInv /\ OInv)'
  <2> SUFFICES ASSUME NInv, OInv, [FwNext]_vars PROVE NInv' /\ OInv'
    OBVIOUS
  <2>1. NInv'
    BY NInvStep DEF NoDeletes
  <2>2. CASE FwNext
    BY <2>1, <2>2, OInvStep
  <2>3. CASE UNCHANGED vars
    BY <2>1, <2>3 DEF vars, flashVars, ramVars, clientVars, OInv, Position, At,
                    InSector, Flash, Owns
  <2> QED
    BY <2>2, <2>3
<1> QED
  BY <1>1, <1>2, PTL DEF FwSpec

\* Whatever a transfer erases or programs, with or without a failing write or
\* a power failure in the middle of it, belongs to no other file: on a disk of
\* any size, as long as no file is deleted.
THEOREM ForeignSectorsUntouched ==
  ASSUME NoDeletes
  PROVE  FwSpec => OwnedSectorsUntouched
<1>1. NInv /\ OInv /\ [FwNext]_vars =>
        [\A s \in Sectors : data'[s] # data[s] => dir.table[s] \in {0, wr.index + 1}]_vars
  BY OInvStep DEF Kept
<1> QED
  BY <1>1, BothInvariants, PTL DEF FwSpec, OwnedSectorsUntouched

\* The quotient of an address from sector s on, by the sector size.
LEMMA AddressInRun ==
  ASSUME NEW m \in Nat, m > 0, NEW s \in Nat, NEW size \in Nat, NEW k \in 1..size,
         NEW a, a = s * m + k - 1
  PROVE  a \div m \in s .. (s + ((size + m - 1) \div m) - 1)
<1> DEFINE q == a \div m
           r == a % m
           c == (size + m - 1) \div m
           x == (size + m - 1) % m
<1>1. s * m \in Nat /\ a \in Nat /\ size + m - 1 \in Nat
  OBVIOUS
<1>2. q \in Nat /\ r \in 0..(m - 1) /\ a = q * m + r
  <2>1. a = q * m + r
    BY <1>1, Z3T(20)
  <2>2. r \in 0..(m - 1)
    BY <1>1
  <2> QED
    BY <1>1, <2>1, <2>2, DivisionNat
<1>3. c \in Nat /\ x \in 0..(m - 1) /\ size + m - 1 = c * m + x
  <2>1. size + m - 1 = c * m + x
    BY <1>1, Z3T(20)
  <2>2. x \in 0..(m - 1)
    BY <1>1
  <2> QED
    BY <1>1, <2>1, <2>2, DivisionNat
<1> HIDE DEF q, r, c, x
<1>4. ~(q < s)
  <2> SUFFICES ASSUME q < s PROVE FALSE
    OBVIOUS
  <2>1. q * m + m <= s * m
    BY <1>2, SectorsApart
  <2>2. q * m \in Nat
    BY <1>2
  <2> QED
    BY <1>1, <1>2, <2>1, <2>2
<1>5. ~(s + c - 1 < q)
  <2> SUFFICES ASSUME s + c - 1 < q PROVE FALSE
    OBVIOUS
  <2>1. s + c <= q /\ s + c \in Nat
    BY <1>2, <1>3
  <2>2. (s + c) * m <= q * m
    <3>1. CASE s + c = q
      BY <1>2, <3>1
    <3>2. CASE s + c < q
      <4>1. (s + c) * m + m <= q * m
        BY <1>2, <2>1, <3>2, SectorsApart
      <4>2. (s + c) * m \in Nat /\ q * m \in Nat
        BY <1>2, <2>1
      <4> QED
        BY <4>1, <4>2
    <3> QED
      BY <2>1, <1>2, <3>1, <3>2
  <2>3. (s + c) * m = s * m + c * m
    BY <1>3, SMTT(30)
  <2>4. c * m \in Nat /\ q * m \in Nat
    BY <1>2, <1>3
  <2> QED
    BY <1>1, <1>2, <1>3, <2>2, <2>3, <2>4
<1> QED
  BY <1>2, <1>3, <1>4, <1>5 DEF q, c

\* A file in one run of sectors that is not being written reads back as before.
LEMMA ReadsStay ==
  ASSUME NInv, Kept, NEW i \in Sectors, i # wr.index, OneRun(i)
  PROVE  ReadBack(data', dir.info[i]) = ReadBack(data, dir.info[i])
<1> DEFINE info == dir.info[i]
<1>1. i \in Nat /\ info.sector \in Nat /\ info.size \in Nat
  BY SectorNumbers DEF NInv, DirShape, Entry
<1> HIDE DEF info
<1>2. ASSUME NEW k \in 1..info.size
      PROVE  UnitAt(data', info.sector * S + k - 1) = UnitAt(data, info.sector * S + k - 1)
  <2> DEFINE a == info.sector * S + k - 1
             s == a \div S
  <2>1. s \in FileSectors(i)
    BY <1>1, Products, AddressInRun DEF FileSectors, CeilSectors, info
  <2>2. s \in Sectors /\ dir.table[s] = i + 1
    BY <2>1 DEF OneRun
  <2>3. wr.index \in Nat
    BY SectorNumbers DEF NInv, WrShape, WriteState
  <2>4. dir.table[s] \notin {0, wr.index + 1}
    BY <1>1, <2>2, <2>3
  <2>5. data'[s] = data[s]
    BY <2>2, <2>4 DEF Kept
  <2> QED
    BY <2>5 DEF UnitAt
<1> QED
  BY <1>2 DEF ReadBack, info
=============================================================================
