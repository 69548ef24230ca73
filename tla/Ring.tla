-------------------------------- MODULE Ring --------------------------------
(***************************************************************************)
(* The overwriting byte buffer of fifoa.c, as operators over the record    *)
(* FIFOA_Buff_t: "mem" is the memory the caller gave, "len" how much of it *)
(* is used, "rd" and "wr" the read and write pointers as offsets into it.  *)
(* One cell stays empty: the buffer holds len - 1 bytes.                   *)
(***************************************************************************)
EXTENDS Integers, Sequences

\* FIFOA_Initial: the memory keeps what it holds.
Initial(mem, len) == [mem |-> mem, len |-> len, rd |-> 0, wr |-> 0]

CellAfterLate(ring, c) ==   \* mutant: the end is one cell too far
  IF c = ring.len THEN 0 ELSE c + 1

\* A pointer moves on by one, from buffEnd to buff.
CellAfter(ring, c) == IF c = ring.len - 1 THEN 0 ELSE c + 1

\* FIFOA_GetCurLength.
CurLength(ring) == (ring.wr + ring.len - ring.rd) % ring.len

IsFullUnwrapped(ring) ==   \* mutant: the end of the memory is no special case
  ring.wr = ring.rd - 1

\* The next byte would reach the read pointer.
IsFull(ring) == IF ring.rd = 0 THEN ring.wr = ring.len - 1 ELSE ring.wr = ring.rd - 1

\* The end of one turn of FIFOA_ForceWrite: with fullFlag set the oldest byte
\* gives way.
PutByte(ring, full, x) ==
  [mem |-> [ring.mem EXCEPT ![ring.wr] = x],
   len |-> ring.len,
   rd  |-> IF full THEN CellAfter(ring, ring.rd) ELSE ring.rd,
   wr  |-> CellAfter(ring, ring.wr)]

\* A whole FIFOA_ForceWrite: each cell keeps the last byte that fell on it,
\* and the oldest bytes give way to those that found no room.
ForceWrite(ring, src) ==
  LET n       == Len(src)
      off(c)  == (c + ring.len - ring.wr) % ring.len
      last(c) == off(c) + ((n - 1 - off(c)) \div ring.len) * ring.len
      wr      == (ring.wr + n) % ring.len
  IN  [mem |-> [c \in DOMAIN ring.mem |->
                  IF c < ring.len /\ last(c) >= 0 THEN src[last(c) + 1] ELSE ring.mem[c]],
       len |-> ring.len,
       rd  |-> IF CurLength(ring) + n < ring.len THEN ring.rd ELSE (wr + 1) % ring.len,
       wr  |-> wr]

DataSectorsShort(ring) ==   \* mutant: the last cell of the memory is left out
  IF ring.wr >= ring.rd
  THEN [at1 |-> ring.rd, len1 |-> ring.wr - ring.rd, at2 |-> 0, len2 |-> 0]
  ELSE [at1 |-> ring.rd, len1 |-> ring.len - 1 - ring.rd, at2 |-> 0, len2 |-> ring.wr]

\* FIFOA_GetDataSector: what the buffer holds, as one or two runs of cells.
DataSectors(ring) ==
  IF ring.wr >= ring.rd
  THEN [at1 |-> ring.rd, len1 |-> ring.wr - ring.rd, at2 |-> 0, len2 |-> 0]
  ELSE [at1 |-> ring.rd, len1 |-> ring.len - ring.rd, at2 |-> 0, len2 |-> ring.wr]

\* The bytes in n cells from cell "at" on.
Run(mem, at, n) == [k \in 1..n |-> mem[at + k - 1]]

\* The bytes of both runs, oldest first.
BothRuns(mem, sectors) ==
  Run(mem, sectors.at1, sectors.len1) \o Run(mem, sectors.at2, sectors.len2)
=============================================================================
