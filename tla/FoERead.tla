------------------------------- MODULE FoERead -------------------------------
(***************************************************************************)
(* Reading a file over FoE: FoE_Read and FoE_ReadData of bootloaderappl.c  *)
(* with FileMan_ReadFirstSectorFile and FileMan_ReadRemainderSectorFile of *)
(* fileman.c.  A file of several sectors goes through a window, aFileData, *)
(* one sector and Slack bytes long: when less than a block is left in it,  *)
(* the rest moves to its front and more of the file is read behind.        *)
(*                                                                         *)
(* A byte of the file is represented by its position, so "window" says     *)
(* which byte each cell of aFileData holds.  The file does not change      *)
(* while it is read: one FoE session is open at a time.  The master may    *)
(* give a read up and open another file at any block.                      *)
(***************************************************************************)
EXTENDS Integers, Sequences

CONSTANTS
  Sizes,     \* the file sizes to read
  Sector,    \* FILEMAN_FLASH_SECTOR_SIZE
  Slack,     \* FILEMAN_FILE_BUFF_SIZE - FILEMAN_MAX_FOE_FILE_SIZE
  MaxBlock,  \* maxBlockSize: data bytes of the mailbox
  Clear,     \* content of a cell set to zero or never written
  MaxOpens   \* bound: reads the master opens

\* The buffer leaves room for one block besides a sector, and a sector is
\* longer than a block.
ASSUME ReadAssumption ==
  /\ Sizes \subseteq Nat
  /\ Sector \in Nat /\ Slack \in Nat /\ MaxBlock \in Nat \ {0}
  /\ MaxOpens \in Nat
  /\ MaxBlock <= Slack /\ MaxBlock < Sector
  /\ Clear \notin Nat

VARIABLES
  size,       \* GetFileSize(readFileIndex)
  window,     \* aFileData
  readSize,   \* bytes of the file read from flash so far
  remainder,  \* readFileRemainderSize
  address,    \* readFileAddress, from the start of the file
  prevOffset, \* prevReadOffset: the position of the first cell of the window
  offset,     \* the stack's offset: bytes delivered so far
  reply,      \* the last block copied to the mailbox
  open,       \* the last block was full, so the stack asks for another
  opens       \* reads opened so far

vars == <<size, window, readSize, remainder, address, prevOffset,
          offset, reply, open, opens>>

BuffSize == Sector + Slack
Cells == 0..(BuffSize - 1)

Least(a, b) == IF a < b THEN a ELSE b

\* FileMan_ReadFileWithSector: n bytes of the file from "from", put at cell "at".
ReadFlash(w, at, from, n) ==
  [c \in Cells |-> IF c >= at /\ c < at + n THEN from + c - at ELSE w[c]]

\* The MEMCPY of n cells from cell "at" of the window to the mailbox.
CopyOut(w, at, n) == [k \in 1..n |-> w[at + k - 1]]

Init ==
  /\ size = 0
  /\ window = [c \in Cells |-> Clear]
  /\ readSize = 0
  /\ remainder = 0
  /\ address = 0
  /\ prevOffset = 0
  /\ offset = 0
  /\ reply = <<>>
  /\ open = FALSE
  /\ opens = 0

\* A block of n bytes leaves; the stack goes on while it gets full blocks.
Answer(block, at, n) ==
  /\ reply' = block
  /\ offset' = at + n
  /\ open' = (n = MaxBlock)

\* FoE_Read of a file of s bytes, whatever was being read before: the first
\* sector into the window, the first block out of it.
FirstBlock(s) ==
  LET n == Least(s, Sector)
      w == ReadFlash(window, 0, 0, n)
  IN  /\ opens < MaxOpens
      /\ opens' = opens + 1
      /\ size' = s
      /\ window' = w
      /\ readSize' = n
      /\ remainder' = s - n
      /\ address' = n
      /\ prevOffset' = 0
      /\ Answer(CopyOut(w, 0, Least(n, MaxBlock)), 0, Least(n, MaxBlock))

\* FoE_Read of a name that is too long or not listed: it returns 0 and the
\* stack opens nothing, but the place of the read before is gone already.
RefusedOpen ==
  /\ opens < MaxOpens
  /\ opens' = opens + 1
  /\ remainder' = 0
  /\ address' = 0
  /\ prevOffset' = 0
  /\ size' = 0 /\ offset' = 0 /\ reply' = <<>> /\ open' = FALSE
  /\ UNCHANGED <<window, readSize>>

EndOfFileMissed ==   \* mutant: the end is only seen behind the last byte
  /\ open
  /\ readSize < offset
  /\ Answer(<<>>, offset, 0)
  /\ UNCHANGED <<opens, size, window, readSize, remainder, address, prevOffset>>

\* FoE_ReadData with nothing left to send.
EndOfFile ==
  /\ open
  /\ readSize <= offset
  /\ Answer(<<>>, offset, 0)
  /\ UNCHANGED <<opens, size, window, readSize, remainder, address, prevOffset>>

BlockFromWindowGreedy ==   \* mutant: a last full block does not ask for a refill
  LET left == readSize - offset
      n    == Least(left, MaxBlock)
  IN  /\ open
      /\ offset < readSize
      /\ left >= MaxBlock \/ remainder = 0
      /\ Answer(CopyOut(window, offset - prevOffset, n), offset, n)
      /\ UNCHANGED <<opens, size, window, readSize, remainder, address, prevOffset>>

\* FoE_ReadData from what the window already holds.
BlockFromWindow ==
  LET left == readSize - offset
      n    == Least(left, MaxBlock)
  IN  /\ open
      /\ offset < readSize
      /\ left > MaxBlock \/ remainder = 0
      /\ Answer(CopyOut(window, offset - prevOffset, n), offset, n)
      /\ UNCHANGED <<opens, size, window, readSize, remainder, address, prevOffset>>

RefillRest(left) == remainder   \* mutant: the rest of the file, however long
\* How much ReadRemainderSectorFile reads behind "left" cells: a whole sector
\* if the rest of the file does not fit in the buffer, else the rest.
RefillSize(left) == IF remainder + left > BuffSize THEN Sector ELSE remainder

NoMove(w, at, n) == w   \* mutant: what is left stays where it was
\* The MEMCPY to the front of aFileData and the memset behind it.
MoveToFront(w, at, n) == [c \in Cells |-> IF c < n THEN w[at + c] ELSE Clear]

\* FoE_ReadData when the window holds no more than a block and the file goes on.
BlockAfterRefill ==
  LET left == readSize - offset
      more == RefillSize(left)
      w    == ReadFlash(MoveToFront(window, offset - prevOffset, left),
                        left, address, more)
      n    == Least(left + more, MaxBlock)
  IN  /\ open
      /\ offset < readSize
      /\ left <= MaxBlock /\ remainder > 0
      /\ window' = w
      /\ remainder' = remainder - more
      /\ readSize' = readSize + more
      /\ address' = address + more
      /\ prevOffset' = offset
      /\ Answer(CopyOut(w, 0, n), offset, n)
      /\ UNCHANGED <<opens, size>>

\* FoE_ReadData.
NextBlock == EndOfFile \/ BlockFromWindow \/ BlockAfterRefill

Next == NextBlock \/ RefusedOpen \/ \E s \in Sizes : FirstBlock(s)

Spec == Init /\ [][Next]_vars

\* The stack calls FoE_ReadData for every block the master acknowledges.
FairSpec == Spec /\ WF_vars(NextBlock)

-----------------------------------------------------------------------------
TypeOK ==
  /\ size \in Nat /\ readSize \in Nat /\ remainder \in Nat
  /\ address \in Nat /\ prevOffset \in Nat /\ offset \in Nat
  /\ window \in [Cells -> Nat \cup {Clear}]
  /\ open \in BOOLEAN
  /\ opens \in 0..MaxOpens

\* From a read that was opened on, the window holds, from its front on, the
\* bytes of the file from prevReadOffset to readSize; they fit in the buffer and include every byte
\* read and not yet delivered, and what was not read is counted as remaining.
WindowOK ==
  size > 0 =>
    /\ address = readSize
    /\ readSize + remainder = size
    /\ prevOffset <= offset /\ offset <= readSize
    /\ readSize - prevOffset <= BuffSize
    /\ \A p \in prevOffset..(readSize - 1) : window[p - prevOffset] = p

\* FoE_ReadData never finds the window used up with a part of the file
\* unread: it does not take the end of the window for the end of the file.
NoEarlyEnd == open /\ readSize = offset => remainder = 0

\* Reading over FoE delivers the bytes of the file as FileStream promises.
Stream == INSTANCE FileStream
DeliversFile == Stream!Spec

\* Every transfer the master goes on with ends with the whole file delivered
\* (or with nothing, if the file it turned to was refused).
TransferEnds == open ~> (~open /\ offset = size)
=============================================================================
