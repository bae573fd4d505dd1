----------------------------- MODULE NandProofs -----------------------------
(***************************************************************************)
(* Proofs about the nand commands, for every size of blocks and device,    *)
(* every set of bad blocks and every sequence of commands.                 *)
(***************************************************************************)
EXTENDS NandUtil, FiniteSetTheorems, TLAPS

-----------------------------------------------------------------------------
(***************************************************************************)
(* Blocks.                                                                 *)
(***************************************************************************)
LEMMA BlockOf ==
    ASSUME NEW k \in Nat, NEW q \in Nat,
           k * PagesPerBlock <= q, q < k * PagesPerBlock + PagesPerBlock
    PROVE  BlockStart(q) = k * PagesPerBlock
  <1> USE NandAssumption
  <1> DEFINE d == q \div PagesPerBlock
  <1>1. d \in Nat /\ d * PagesPerBlock <= q /\ q < d * PagesPerBlock + PagesPerBlock
    OBVIOUS
  <1>2. d = k
    <2> HIDE DEF d
    <2>1. CASE d < k
      <3>1. (d + 1) * PagesPerBlock <= k * PagesPerBlock
        BY <1>1, <2>1
      <3> QED
        BY <1>1, <3>1
    <2>2. CASE k < d
      <3>1. (k + 1) * PagesPerBlock <= d * PagesPerBlock
        BY <1>1, <2>2
      <3> QED
        BY <1>1, <3>1
    <2> QED
      BY <1>1, <2>1, <2>2
  <1> QED
    BY <1>2 DEF BlockStart

\* A block begins at a multiple of its size, and holds the pages from there on.
LEMMA BlockBounds ==
    ASSUME NEW p \in Nat
    PROVE  /\ BlockStart(p) \in Nat
           /\ BlockStart(p) <= p /\ p < BlockStart(p) + PagesPerBlock
           /\ \A q \in Nat : BlockStart(p) <= q /\ q < BlockStart(p) + PagesPerBlock
                                => BlockStart(q) = BlockStart(p)
           /\ BlockStart(BlockStart(p)) = BlockStart(p)
           /\ BlockStart(p + PagesPerBlock) = BlockStart(p) + PagesPerBlock
  <1> USE NandAssumption
  <1> DEFINE k == p \div PagesPerBlock
  <1>1. k \in Nat /\ k * PagesPerBlock <= p /\ p < k * PagesPerBlock + PagesPerBlock
    OBVIOUS
  <1>2. BlockStart(p) = k * PagesPerBlock
    BY DEF BlockStart
  <1> HIDE DEF k
  <1>3. k * PagesPerBlock \in Nat /\ (k + 1) * PagesPerBlock = k * PagesPerBlock + PagesPerBlock
    BY <1>1
  <1>4. k + 1 \in Nat /\ p + PagesPerBlock \in Nat
    BY <1>1
  <1>5. BlockStart(p + PagesPerBlock) = (k + 1) * PagesPerBlock
    BY <1>1, <1>3, <1>4, BlockOf
  <1>6. BlockStart(k * PagesPerBlock) = k * PagesPerBlock
    BY <1>1, <1>3, BlockOf
  <1> QED
    BY <1>1, <1>2, <1>3, <1>5, <1>6, BlockOf

LEMMA SizeType == Size \in Nat /\ Size > 0 /\ PagesPerBlock \in Nat /\ PagesPerBlock > 0
  BY NandAssumption DEF Size

\* The blocks of the device begin on the device.
LEMMA BlockStartsType ==
    /\ \A b \in BlockStarts : b \in PageNos /\ BlockStart(b) = b
    /\ \A p \in PageNos : p \in Nat /\ BlockStart(p) \in BlockStarts /\ BlockStart(p) \in PageNos
  <1>1. \A p \in PageNos : p \in Nat /\ BlockStart(p) \in BlockStarts /\ BlockStart(p) \in PageNos
    BY SizeType, BlockBounds DEF PageNos, BlockStarts
  <1>2. ASSUME NEW b \in BlockStarts
        PROVE  b \in PageNos /\ BlockStart(b) = b
    <2>1. PICK p \in PageNos : b = BlockStart(p)
      BY DEF BlockStarts
    <2>2. p \in Nat /\ b \in Nat /\ b < b + PagesPerBlock
      BY <2>1, <1>1, BlockBounds, SizeType
    <2>3. BlockStart(b) = b
      BY <2>1, <2>2, BlockBounds
    <2> QED
      BY <2>1, <2>3, <1>1
  <1> QED
    BY <1>1, <1>2

\* On the device nand_block_isbad looks at the block it is asked for.
LEMMA IsBadOnDevice ==
    ASSUME NEW b \in PageNos
    PROVE  IsBad(b) = IF b \in bad THEN "bad" ELSE "good"
  <1>1. b \in Nat /\ b < Size /\ b % Size = b
    BY SizeType DEF PageNos
  <1> QED
    BY <1>1, SizeType DEF IsBad
-----------------------------------------------------------------------------
(***************************************************************************)
(* Types, and the block that has been looked at.                           *)
(***************************************************************************)
Base == NandTypeOK /\ BlockLookedAt

LEMMA BaseStarts == NandInit => Base
  <1> SUFFICES ASSUME NandInit PROVE Base
    OBVIOUS
  <1>1. nand \in [PageNos -> Contents]
    BY DEF NandInit, Contents
  <1>2. cmd \in [op : Commands, off : 0 .. Size, len : Lens \cup {0}]
    BY SizeType DEF NandInit, Commands
  <1>3. commands \in 0 .. MaxCommands
    BY NandAssumption DEF NandInit
  <1>4. buf = <<>> /\ blockstart = -1 /\ skipfirstblk = FALSE
    BY DEF NandInit
  <1>5. before = nand /\ bad \subseteq BlockStarts /\ pc = "prompt" /\ mtdoffset = 0
            /\ imglen = 0 /\ result = "none" /\ fault = "no" /\ wrote = {}
    BY DEF NandInit
  <1>6. buf \in Seq(Contents)
    BY <1>4
  <1>7. NandTypeOK
    BY <1>1, <1>2, <1>3, <1>4, <1>5, <1>6 DEF NandTypeOK
  <1> QED
    BY <1>5, <1>7 DEF Base, BlockLookedAt, Copying

\* A command that begins.
LEMMA BeginBase ==
    ASSUME Base, Command
    PROVE  Base'
  <1> USE DEF Base
  <1>1. ASSUME NEW op \in {"erase", "scrub"} \cup Writes \cup Reads, NEW off \in 0 .. Size,
               NEW len \in Lens, Begin(op, off, len),
               pc' \in {"prompt", "erase", "scan"}, result' \in {result, "error"},
               pc' = "scan" => op \in Writes \cup Reads /\ len <= Size - off
        PROVE  Base'
    <2>1. off \in Nat /\ len \in Nat /\ len > 0
      BY <1>1, SizeType, NandAssumption
    <2>2. commands' \in 0 .. MaxCommands
      BY <1>1, NandAssumption DEF Begin, NandTypeOK
    <2>3. cmd' \in [op : Commands, off : 0 .. Size, len : Lens \cup {0}]
      BY <1>1 DEF Begin, Commands
    <2>4. wrote' \subseteq [off : 0 .. Size, len : Lens]
      BY <1>1 DEF Begin, NandTypeOK
    <2>5. NandTypeOK'
      BY <1>1, <2>1, <2>2, <2>3, <2>4 DEF Begin, NandTypeOK
    <2>6. BlockLookedAt'
      <3>1. blockstart' = -1 /\ mtdoffset' = off
        BY <1>1 DEF Begin
      <3>2. BlockStart(off) # -1
        BY <2>1, BlockBounds
      <3>3. BlockStart(mtdoffset') # blockstart'
        BY <3>1, <3>2
      <3>4. cmd'.op = op /\ cmd'.off = off /\ cmd'.len = len /\ imglen' = len
               /\ skipfirstblk' = (op = "yaffs")
        BY <1>1 DEF Begin
      <3> SUFFICES ASSUME Copying' PROVE BlockLookedAt'
        BY DEF BlockLookedAt
      <3>5. op \in Writes \cup Reads /\ len <= Size - off /\ pc' = "scan"
        BY <1>1 DEF Copying
      <3>6. imglen' \in 1 .. cmd'.len /\ mtdoffset' >= cmd'.off
        BY <2>1, <3>1, <3>4
      <3>7. cmd'.op \in Writes \cup Reads /\ cmd'.len \in Lens /\ cmd'.len <= Size - cmd'.off
        BY <3>4, <3>5
      <3> QED
        BY <3>3, <3>4, <3>5, <3>6, <3>7 DEF BlockLookedAt
    <2> QED
      BY <2>5, <2>6
  <1>2. ASSUME NEW off \in 0 .. Size, NEW len \in Lens, NEW op \in {"erase", "scrub"},
               NandErase(op, off, len)
        PROVE  Base'
    BY <1>1, <1>2 DEF NandErase
  <1>3. ASSUME NEW off \in 0 .. Size, NEW len \in Lens, NEW op \in Writes \cup Reads,
               NandCopy(op, off, len)
        PROVE  Base'
    <2>1. CASE len > Size - off
      BY <1>1, <1>3, <2>1 DEF NandCopy
    <2>2. CASE ~(len > Size - off)
      <3>1. len <= Size - off
        BY <2>2, SizeType, NandAssumption
      <3> QED
        BY <1>1, <1>3, <2>2, <3>1 DEF NandCopy
    <2> QED
      BY <2>1, <2>2
  <1>4. ASSUME NEW b \in BlockStarts, NandMarkbad(b)
        PROVE  Base'
    <2>1. commands' \in 0 .. MaxCommands
      BY <1>4, NandAssumption DEF NandMarkbad, NandTypeOK
    <2>2. b \in 0 .. Size
      BY SizeType, BlockStartsType DEF PageNos
    <2>3. cmd' \in [op : Commands, off : 0 .. Size, len : Lens \cup {0}]
      BY <1>4, <2>2 DEF NandMarkbad, Commands
    <2> QED
      BY <1>4, <2>1, <2>3 DEF NandMarkbad, NandTypeOK, BlockLookedAt, Copying, progress
  <1> QED
    BY <1>2, <1>3, <1>4 DEF Command

LEMMA EraseBase ==
    ASSUME Base, EraseSkips \/ EraseRefused \/ EraseBlock \/ EraseFails \/ EraseDone
    PROVE  Base'
  <1> USE DEF Base, NandTypeOK
  <1>1. nand' \in [PageNos -> Contents]
    BY DEF EraseSkips, EraseRefused, EraseBlock, EraseFails, EraseDone, BlockBecomes,
           Contents
  <1>2. mtdoffset' \in Nat
    BY SizeType DEF EraseSkips, EraseRefused, EraseBlock, EraseFails, EraseDone, EraseAdvances,
           progress
  <1>3. ~Copying'
    BY DEF EraseSkips, EraseRefused, EraseBlock, EraseFails, EraseDone, EraseAdvances, Erasing,
           EraseTries, Copying
  <1> QED
    BY <1>1, <1>2, <1>3
    DEF EraseSkips, EraseRefused, EraseBlock, EraseFails, EraseDone, EraseAdvances, BlockLookedAt,
        Erasing, EraseTries, progress, history

\* The inner loop stops at a block that is good.
LEMMA ScanBase ==
    ASSUME Base, ScanBlock \/ ScanDone
    PROVE  Base'
  <1> USE DEF Base, NandTypeOK
  <1> DEFINE b == BlockStart(mtdoffset)
  <1>1. /\ b \in Nat /\ b <= mtdoffset /\ mtdoffset < b + PagesPerBlock
        /\ BlockStart(b + PagesPerBlock) # b
    <2>1. b \in Nat /\ b <= mtdoffset /\ mtdoffset < b + PagesPerBlock
      BY BlockBounds
    <2>2. b + PagesPerBlock \in Nat
      BY <2>1, SizeType
    <2>3. BlockStart(b) = b
      BY <2>1, BlockBounds
    <2> QED
      BY <2>1, <2>2, <2>3, BlockBounds, SizeType
  <1>2. CASE ScanDone
    BY <1>2 DEF ScanDone, BlockLookedAt, Copying, Skipping, IsBad, BlockStart, progress, history
  <1>3. CASE ScanBlock
    <2>1. PICK check \in {"bad", "good", "error"} :
             /\ check = IF Checks(cmd.op) THEN IsBad(b) ELSE "good"
             /\ blockstart' = b
             /\ mtdoffset' = IF check = "bad" THEN b + PagesPerBlock ELSE mtdoffset
             /\ IF check = "error"
                THEN pc' = "prompt" /\ result' = "error"
                ELSE UNCHANGED <<pc, result>>
      BY <1>3 DEF ScanBlock, IsBad
    <2>2. pc = "scan" /\ UNCHANGED <<nand, bad, cmd, imglen, skipfirstblk, buf, fault, history>>
      BY <1>3 DEF ScanBlock
    <2>3. NandTypeOK'
      BY <1>1, <2>1, <2>2, SizeType DEF history
    <2>4. Skipping => Checks(cmd.op)
      BY DEF Skipping, Checks
    <2>5. Copying' /\ Skipping' /\ blockstart' = BlockStart(mtdoffset)' => IsBad(b) = "good"
      BY <1>1, <2>1, <2>2, <2>4 DEF Skipping, Copying, BlockStart
    <2>6. IsBad(blockstart)' = IsBad(b)
      BY <2>1, <2>2 DEF IsBad
    <2> HIDE DEF b
    <2>7. mtdoffset' >= mtdoffset
      BY <1>1, <2>1, SizeType
    <2> QED
      BY <2>1, <2>2, <2>3, <2>5, <2>6, <2>7, SizeType
      DEF BlockLookedAt, Copying, Skipping
  <1> QED
    BY <1>2, <1>3
\* What the page steps have in common.
LEMMA LoopBase ==
    ASSUME Base, pc = "page",
           \/ SkipFirstBlock \/ WritePage \/ ReadPage
    PROVE  /\ blockstart = BlockStart(mtdoffset)
           /\ Skipping => IsBad(blockstart) = "good"
           /\ cmd.len \in Lens /\ cmd.len <= Size - cmd.off /\ cmd.off \in Nat
           /\ imglen \in 1 .. cmd.len /\ mtdoffset \in Nat /\ cmd.len \in Nat
           /\ UNCHANGED <<bad, cmd, blockstart, fault, before>>
           /\ pc' = "scan" => imglen' > 0 /\ result' = result
           /\ pc' \in {"scan", "prompt"}
           /\ pc' = "prompt" => result' = IF imglen' > 0 THEN "error" ELSE "ok"
           /\ pc' = "prompt" /\ imglen' > 0 => mtdoffset' >= Size
  <1>1. UNCHANGED <<bad, cmd, blockstart, fault, before>> /\ LoopAgain
    BY DEF SkipFirstBlock, WritePage, ReadPage, history
  <1>2. mtdoffset' \in Nat
    BY SizeType DEF Base, NandTypeOK, SkipFirstBlock, WritePage, ReadPage
  <1>3. Copying
    BY DEF Copying
  <1>4. cmd.len \in Lens /\ cmd.len \in Nat /\ cmd.off \in Nat /\ mtdoffset \in Nat
    <2>1. cmd.len \in Lens /\ cmd.off \in 0 .. Size /\ mtdoffset \in Nat
      BY <1>3 DEF Base, NandTypeOK, BlockLookedAt
    <2>2. cmd.len \in Nat
      BY <2>1, NandAssumption
    <2>3. cmd.off \in Nat
      BY <2>1, SizeType
    <2> QED
      BY <2>1, <2>2, <2>3
  <1> QED
    BY <1>1, <1>2, <1>3, <1>4, SizeType DEF Base, BlockLookedAt, LoopAgain

LEMMA PageBase ==
    ASSUME Base, SkipFirstBlock \/ WritePage \/ ReadPage
    PROVE  Base'
  <1>1. pc = "page" /\ NandTypeOK
    BY DEF SkipFirstBlock, WritePage, ReadPage, Base
  <1>2. imglen' \in Nat /\ imglen' <= imglen /\ mtdoffset' \in Nat /\ mtdoffset' >= mtdoffset
    <2>1. imglen \in Nat /\ imglen > 0 /\ mtdoffset \in Nat
      BY <1>1, LoopBase DEF NandTypeOK
    <2>2. imglen' \in {imglen, imglen - 1}
      BY DEF SkipFirstBlock, WritePage, ReadPage
    <2>3. mtdoffset' \in {mtdoffset + PagesPerBlock, mtdoffset + 1}
      BY DEF SkipFirstBlock, WritePage, ReadPage
    <2> QED
      BY <2>1, <2>2, <2>3, SizeType
  <1>3. nand' \in [PageNos -> Contents] /\ wrote' \subseteq [off : 0 .. Size, len : Lens]
    <2>1. CASE WritePage
      <3>1. Programmed(nand[mtdoffset]) \in Contents
        BY <1>1, LoopBase, <2>1 DEF Programmed, ImagePage, Contents
      <3>2. cmd.off \in 0 .. Size /\ cmd.len \in Lens
        BY <1>1, LoopBase DEF NandTypeOK
      <3>3. nand' = [nand EXCEPT ![mtdoffset] = Programmed(nand[mtdoffset])]
        BY <2>1 DEF WritePage
      <3>4. wrote' \in {wrote, {[off |-> cmd.off, len |-> cmd.len]}}
        BY <2>1 DEF WritePage
      <3>5. nand \in [PageNos -> Contents] /\ wrote \subseteq [off : 0 .. Size, len : Lens]
        BY <1>1 DEF NandTypeOK
      <3>6. nand' \in [PageNos -> Contents]
        BY <3>1, <3>3, <3>5
      <3> QED
        BY <3>2, <3>4, <3>5, <3>6
    <2>2. CASE SkipFirstBlock \/ ReadPage
      BY <1>1, <2>2 DEF SkipFirstBlock, ReadPage, NandTypeOK, history
    <2> QED
      BY <2>1, <2>2
  <1>4. buf' \in Seq(Contents)
    <2>1. CASE ReadPage
      <3>1. mtdoffset \in PageNos
        BY <1>1, <2>1, SizeType DEF ReadPage, PageNos, NandTypeOK
      <3> QED
        BY <1>1, <2>1, <3>1 DEF ReadPage, NandTypeOK
    <2>2. CASE SkipFirstBlock \/ WritePage
      BY <1>1, <2>2 DEF SkipFirstBlock, WritePage, NandTypeOK
    <2> QED
      BY <2>1, <2>2
  <1>5. skipfirstblk' \in BOOLEAN /\ commands' = commands /\ (skipfirstblk' => skipfirstblk)
    <2>1. skipfirstblk' = FALSE \/ skipfirstblk' = skipfirstblk
      BY DEF SkipFirstBlock, WritePage, ReadPage
    <2>2. commands' = commands
      BY DEF SkipFirstBlock, WritePage, ReadPage, history
    <2>3. skipfirstblk \in BOOLEAN
      BY <1>1 DEF NandTypeOK
    <2>4. CASE skipfirstblk' = FALSE
      BY <2>2, <2>4
    <2>5. CASE skipfirstblk' = skipfirstblk
      BY <2>2, <2>3, <2>5
    <2> QED
      BY <2>1, <2>4, <2>5
  <1>6. result' \in {"none", "ok", "error"} /\ pc' \in {"scan", "prompt"}
    BY <1>1, LoopBase DEF NandTypeOK
  <1>7. NandTypeOK'
    BY <1>1, <1>2, <1>3, <1>4, <1>5, <1>6, LoopBase DEF NandTypeOK
  <1>8. BlockLookedAt'
    <2> SUFFICES ASSUME Copying' PROVE BlockLookedAt'
      BY DEF BlockLookedAt
    <2>1. pc' = "scan" /\ imglen' > 0
      BY <1>1, <1>6, LoopBase DEF Copying
    <2>2. cmd' = cmd /\ bad' = bad /\ blockstart' = blockstart
      BY <1>1, LoopBase
    <2>3. imglen' \in 1 .. cmd'.len /\ mtdoffset' >= cmd'.off
      BY <1>1, <1>2, <2>1, <2>2, LoopBase DEF Base, BlockLookedAt, Copying
    <2>4. Skipping' => IsBad(blockstart)' = "good"
      BY <1>1, <2>2, LoopBase DEF Skipping, IsBad
    <2> QED
      BY <1>1, <1>5, <2>1, <2>2, <2>3, <2>4 DEF Base, BlockLookedAt, Copying
  <1> QED
    BY <1>7, <1>8 DEF Base

LEMMA FailsBase ==
    ASSUME Base, PageFails
    PROVE  Base'
  <1>1. nand' \in [PageNos -> Contents]
    BY DEF PageFails, Base, NandTypeOK, Contents
  <1> QED
    BY <1>1 DEF PageFails, Base, NandTypeOK, BlockLookedAt, Copying, progress, history

LEMMA BaseStep ==
    ASSUME Base, [NandNext]_vars
    PROVE  Base'
  <1>1. CASE UNCHANGED vars
    BY <1>1 DEF Base, NandTypeOK, BlockLookedAt, Copying, Skipping, IsBad, vars, progress, history
  <1>2. CASE NandNext
    BY <1>2, BeginBase, EraseBase, ScanBase, PageBase, FailsBase DEF NandNext, Work
  <1> QED
    BY <1>1, <1>2

\* The variables of the commands keep their types; no page is written or read past
\* the end of the device.
THEOREM NandTypes == NandSpec => []NandTypeOK
  <1>1. Base /\ [NandNext]_vars => Base'
    BY BaseStep
  <1>2. Base => NandTypeOK
    BY DEF Base
  <1> QED
    BY BaseStarts, <1>1, <1>2, PTL DEF NandSpec
LEMMA LensType == \A n \in Lens : n \in Nat /\ n > 0
  BY NandAssumption

LEMMA OffLen ==
    ASSUME NandTypeOK
    PROVE  mtdoffset \in Nat /\ cmd.off \in Nat /\ cmd.len \in Nat /\ cmd.off <= Size
  <1>1. mtdoffset \in Nat /\ cmd.off \in 0 .. Size /\ cmd.len \in Lens \cup {0}
    BY DEF NandTypeOK
  <1>2. cmd.off \in Nat /\ cmd.off <= Size
    BY <1>1, SizeType
  <1>3. cmd.len \in Nat
    BY <1>1, LensType
  <1> QED
    BY <1>1, <1>2, <1>3

-----------------------------------------------------------------------------
(***************************************************************************)
(* nand_erase_opts.                                                        *)
(***************************************************************************)
EraseInv == EraseProgress /\ ErasePlaced

\* The parts of ErasePlaced.
Erases == cmd.op \in {"erase", "scrub"}
Touched ==
    \A p \in PageNos : nand[p] # before[p] =>
        /\ BlockStart(p) \in cmd.off .. cmd.off + cmd.len - 1 /\ (Good(p) \/ cmd.op = "scrub")
        /\ \A q \in PageNos : BlockStart(q) = BlockStart(p) => nand[q] = nand[p]
AllErased ==
    pc = "prompt" /\ result = "ok" /\ cmd.off \in BlockStarts /\ fault = "no" =>
        \A p \in PageNos : BlockStart(p) \in cmd.off .. cmd.off + cmd.len - 1 /\ Good(p)
                              => nand[p] = Erased

LEMMA EraseParts ==
    ErasePlaced <=> (Erases => Touched /\ AllErased)
  BY DEF ErasePlaced, Erases, Touched, AllErased

LEMMA ErasePartsNext ==
    ErasePlaced' <=> (Erases' => Touched' /\ AllErased')
  BY EraseParts, PTL

LEMMA EraseStarts == NandInit => EraseInv
  BY EraseParts DEF NandInit, Erases, EraseInv, EraseProgress

LEMMA BeginErases ==
    ASSUME Base, Command
    PROVE  EraseInv'
  <1>1. ASSUME NEW off \in 0 .. Size, NEW len \in Lens, NEW op \in {"erase", "scrub"},
               NandErase(op, off, len)
        PROVE  EraseInv'
    <2>1. cmd'.op = op /\ cmd'.off = off /\ mtdoffset' = off /\ pc' = "erase"
             /\ before' = nand /\ nand' = nand
      BY <1>1 DEF NandErase, Begin
    <2>2. off \in Nat
      BY SizeType
    <2>3. Touched' /\ AllErased'
      BY <2>1 DEF Touched, AllErased
    <2>4. off \in BlockStarts => BlockStart(off) = off
      BY BlockStartsType
    <2>5. off .. off - 1 = {}
      BY <2>2
    <2>6. EraseProgress'
      BY <2>1, <2>2, <2>4, <2>5 DEF EraseProgress
    <2> QED
      BY <2>3, <2>6, ErasePartsNext DEF EraseInv, Erases
  <1>2. ASSUME NEW off \in 0 .. Size, NEW len \in Lens, NEW op \in Writes \cup Reads,
               NandCopy(op, off, len)
        PROVE  EraseInv'
    <2>1. cmd'.op = op /\ pc' # "erase"
      BY <1>2 DEF NandCopy, Begin
    <2>2. op \notin {"erase", "scrub"}
      BY DEF Writes, Reads
    <2> QED
      BY <2>1, <2>2, ErasePartsNext DEF EraseInv, Erases, EraseProgress
  <1>3. ASSUME NEW b \in BlockStarts, NandMarkbad(b)
        PROVE  EraseInv'
    <2>1. cmd'.op = "markbad" /\ pc' # "erase"
      BY <1>3 DEF NandMarkbad
    <2> QED
      BY <2>1, ErasePartsNext DEF EraseInv, Erases, EraseProgress
  <1> QED
    BY <1>1, <1>2, <1>3 DEF Command

\* One turn of the loop changes only the block at mtdoffset, and only if it is
\* good or scrubbed.
LEMMA TurnTouches ==
    ASSUME Base, EraseInv, EraseSkips \/ EraseBlock \/ EraseFails
    PROVE  Touched'
  <1>1. /\ pc = "erase" /\ mtdoffset \in cmd.off .. cmd.off + cmd.len - 1
        /\ cmd.op \in {"erase", "scrub"} /\ cmd' = cmd /\ before' = before /\ Touched
    <2>1. pc = "erase" /\ mtdoffset < cmd.off + cmd.len /\ cmd' = cmd /\ before' = before
      BY DEF EraseSkips, EraseBlock, EraseFails, EraseTries, Erasing, EraseAdvances, history
    <2>2. mtdoffset >= cmd.off /\ cmd.op \in {"erase", "scrub"}
      BY <2>1 DEF EraseInv, Erases, EraseProgress
    <2>3. mtdoffset \in Nat /\ cmd.off \in Nat /\ cmd.len \in Nat
      BY OffLen DEF Base
    <2> QED
      BY <2>1, <2>2, <2>3, EraseParts DEF EraseInv, Erases
  <1>2. CASE nand' = nand /\ bad' = bad
    BY <1>1, <1>2 DEF Touched, Good
  <1>3. CASE EraseTries /\ EraseAccepted /\ \E c \in Contents : nand' = BlockBecomes(c)
    <2>1. PICK c \in Contents : nand' = BlockBecomes(c)
      BY <1>3
    <2>2. cmd.op = "scrub" \/ mtdoffset \notin bad
      BY <1>1, <1>3, BlockStartsType, IsBadOnDevice DEF EraseTries, EraseAccepted
    <2>3. bad' \in {bad, bad \ {mtdoffset}}
      BY DEF EraseSkips, EraseBlock, EraseFails
    <2>4. \A p \in PageNos : nand'[p] = IF BlockStart(p) = mtdoffset THEN c ELSE nand[p]
      BY <2>1 DEF BlockBecomes
    <2>5. ASSUME NEW p \in PageNos, nand'[p] # before[p]
          PROVE  /\ BlockStart(p) \in cmd.off .. cmd.off + cmd.len - 1
                 /\ BlockStart(p) \notin bad' \/ cmd.op = "scrub"
                 /\ \A q \in PageNos : BlockStart(q) = BlockStart(p) => nand'[q] = nand'[p]
      <3>1. CASE BlockStart(p) = mtdoffset
        BY <1>1, <2>2, <2>3, <2>4, <3>1
      <3>2. CASE BlockStart(p) # mtdoffset
        BY <1>1, <2>3, <2>4, <2>5, <3>2 DEF Touched, Good
      <3> QED
        BY <3>1, <3>2
    <2> QED
      BY <1>1, <2>5 DEF Touched, Good
  <1>4. Erased \in Contents /\ Damaged \in Contents
    BY DEF Contents
  <1> QED
    BY <1>2, <1>3, <1>4 DEF EraseSkips, EraseBlock, EraseFails

\* The block that has been passed is erased, bad or not on the device, unless the
\* device has failed.
LEMMA TurnProgress ==
    ASSUME Base, EraseInv, EraseSkips \/ EraseBlock \/ EraseFails
    PROVE  EraseProgress'
  <1>1. /\ pc = "erase" /\ pc' = pc /\ cmd' = cmd /\ mtdoffset' = mtdoffset + PagesPerBlock
        /\ fault' = "no" => fault = "no"
    BY DEF EraseSkips, EraseBlock, EraseFails, EraseTries, Erasing, EraseAdvances, Base, NandTypeOK
  <1>2. cmd.op \in {"erase", "scrub"} /\ mtdoffset >= cmd.off
    BY <1>1 DEF EraseInv, Erases, EraseProgress
  <1>3. mtdoffset \in Nat /\ cmd.off \in Nat
    BY OffLen DEF Base
  <1>4. mtdoffset' >= cmd.off
    BY <1>1, <1>2, <1>3, SizeType
  <1>5. ASSUME cmd.off \in BlockStarts
        PROVE  /\ BlockStart(mtdoffset') = mtdoffset'
               /\ fault' = "no" => \A p \in PageNos :
                     BlockStart(p) \in cmd.off .. mtdoffset' - 1 /\ BlockStart(p) \notin bad'
                         => nand'[p] = Erased
    <2>1. /\ BlockStart(mtdoffset) = mtdoffset
          /\ fault = "no" => \A p \in PageNos :
                BlockStart(p) \in cmd.off .. mtdoffset - 1 /\ Good(p) => nand[p] = Erased
      BY <1>1, <1>5 DEF EraseInv, Erases, EraseProgress
    <2>2. BlockStart(mtdoffset') = mtdoffset'
      BY <1>1, <1>3, <2>1, BlockBounds
    <2>3. ASSUME fault' = "no", NEW p \in PageNos, BlockStart(p) \in cmd.off .. mtdoffset' - 1,
                 BlockStart(p) \notin bad'
          PROVE  nand'[p] = Erased
      <3>1. BlockStart(p) \in Nat /\ BlockStart(BlockStart(p)) = BlockStart(p)
               /\ BlockStart(p) \in BlockStarts /\ BlockStart(p) \in PageNos
        BY BlockStartsType, BlockBounds
      <3>2. CASE BlockStart(p) < mtdoffset
        <4>1. BlockStart(p) \in cmd.off .. mtdoffset - 1
          BY <1>1, <1>3, <2>3, <3>1, <3>2, SizeType
        <4>2. /\ bad' \in {bad, bad \ {mtdoffset}}
              /\ \E c \in {Erased, Damaged} : nand' \in {nand, BlockBecomes(c)}
          BY DEF EraseSkips, EraseBlock, EraseFails
        <4>3. BlockStart(p) # mtdoffset
          BY <1>3, <3>1, <3>2
        <4> QED
          BY <1>1, <2>1, <2>3, <4>1, <4>2, <4>3 DEF BlockBecomes, Good
      <3>3. CASE ~(BlockStart(p) < mtdoffset)
        <4>1. BlockStart(p) = mtdoffset
          <5>1. mtdoffset <= BlockStart(p) /\ BlockStart(p) < mtdoffset + PagesPerBlock
            BY <1>1, <1>3, <2>3, <3>1, <3>3, SizeType
          <5>2. BlockStart(BlockStart(p)) = BlockStart(mtdoffset)
            BY <1>3, <2>1, <3>1, <5>1, BlockBounds
          <5> QED
            BY <2>1, <3>1, <5>2
        <4>2. ~EraseSkips
          BY <2>3, <3>1, <4>1, IsBadOnDevice DEF EraseSkips
        <4>3. ~EraseFails
          BY <2>3, <3>1, <4>1 DEF EraseFails, EraseAccepted
        <4> QED
          BY <4>1, <4>2, <4>3 DEF EraseBlock, BlockBecomes
      <3> QED
        BY <3>2, <3>3
    <2> QED
      BY <2>2, <2>3
  <1> QED
    BY <1>1, <1>2, <1>4, <1>5 DEF EraseProgress, Good

\* The loop ends past the range.
LEMMA EraseEnds ==
    ASSUME Base, EraseInv, EraseRefused \/ EraseDone
    PROVE  EraseInv'
  <1>1. /\ pc = "erase" /\ pc' = "prompt"
        /\ UNCHANGED <<nand, bad, cmd, progress, fault, history>>
    BY DEF EraseRefused, EraseDone, Erasing
  <1>2. Touched /\ EraseProgress
    BY <1>1, EraseParts DEF EraseInv, Erases, EraseProgress
  <1>3. Touched'
    BY <1>1, <1>2 DEF Touched, Good, history
  <1>4. AllErased'
    <2>1. CASE EraseRefused
      BY <2>1 DEF EraseRefused, AllErased
    <2>2. CASE EraseDone
      <3>1. mtdoffset \in Nat /\ cmd.off \in Nat /\ cmd.len \in Nat
        BY OffLen DEF Base
      <3>2. cmd.off .. cmd.off + cmd.len - 1 \subseteq cmd.off .. mtdoffset - 1
        BY <2>2, <3>1 DEF EraseDone
      <3> QED
        BY <1>1, <1>2, <3>2 DEF AllErased, EraseProgress, Good
    <2> QED
      BY <2>1, <2>2
  <1> QED
    BY <1>1, <1>3, <1>4, ErasePartsNext DEF EraseInv, Erases, EraseProgress

\* Writing and reading leave the erase alone.
LEMMA CopyKeepsErase ==
    ASSUME Base, ScanBlock \/ ScanDone \/ SkipFirstBlock \/ WritePage \/ ReadPage \/ PageFails
    PROVE  EraseInv'
  <1>1. Copying /\ cmd' = cmd /\ pc' # "erase"
    BY DEF ScanBlock, ScanDone, SkipFirstBlock, WritePage, ReadPage, PageFails, LoopAgain, Copying
  <1>2. cmd'.op \notin {"erase", "scrub"}
    BY <1>1 DEF Base, BlockLookedAt, Writes, Reads
  <1> QED
    BY <1>1, <1>2, ErasePartsNext DEF EraseInv, Erases, EraseProgress

LEMMA EraseStep ==
    ASSUME Base, EraseInv, [NandNext]_vars
    PROVE  EraseInv'
  <1>1. CASE EraseSkips \/ EraseBlock \/ EraseFails
    <2>1. AllErased'
      BY <1>1 DEF AllErased, EraseSkips, EraseBlock, EraseFails, EraseTries, Erasing, EraseAdvances
    <2> QED
      BY <1>1, <2>1, TurnTouches, TurnProgress, ErasePartsNext DEF EraseInv, Erases
  <1>2. CASE UNCHANGED vars
    <2>1. EraseProgress'
      BY <1>2 DEF EraseInv, Erases, EraseProgress, Good, vars, progress
    <2>2. (Touched' <=> Touched) /\ (AllErased' <=> AllErased) /\ cmd' = cmd
      BY <1>2 DEF Touched, AllErased, Good, vars, history
    <2> QED
      BY <2>1, <2>2, EraseParts, ErasePartsNext DEF EraseInv, Erases
  <1> QED
    BY <1>1, <1>2, BeginErases, EraseEnds, CopyKeepsErase DEF NandNext, Work

\* An erase changes whole blocks, only blocks that begin in its range and no bad
\* ones unless it scrubs; when it begins at a block, ends with ok and the device
\* has not failed, every good block of the range is erased.
THEOREM ErasesPlaced == NandSpec => []ErasePlaced
  <1>1. NandInit => Base /\ EraseInv
    BY BaseStarts, EraseStarts
  <1>2. Base /\ EraseInv /\ [NandNext]_vars => (Base /\ EraseInv)'
    BY BaseStep, EraseStep
  <1>3. EraseInv => ErasePlaced
    BY DEF EraseInv, Erases
  <1> QED
    BY <1>1, <1>2, <1>3, PTL DEF NandSpec
-----------------------------------------------------------------------------
(***************************************************************************)
(* Counting good pages.                                                    *)
(***************************************************************************)
Before(B, o, m) == {q \in GoodFrom(B, o) : q < m}

LEMMA GoodFinite ==
    ASSUME NEW B, NEW o
    PROVE  IsFiniteSet(GoodFrom(B, o)) /\ Cardinality(GoodFrom(B, o)) \in Nat
  <1>1. IsFiniteSet(PageNos)
    BY SizeType, FS_Interval DEF PageNos
  <1>2. GoodFrom(B, o) \in SUBSET PageNos
    BY DEF GoodFrom
  <1>3. IsFiniteSet(GoodFrom(B, o))
    BY <1>1, <1>2, FS_Subset
  <1> QED
    BY <1>3, FS_CardinalityType

LEMMA RankFacts ==
    ASSUME NEW B, NEW o, NEW m
    PROVE  /\ IsFiniteSet(Before(B, o, m))
           /\ Rank(B, o, m) = Cardinality(Before(B, o, m))
           /\ Rank(B, o, m) \in Nat
           /\ Rank(B, o, m) <= Cardinality(GoodFrom(B, o))
  <1>1. Before(B, o, m) \in SUBSET GoodFrom(B, o)
    BY DEF Before
  <1>2. IsFiniteSet(GoodFrom(B, o))
    BY GoodFinite
  <1>3. /\ IsFiniteSet(Before(B, o, m))
        /\ Cardinality(Before(B, o, m)) <= Cardinality(GoodFrom(B, o))
    BY <1>1, <1>2, FS_Subset
  <1>4. Cardinality(Before(B, o, m)) \in Nat
    BY <1>3, FS_CardinalityType
  <1> QED
    BY <1>3, <1>4 DEF Rank, Before

\* A good page is counted at the next page; any other is not.
LEMMA RankGood ==
    ASSUME NEW B, NEW o, NEW m \in GoodFrom(B, o)
    PROVE  Rank(B, o, m + 1) = Rank(B, o, m) + 1
  <1>1. m \in Nat /\ \A q \in GoodFrom(B, o) : q \in Nat
    BY SizeType DEF GoodFrom, PageNos
  <1>2. Before(B, o, m + 1) = Before(B, o, m) \cup {m}
    <2>1. \A q \in GoodFrom(B, o) : q < m + 1 <=> q < m \/ q = m
      BY <1>1
    <2> QED
      BY <2>1 DEF Before
  <1>3. m \notin Before(B, o, m)
    BY <1>1 DEF Before
  <1>4. Cardinality(Before(B, o, m) \cup {m}) = Cardinality(Before(B, o, m)) + 1
    BY <1>3, RankFacts, FS_AddElement
  <1>5. Cardinality(Before(B, o, m + 1)) = Cardinality(Before(B, o, m)) + 1
    BY <1>2, <1>4
  <1> QED
    BY <1>5, RankFacts

LEMMA RankSkips ==
    ASSUME NEW B, NEW o, NEW m \in Nat, NEW n \in Nat, m <= n,
           \A q \in GoodFrom(B, o) : ~(m <= q /\ q < n)
    PROVE  Rank(B, o, n) = Rank(B, o, m)
  <1>1. \A q \in GoodFrom(B, o) : q \in Nat
    BY SizeType DEF GoodFrom, PageNos
  <1>2. Before(B, o, n) = Before(B, o, m)
    BY <1>1 DEF Before
  <1> QED
    BY <1>2, RankFacts

\* The rank grows from a good page to any later place, so it tells pages apart.
LEMMA RankGrows ==
    ASSUME NEW B, NEW o, NEW p \in GoodFrom(B, o), NEW m \in Nat, p < m
    PROVE  Rank(B, o, p) < Rank(B, o, m)
  <1>1. p \in Nat /\ \A q \in GoodFrom(B, o) : q \in Nat
    BY SizeType DEF GoodFrom, PageNos
  <1>2. Before(B, o, p + 1) \in SUBSET Before(B, o, m)
    <2>1. \A q \in GoodFrom(B, o) : q < p + 1 => q < m
      BY <1>1
    <2> QED
      BY <2>1 DEF Before
  <1>3. Cardinality(Before(B, o, p + 1)) <= Cardinality(Before(B, o, m))
    BY <1>2, RankFacts, FS_Subset
  <1>4. Rank(B, o, p + 1) <= Rank(B, o, m)
    BY <1>3, RankFacts
  <1>5. Rank(B, o, p + 1) = Rank(B, o, p) + 1
    BY RankGood
  <1> QED
    BY <1>4, <1>5, RankFacts

LEMMA RankUnique ==
    ASSUME NEW B, NEW o, NEW p \in GoodFrom(B, o), NEW q \in GoodFrom(B, o),
           Rank(B, o, p) = Rank(B, o, q)
    PROVE  p = q
  <1>1. p \in Nat /\ q \in Nat
    BY SizeType DEF GoodFrom, PageNos
  <1>2. CASE p < q
    BY <1>1, <1>2, RankGrows, RankFacts
  <1>3. CASE q < p
    BY <1>1, <1>3, RankGrows, RankFacts
  <1> QED
    BY <1>1, <1>2, <1>3

LEMMA PlaceIs ==
    ASSUME NEW B, NEW o, NEW p \in GoodFrom(B, o)
    PROVE  PlaceOf(B, o, Rank(B, o, p)) = p
  BY RankUnique DEF PlaceOf

\* Past the end of the device all good pages have been counted.
LEMMA RankAtEnd ==
    ASSUME NEW B, NEW o, NEW m \in Nat, m >= Size
    PROVE  Rank(B, o, m) = Cardinality(GoodFrom(B, o))
  <1>1. Before(B, o, m) = GoodFrom(B, o)
    BY SizeType DEF Before, GoodFrom, PageNos
  <1> QED
    BY <1>1, RankFacts

LEMMA CountedStart ==
    ASSUME NEW B, NEW o \in Nat
    PROVE  Counted(B, o, o, 0) /\ Rank(B, o, o) = 0
  <1>1. Before(B, o, o) = {}
    BY SizeType DEF Before, GoodFrom, PageNos
  <1>2. Rank(B, o, o) = 0
    BY <1>1, RankFacts, FS_EmptySet
  <1> QED
    BY <1>2 DEF Counted

\* A page that is copied is the next one of the image.
LEMMA CountedPage ==
    ASSUME NEW B, NEW o \in Nat, NEW m \in PageNos, NEW n \in Nat, Counted(B, o, m, n),
           BlockStart(m) \notin B
    PROVE  /\ m \in GoodFrom(B, o) /\ Rank(B, o, m) = n
           /\ Counted(B, o, m + 1, n + 1)
  <1>1. m \in GoodFrom(B, o) /\ Rank(B, o, m) = n /\ m \in Nat
    BY SizeType DEF Counted, GoodFrom, PageNos
  <1>2. Rank(B, o, m + 1) = n + 1
    BY <1>1, RankGood
  <1>3. ASSUME NEW k \in 0 .. n
        PROVE  \E p \in GoodFrom(B, o) : p < m + 1 /\ Rank(B, o, p) = k
    <2>1. CASE k = n
      BY <1>1, <2>1
    <2>2. CASE k # n
      <3>1. k \in 0 .. n - 1
        BY <2>2
      <3>2. PICK p \in GoodFrom(B, o) : p < m /\ Rank(B, o, p) = k
        BY <3>1 DEF Counted
      <3>3. p < m + 1
        BY <1>1, <3>2, SizeType DEF GoodFrom, PageNos
      <3> QED
        BY <3>2, <3>3
    <2> QED
      BY <2>1, <2>2
  <1>4. m + 1 >= o
    BY <1>1 DEF Counted
  <1> QED
    BY <1>1, <1>2, <1>3, <1>4 DEF Counted

LEMMA CountedSkip ==
    ASSUME NEW B, NEW o \in Nat, NEW m \in Nat, NEW n \in Nat, Counted(B, o, m, n),
           NEW j \in Nat, m <= j, \A q \in GoodFrom(B, o) : ~(m <= q /\ q < j)
    PROVE  Counted(B, o, j, n)
  <1>1. Rank(B, o, j) = n
    BY RankSkips DEF Counted
  <1>2. j >= o
    BY DEF Counted
  <1>3. \A p \in GoodFrom(B, o) : p < m => p < j
    BY SizeType DEF GoodFrom, PageNos
  <1> QED
    BY <1>1, <1>2, <1>3 DEF Counted
-----------------------------------------------------------------------------
(***************************************************************************)
(* nand_write_opts and nand_read_opts: the pages that are counted.         *)
(***************************************************************************)
CountInv == PagesCounted /\ CopyResult

\* A page that is used lies in a good block.
LEMMA PageGood ==
    ASSUME Base, Skipping, pc = "page", mtdoffset < Size
    PROVE  mtdoffset \in PageNos /\ BlockStart(mtdoffset) \notin bad
  <1>1. mtdoffset \in Nat
    BY DEF Base, NandTypeOK
  <1>2. mtdoffset \in PageNos
    BY <1>1, SizeType DEF PageNos
  <1>3. BlockStart(mtdoffset) \in PageNos
    BY <1>2, BlockStartsType
  <1>4. IsBad(BlockStart(mtdoffset)) = "good"
    BY DEF Base, BlockLookedAt, Copying
  <1> QED
    BY <1>2, <1>3, <1>4, IsBadOnDevice

\* The inner loop passes no good page, and gives up only past the end.
LEMMA ScanSkips ==
    ASSUME Base, Skipping, ScanBlock
    PROVE  /\ UNCHANGED <<nand, bad, cmd, imglen, skipfirstblk, buf, fault, history>>
           /\ mtdoffset' \in Nat /\ mtdoffset <= mtdoffset'
           /\ \A q \in PageNos : BlockStart(q) \notin bad
                                    => ~(mtdoffset <= q /\ q < mtdoffset')
           /\ \/ pc = "scan" /\ pc' = "scan" /\ result' = result
              \/ pc' = "prompt" /\ result' = "error" /\ mtdoffset > Size /\ mtdoffset' = mtdoffset
  <1> DEFINE b == BlockStart(mtdoffset)
  <1>1. mtdoffset \in Nat /\ b \in Nat /\ b <= mtdoffset /\ mtdoffset < b + PagesPerBlock
    BY BlockBounds DEF Base, NandTypeOK
  <1>2. Checks(cmd.op)
    BY DEF Skipping, Checks
  <1>3. pc = "scan" /\ UNCHANGED <<nand, bad, cmd, imglen, skipfirstblk, buf, fault, history>>
    BY DEF ScanBlock
  <1>4. CASE IsBad(b) = "bad"
    <2>1. mtdoffset' = b + PagesPerBlock /\ UNCHANGED <<pc, result>>
      BY <1>2, <1>4 DEF ScanBlock
    <2>2. ASSUME NEW q \in PageNos, mtdoffset <= q, q < mtdoffset'
          PROVE  BlockStart(q) \in bad
      <3>1. q \in Nat /\ BlockStart(q) = b
        BY <1>1, <2>1, <2>2, BlockBounds, BlockStartsType, SizeType
      <3>2. b \in PageNos
        BY <3>1, BlockStartsType
      <3> QED
        BY <1>4, <3>1, <3>2, IsBadOnDevice
    <2>3. mtdoffset' \in Nat /\ mtdoffset <= mtdoffset'
      BY <1>1, <2>1, SizeType
    <2> QED
      BY <1>3, <2>1, <2>2, <2>3
  <1>5. CASE IsBad(b) = "error"
    <2>1. mtdoffset' = mtdoffset /\ pc' = "prompt" /\ result' = "error"
      BY <1>2, <1>5 DEF ScanBlock
    <2>2. b > Size
      BY <1>5 DEF IsBad
    <2>3. mtdoffset > Size
      BY <1>1, <2>2, SizeType
    <2>4. \A q \in PageNos : ~(mtdoffset <= q /\ q < mtdoffset')
      BY <1>1, <2>1, SizeType DEF PageNos
    <2> QED
      BY <1>1, <1>3, <2>1, <2>3, <2>4
  <1>6. CASE IsBad(b) = "good"
    <2>1. mtdoffset' = mtdoffset /\ UNCHANGED <<pc, result>>
      BY <1>2, <1>6 DEF ScanBlock
    <2>2. \A q \in PageNos : ~(mtdoffset <= q /\ q < mtdoffset')
      BY <1>1, <2>1, SizeType DEF PageNos
    <2> QED
      BY <1>1, <1>3, <2>1, <2>2
  <1> QED
    BY <1>4, <1>5, <1>6 DEF IsBad

LEMMA CountStarts == NandInit => CountInv
  BY DEF NandInit, CountInv, PagesCounted, CopyResult, Skipping

LEMMA BeginCounts ==
    ASSUME Base, Command
    PROVE  CountInv'
  <1>1. ASSUME NEW off \in 0 .. Size, NEW len \in Lens, NEW op \in {"erase", "scrub"},
               NandErase(op, off, len)
        PROVE  CountInv'
    <2>1. cmd'.op = op
      BY <1>1 DEF NandErase, Begin
    <2> QED
      BY <2>1 DEF CountInv, PagesCounted, CopyResult, Skipping
  <1>2. ASSUME NEW off \in 0 .. Size, NEW len \in Lens, NEW op \in Writes \cup Reads,
               NandCopy(op, off, len)
        PROVE  CountInv'
    <2>1. /\ cmd' = [op |-> op, off |-> off, len |-> len] /\ before' = nand /\ nand' = nand
          /\ mtdoffset' = off /\ imglen' = len /\ skipfirstblk' = (op = "yaffs")
      BY <1>2 DEF NandCopy, Begin
    <2>2. off \in Nat /\ len \in Nat
      BY SizeType, LensType
    <2>3. CASE len > Size - off
      <3>1. pc' = "prompt" /\ result' = "error"
        BY <1>2, <2>3 DEF NandCopy
      <3> QED
        BY <2>1, <2>3, <3>1 DEF CountInv, PagesCounted, CopyResult, Copying, CopyDone
    <2>4. CASE ~(len > Size - off)
      <3>1. pc' = "scan"
        BY <1>2, <2>4 DEF NandCopy
      <3>2. op = "yaffs" => Rank(bad', off, off) = 0
        BY <2>2, CountedStart
      <3>3. op # "yaffs" => Counted(bad', Origin', off, 0)
        BY <2>1, <2>2, CountedStart DEF Origin, OriginOf
      <3>4. Copied' = 0
        BY <2>1, <2>2 DEF Copied
      <3> QED
        BY <2>1, <3>1, <3>2, <3>3, <3>4
        DEF CountInv, PagesCounted, CopyResult, CopyDone
    <2> QED
      BY <2>3, <2>4
  <1>3. ASSUME NEW b \in BlockStarts, NandMarkbad(b)
        PROVE  CountInv'
    <2>1. cmd'.op = "markbad"
      BY <1>3 DEF NandMarkbad
    <2> QED
      BY <2>1 DEF CountInv, PagesCounted, CopyResult, Skipping
  <1> QED
    BY <1>1, <1>2, <1>3 DEF Command
LEMMA EraseCounts ==
    ASSUME EraseInv, EraseSkips \/ EraseRefused \/ EraseBlock \/ EraseFails \/ EraseDone
    PROVE  CountInv' /\ ~Skipping' /\ cmd' = cmd /\ wrote' = wrote /\ Erases
  <1>1. pc = "erase" /\ cmd' = cmd /\ wrote' = wrote
    BY DEF EraseSkips, EraseRefused, EraseBlock, EraseFails, EraseDone, EraseTries, Erasing,
           EraseAdvances, history
  <1>2. Erases
    BY <1>1 DEF EraseInv, EraseProgress, Erases
  <1>3. ~Skipping'
    BY <1>1, <1>2 DEF Skipping, Erases
  <1> QED
    BY <1>1, <1>2, <1>3 DEF CountInv, PagesCounted, CopyResult

\* Where the counts stand when a copy gives up past the end of the device.
LEMMA TooFewPages ==
    ASSUME Base, Skipping, Copying, CountInv, mtdoffset >= Size
    PROVE  cmd.len > Cardinality(GoodFrom(bad, Origin))
  <1>1. mtdoffset \in Nat /\ cmd.off \in Nat /\ cmd.len \in Nat
    BY OffLen DEF Base
  <1>2. imglen \in Nat /\ imglen > 0 /\ imglen <= cmd.len
    BY <1>1 DEF Base, BlockLookedAt
  <1>3. CASE skipfirstblk
    <2>1. Rank(bad, cmd.off, mtdoffset) = 0
      BY <1>3 DEF CountInv, PagesCounted
    <2>2. Cardinality(GoodFrom(bad, cmd.off)) = 0
      BY <1>1, <2>1, RankAtEnd
    <2>3. GoodFrom(bad, cmd.off) = {}
      BY <2>2, GoodFinite, FS_EmptySet
    <2>4. cmd.op = "yaffs"
      BY <1>3 DEF Base, BlockLookedAt
    <2>5. Origin = Size
      BY <2>3, <2>4 DEF Origin, OriginOf
    <2>6. GoodFrom(bad, Origin) = {}
      BY <2>5, SizeType DEF GoodFrom, PageNos
    <2>7. Cardinality(GoodFrom(bad, Origin)) = 0
      BY <2>6, FS_EmptySet
    <2> QED
      BY <1>1, <1>2, <2>7
  <1>4. CASE ~skipfirstblk
    <2>1. Rank(bad, Origin, mtdoffset) = cmd.len - imglen
      BY <1>4 DEF CountInv, PagesCounted, Counted, Copied
    <2>2. Rank(bad, Origin, mtdoffset) = Cardinality(GoodFrom(bad, Origin))
      BY <1>1, RankAtEnd
    <2> QED
      BY <1>1, <1>2, <2>1, <2>2
  <1> QED
    BY <1>3, <1>4

LEMMA ScanCounts ==
    ASSUME Base, CountInv, ScanBlock \/ ScanDone
    PROVE  CountInv'
  <1>1. cmd' = cmd /\ bad' = bad /\ Origin' = Origin
    BY DEF ScanBlock, ScanDone, Origin
  <1> SUFFICES ASSUME Skipping PROVE CountInv'
    BY <1>1 DEF CountInv, PagesCounted, CopyResult, Skipping
  <1>2. pc = "scan" /\ Copying /\ ~CopyDone
    BY DEF ScanBlock, ScanDone, Copying, CopyDone
  <1>3. mtdoffset \in Nat /\ cmd.off \in Nat /\ cmd.len \in Nat /\ imglen \in 1 .. cmd.len
    BY <1>2, OffLen DEF Base, BlockLookedAt
  <1>4. CASE ScanDone
    <2>1. pc' = "page" /\ UNCHANGED <<nand, bad, cmd, progress, history>>
      BY <1>4 DEF ScanDone
    <2> QED
      BY <1>1, <1>2, <2>1
      DEF CountInv, PagesCounted, CopyResult, CopyDone, Copied, Skipping, progress, history
  <1>5. CASE ScanBlock
    <2>1. CASE pc' = "scan"
      <3>1. /\ UNCHANGED <<nand, imglen, skipfirstblk, before>>
            /\ mtdoffset' \in Nat /\ mtdoffset <= mtdoffset'
            /\ \A q \in PageNos : BlockStart(q) \notin bad
                                    => ~(mtdoffset <= q /\ q < mtdoffset')
        BY <1>5, ScanSkips DEF history
      <3>2. \A o : \A q \in GoodFrom(bad, o) : ~(mtdoffset <= q /\ q < mtdoffset')
        BY <3>1 DEF GoodFrom
      <3>3. \A o : Rank(bad, o, mtdoffset') = Rank(bad, o, mtdoffset)
        BY <1>3, <3>1, <3>2, RankSkips
      <3>4. ~skipfirstblk => Counted(bad, Origin, mtdoffset', Copied)
        <4>1. SUFFICES ASSUME ~skipfirstblk PROVE Counted(bad, Origin, mtdoffset', Copied)
          OBVIOUS
        <4>2. Counted(bad, Origin, mtdoffset, Copied)
          BY <1>2, <4>1 DEF CountInv, PagesCounted
        <4>3. Origin \in Nat /\ Copied \in Nat
          BY <1>3, <4>2 DEF Counted, Copied
        <4> QED
          BY <1>3, <3>1, <3>2, <4>2, <4>3, CountedSkip
      <3> QED
        BY <1>1, <1>2, <2>1, <3>1, <3>3, <3>4
        DEF CountInv, PagesCounted, CopyResult, CopyDone, Copied
    <2>2. CASE pc' # "scan"
      <3>1. pc' = "prompt" /\ result' = "error" /\ mtdoffset > Size
        BY <1>5, <2>2, ScanSkips
      <3>2. cmd.len > Cardinality(GoodFrom(bad, Origin))
        BY <1>2, <1>3, <3>1, SizeType, TooFewPages
      <3> QED
        BY <1>1, <3>1, <3>2 DEF CountInv, PagesCounted, CopyResult, Copying, CopyDone
    <2> QED
      BY <2>1, <2>2
  <1> QED
    BY <1>4, <1>5

\* The first good block is skipped: what follows it is the origin.
LEMMA SkipCounts ==
    ASSUME Base, CountInv, SkipFirstBlock
    PROVE  CountInv'
  <1>1. /\ pc = "page" /\ skipfirstblk /\ ~skipfirstblk' /\ mtdoffset' = mtdoffset + PagesPerBlock
        /\ imglen' = imglen /\ cmd' = cmd /\ bad' = bad /\ nand' = nand /\ LoopAgain
    BY DEF SkipFirstBlock
  <1>2. cmd.op = "yaffs" /\ Skipping /\ Copying
    BY <1>1 DEF Base, BlockLookedAt, Copying, Skipping
  <1>3. mtdoffset \in Nat /\ cmd.off \in Nat /\ cmd.len \in Nat /\ imglen \in 1 .. cmd.len
           /\ mtdoffset >= cmd.off
    BY <1>2, OffLen DEF Base, BlockLookedAt
  <1>4. imglen = cmd.len /\ Rank(bad, cmd.off, mtdoffset) = 0
    BY <1>1, <1>2 DEF CountInv, PagesCounted
  <1>5. Origin' = Origin
    BY <1>1 DEF Origin
  <1>6. mtdoffset < Size => Origin = mtdoffset'
    <2> SUFFICES ASSUME mtdoffset < Size PROVE Origin = mtdoffset'
      OBVIOUS
    <2>1. mtdoffset \in GoodFrom(bad, cmd.off)
      BY <1>1, <1>2, <1>3, PageGood DEF GoodFrom
    <2>2. PlaceOf(bad, cmd.off, 0) = mtdoffset
      BY <1>4, <2>1, PlaceIs
    <2> QED
      BY <1>1, <1>2, <2>1, <2>2 DEF Origin, OriginOf
  <1>7. mtdoffset' \in Nat /\ mtdoffset < mtdoffset'
    BY <1>1, <1>3, SizeType
  <1>8. CASE mtdoffset' < Size
    <2>1. pc' = "scan"
      BY <1>1, <1>3, <1>8 DEF LoopAgain
    <2>2. Origin = mtdoffset'
      BY <1>3, <1>6, <1>7, <1>8, SizeType
    <2>3. Copied' = 0
      BY <1>1, <1>3, <1>4 DEF Copied
    <2>4. Counted(bad, Origin, mtdoffset', 0)
      BY <1>7, <2>2, CountedStart
    <2> QED
      BY <1>1, <1>5, <2>1, <2>3, <2>4 DEF CountInv, PagesCounted, CopyResult, CopyDone
  <1>9. CASE ~(mtdoffset' < Size)
    <2>1. pc' = "prompt" /\ result' = "error"
      BY <1>1, <1>3, <1>9 DEF LoopAgain
    <2>2. cmd.len > Cardinality(GoodFrom(bad, Origin))
      <3>1. CASE mtdoffset < Size
        <4>1. GoodFrom(bad, Origin) = {}
          BY <1>6, <1>7, <1>9, <3>1, SizeType DEF GoodFrom, PageNos
        <4>2. Cardinality(GoodFrom(bad, Origin)) = 0
          BY <4>1, FS_EmptySet
        <4> QED
          BY <1>3, <4>2
      <3>2. CASE ~(mtdoffset < Size)
        BY <1>2, <1>3, <3>2, SizeType, TooFewPages
      <3> QED
        BY <3>1, <3>2
    <2> QED
      BY <1>1, <1>5, <2>1, <2>2 DEF CountInv, PagesCounted, CopyResult, Copying, CopyDone
  <1> QED
    BY <1>8, <1>9
\* What holds at a page that is written or read.
LEMMA PageCopied ==
    ASSUME Base, CountInv, Skipping, WritePage \/ ReadPage
    PROVE  /\ pc = "page" /\ Copying /\ ~skipfirstblk /\ mtdoffset < Size
           /\ UNCHANGED <<bad, cmd, skipfirstblk, before, fault>> /\ Origin' = Origin
           /\ imglen' = imglen - 1 /\ mtdoffset' = mtdoffset + 1
           /\ imglen \in 1 .. cmd.len /\ mtdoffset \in PageNos /\ cmd.len \in Nat
           /\ mtdoffset \in GoodFrom(bad, Origin) /\ Rank(bad, Origin, mtdoffset) = Copied
           /\ Copied \in Nat /\ Copied' = Copied + 1
           /\ Counted(bad, Origin, mtdoffset, Copied)
           /\ Counted(bad, Origin, mtdoffset', Copied')
  <1>1. /\ pc = "page" /\ mtdoffset < Size
        /\ UNCHANGED <<bad, cmd, skipfirstblk, before, fault>>
        /\ imglen' = imglen - 1 /\ mtdoffset' = mtdoffset + 1
    BY DEF WritePage, ReadPage, history
  <1>2. ~skipfirstblk /\ Copying
    BY <1>1 DEF WritePage, ReadPage, Base, BlockLookedAt, Copying, Reads
  <1>3. imglen \in 1 .. cmd.len /\ cmd.len \in Nat
    BY <1>2, OffLen DEF Base, BlockLookedAt
  <1>4. Copied \in Nat /\ Copied' = Copied + 1
    BY <1>1, <1>3 DEF Copied
  <1>5. Counted(bad, Origin, mtdoffset, Copied)
    BY <1>2 DEF CountInv, PagesCounted
  <1>6. Origin \in Nat
    BY <1>5 DEF Counted
  <1>7. mtdoffset \in PageNos /\ BlockStart(mtdoffset) \notin bad
    BY <1>1, PageGood
  <1>8. /\ mtdoffset \in GoodFrom(bad, Origin) /\ Rank(bad, Origin, mtdoffset) = Copied
        /\ Counted(bad, Origin, mtdoffset + 1, Copied + 1)
    BY <1>4, <1>5, <1>6, <1>7, CountedPage
  <1>9. Origin' = Origin
    BY <1>1 DEF Origin
  <1> QED
    BY <1>1, <1>2, <1>3, <1>4, <1>5, <1>7, <1>8, <1>9

LEMMA PageCounts ==
    ASSUME Base, CountInv, WritePage \/ ReadPage
    PROVE  CountInv'
  <1>1. cmd' = cmd
    BY DEF WritePage, ReadPage
  <1> SUFFICES ASSUME Skipping PROVE CountInv'
    BY <1>1 DEF CountInv, PagesCounted, CopyResult, Skipping
  <1>2. pc = "page"
    BY PageCopied
  <1>3. PagesCounted'
    <2>1. CopyDone' => imglen' = 0
      <3>1. CopyDone' => ~(imglen' > 0)
        BY <1>2, LoopBase DEF CopyDone
      <3> QED
        BY <3>1, PageCopied
    <2>2. cmd.len <= Size - cmd.off
      BY <1>2, LoopBase
    <2> QED
      BY <2>1, <2>2, PageCopied DEF PagesCounted
  <1>4. CopyResult'
    <2> SUFFICES ASSUME pc' = "prompt"
                 PROVE  /\ result' \in {"ok", "error"}
                        /\ result' = "error" => cmd.len > Cardinality(GoodFrom(bad, Origin))
      BY PageCopied DEF CopyResult
    <2>1. result' = (IF imglen' > 0 THEN "error" ELSE "ok")
             /\ (imglen' > 0 => mtdoffset' >= Size)
      BY <1>2, LoopBase
    <2>2. ASSUME result' = "error"
          PROVE  cmd.len > Cardinality(GoodFrom(bad, Origin))
      <3>1. imglen' > 0 /\ mtdoffset' >= Size
        BY <2>1, <2>2
      <3>2. mtdoffset' \in Nat
        BY PageCopied, SizeType DEF PageNos
      <3>3. Rank(bad, Origin, mtdoffset') = Cardinality(GoodFrom(bad, Origin))
        BY <3>1, <3>2, RankAtEnd
      <3>4. Rank(bad, Origin, mtdoffset') = cmd.len - imglen'
        BY PageCopied DEF Counted, Copied
      <3>5. imglen' \in Nat /\ cmd.len \in Nat
        BY PageCopied
      <3> QED
        BY <3>1, <3>3, <3>4, <3>5
    <2> QED
      BY <2>1, <2>2
  <1> QED
    BY <1>3, <1>4 DEF CountInv

LEMMA FailsCounts ==
    ASSUME Base, CountInv, PageFails
    PROVE  CountInv'
  <1>1. pc = "page" /\ pc' = "prompt" /\ result' = "error" /\ cmd' = cmd /\ bad' = bad
    BY DEF PageFails
  <1>2. Skipping /\ fault' = "no" => cmd.len > Cardinality(GoodFrom(bad, Origin))
    <2> SUFFICES ASSUME Skipping, fault' = "no"
                 PROVE  cmd.len > Cardinality(GoodFrom(bad, Origin))
      OBVIOUS
    <2>1. mtdoffset >= Size
      BY DEF PageFails
    <2> QED
      BY <1>1, <2>1, TooFewPages DEF Copying
  <1> QED
    BY <1>1, <1>2
    DEF CountInv, PagesCounted, CopyResult, Copying, CopyDone, Skipping, Origin

LEMMA CountStep ==
    ASSUME Base, EraseInv, CountInv, [NandNext]_vars
    PROVE  CountInv'
  <1>1. CASE UNCHANGED vars
    BY <1>1 DEF CountInv, PagesCounted, CopyResult, Copying, CopyDone, Copied, Skipping,
                Origin, vars, progress, history
  <1>2. CASE NandNext
    BY <1>2, BeginCounts, EraseCounts, ScanCounts, SkipCounts, PageCounts, FailsCounts
    DEF NandNext, Work
  <1> QED
    BY <1>1, <1>2

LEMMA CountInvariant == NandSpec => [](Base /\ EraseInv /\ CountInv)
  <1>1. NandInit => Base /\ EraseInv /\ CountInv
    BY BaseStarts, EraseStarts, CountStarts
  <1>2. Base /\ EraseInv /\ CountInv /\ [NandNext]_vars => (Base /\ EraseInv /\ CountInv)'
    BY BaseStep, EraseStep, CountStep
  <1> QED
    BY <1>1, <1>2, PTL DEF NandSpec

\* Writing and reading report an error exactly when the good blocks up to the end
\* of the device are too few, as long as the device does not fail: no row of bad
\* blocks makes the loop stop early or run past the end.
THEOREM FailForRoomOnly == NandSpec => []FailsForRoomOnly
  <1>1. Base /\ CountInv => FailsForRoomOnly
    <2> SUFFICES ASSUME Base, CountInv, pc = "prompt", Skipping, fault = "no"
                 PROVE  result = "error" <=>
                           \/ cmd.len > Cardinality(GoodFrom(bad, Origin))
                           \/ cmd.len > Size - cmd.off
      BY DEF FailsForRoomOnly, Skipping
    <2>1. CASE result = "error"
      BY <2>1 DEF CountInv, CopyResult
    <2>2. CASE result = "ok"
      <3>1. CopyDone
        BY <2>2 DEF CopyDone
      <3>2. /\ imglen = 0 /\ cmd.len <= Size - cmd.off
            /\ Rank(bad, Origin, mtdoffset) = cmd.len - imglen
        BY <3>1 DEF CountInv, PagesCounted, Counted, Copied
      <3>3. cmd.len \in Nat /\ cmd.off \in Nat
        BY OffLen DEF Base
      <3>4. cmd.len <= Cardinality(GoodFrom(bad, Origin))
        BY <3>2, <3>3, RankFacts
      <3>5. Cardinality(GoodFrom(bad, Origin)) \in Nat
        BY GoodFinite
      <3> QED
        BY <2>2, <3>2, <3>3, <3>4, <3>5, SizeType
    <2> QED
      BY <2>1, <2>2 DEF CountInv, CopyResult
  <1> QED
    BY <1>1, CountInvariant, PTL
-----------------------------------------------------------------------------
(***************************************************************************)
(* What is written.                                                        *)
(***************************************************************************)
Writing == cmd.op \in {"write", "yaffs"}

LEMMA WriteStarts == NandInit => PagesWritten
  BY DEF NandInit, PagesWritten

LEMMA BeginWrites ==
    ASSUME Base, Command
    PROVE  PagesWritten'
  <1>1. ASSUME NEW off \in 0 .. Size, NEW len \in Lens, NEW op \in {"erase", "scrub"},
               NandErase(op, off, len)
        PROVE  PagesWritten'
    <2>1. cmd'.op = op
      BY <1>1 DEF NandErase, Begin
    <2> QED
      BY <2>1 DEF PagesWritten
  <1>2. ASSUME NEW off \in 0 .. Size, NEW len \in Lens, NEW op \in Writes \cup Reads,
               NandCopy(op, off, len)
        PROVE  PagesWritten'
    <2>1. /\ cmd' = [op |-> op, off |-> off, len |-> len] /\ before' = nand /\ nand' = nand
          /\ mtdoffset' = off /\ skipfirstblk' = (op = "yaffs")
      BY <1>2 DEF NandCopy, Begin
    <2>2. off \in Nat
      BY SizeType
    <2>3. ASSUME op = "write", NEW p \in PageNos
          PROVE  ~(p \in GoodFrom(bad', Origin') /\ p < off)
      <3>1. Origin' = off
        BY <2>1, <2>3 DEF Origin, OriginOf
      <3> QED
        BY <2>2, <3>1, SizeType DEF GoodFrom, PageNos
    <2> QED
      BY <2>1, <2>3 DEF PagesWritten
  <1>3. ASSUME NEW b \in BlockStarts, NandMarkbad(b)
        PROVE  PagesWritten'
    <2>1. cmd'.op = "markbad"
      BY <1>3 DEF NandMarkbad
    <2> QED
      BY <2>1 DEF PagesWritten
  <1> QED
    BY <1>1, <1>2, <1>3 DEF Command

\* Steps that move over pages without writing.
LEMMA ScanWrites ==
    ASSUME Base, CountInv, PagesWritten, ScanBlock \/ ScanDone
    PROVE  PagesWritten'
  <1>1. /\ UNCHANGED <<nand, bad, cmd, skipfirstblk, before>> /\ Origin' = Origin /\ Copying
    BY DEF ScanBlock, ScanDone, Origin, Copying, progress, history
  <1> SUFFICES ASSUME Writing PROVE PagesWritten'
    BY <1>1 DEF PagesWritten, Writing
  <1>2. Skipping
    BY DEF Skipping, Writing
  <1>3. \A p \in GoodFrom(bad, Origin) : p < mtdoffset' <=> p < mtdoffset
    <2>1. CASE ScanDone
      BY <2>1 DEF ScanDone, progress
    <2>2. CASE ScanBlock
      <3>1. mtdoffset' \in Nat /\ mtdoffset \in Nat /\ mtdoffset <= mtdoffset'
        BY <1>2, <2>2, ScanSkips, OffLen DEF Base
      <3>2. \A p \in GoodFrom(bad, Origin) : p \in Nat /\ ~(mtdoffset <= p /\ p < mtdoffset')
        BY <1>2, <2>2, ScanSkips, SizeType DEF GoodFrom, PageNos
      <3> QED
        BY <3>1, <3>2
    <2> QED
      BY <2>1, <2>2
  <1> QED
    BY <1>1, <1>3 DEF PagesWritten, Good

LEMMA SkipWrites ==
    ASSUME Base, CountInv, CountInv', PagesWritten, SkipFirstBlock
    PROVE  PagesWritten'
  <1>1. /\ UNCHANGED <<nand, bad, cmd, before>> /\ skipfirstblk /\ pc = "page"
        /\ mtdoffset' = mtdoffset + PagesPerBlock /\ Copying
    BY DEF SkipFirstBlock, Copying, history
  <1>2. Skipping /\ nand = before
    BY <1>1 DEF Base, BlockLookedAt, Skipping, CountInv, PagesCounted
  <1>3. Copying' \/ CopyDone' =>
           \A p \in PageNos : ~(p \in GoodFrom(bad', Origin') /\ p < mtdoffset')
    <2> SUFFICES ASSUME Copying' \/ CopyDone', NEW p \in GoodFrom(bad', Origin')
                 PROVE  ~(p < mtdoffset')
      OBVIOUS
    <2>1. ~skipfirstblk' /\ imglen' = imglen /\ cmd' = cmd /\ bad' = bad
      BY DEF SkipFirstBlock
    <2>2. Counted(bad', Origin', mtdoffset', Copied')
      BY <1>1, <1>2, <2>1 DEF CountInv, PagesCounted, Skipping
    <2>3. Copied' = 0
      <3>1. imglen = cmd.len /\ cmd.len \in Nat
        BY <1>1, <1>2, OffLen DEF CountInv, PagesCounted, Base
      <3> QED
        BY <2>1, <3>1 DEF Copied
    <2>4. mtdoffset' \in Nat
      BY <1>1, OffLen, SizeType DEF Base
    <2>5. Rank(bad', Origin', mtdoffset') = 0 /\ Rank(bad', Origin', p) \in Nat
      BY <2>2, <2>3, RankFacts DEF Counted
    <2> QED
      BY <2>4, <2>5, RankGrows
  <1> QED
    BY <1>1, <1>2, <1>3 DEF PagesWritten

LEMMA PageWrites ==
    ASSUME Base, CountInv, PagesWritten, WritePage \/ ReadPage
    PROVE  PagesWritten'
  <1>1. cmd' = cmd
    BY DEF WritePage, ReadPage
  <1> SUFFICES ASSUME Writing PROVE PagesWritten'
    BY <1>1 DEF PagesWritten, Writing
  <1>2. Skipping /\ WritePage
    BY DEF Skipping, Writing, ReadPage, Reads
  <1>3. /\ mtdoffset \in GoodFrom(bad, Origin) /\ Rank(bad, Origin, mtdoffset) = Copied
        /\ mtdoffset \in PageNos /\ mtdoffset \in Nat
        /\ mtdoffset' = mtdoffset + 1 /\ Origin' = Origin /\ bad' = bad /\ before' = before
        /\ Copying /\ ~skipfirstblk
    BY <1>2, PageCopied, BlockStartsType
  <1>4. nand' = [nand EXCEPT ![mtdoffset] = IF nand[mtdoffset] = Erased THEN Copied ELSE Damaged]
    BY <1>2 DEF WritePage, Programmed, ImagePage, Copied
  <1>5. nand \in [PageNos -> Contents]
    BY DEF Base, NandTypeOK
  <1>6. \A p \in PageNos : ~Good(p) => p # mtdoffset
    BY <1>3 DEF Good, GoodFrom
  <1>7. \A p \in PageNos : p < mtdoffset' <=> p < mtdoffset \/ p = mtdoffset
    BY <1>3, SizeType DEF PageNos
  <1>8. nand[mtdoffset] = before[mtdoffset]
    BY <1>3 DEF PagesWritten, Writing
  <1>9. \A p \in PageNos : ~Good(p) => nand'[p] = before[p]
    BY <1>4, <1>5, <1>6 DEF PagesWritten, Writing
  <1>10. ASSUME NEW p \in PageNos
         PROVE  nand'[p] = IF p \in GoodFrom(bad, Origin) /\ p < mtdoffset'
                           THEN IF before[p] = Erased THEN Rank(bad, Origin, p) ELSE Damaged
                           ELSE before[p]
    <2>1. CASE p = mtdoffset
      BY <1>3, <1>4, <1>5, <1>7, <1>8, <2>1
    <2>2. CASE p # mtdoffset
      BY <1>3, <1>4, <1>5, <1>7, <2>2 DEF PagesWritten, Writing
    <2> QED
      BY <2>1, <2>2
  <1> QED
    BY <1>1, <1>3, <1>9, <1>10 DEF PagesWritten, Good

LEMMA FailsWrites ==
    ASSUME Base, PagesWritten, PageFails
    PROVE  PagesWritten'
  <1>1. /\ pc = "page" /\ pc' = "prompt" /\ result' = "error"
        /\ UNCHANGED <<cmd, bad, before>>
        /\ nand' = nand \/ (mtdoffset < Size /\ nand' = [nand EXCEPT ![mtdoffset] = Damaged])
    BY DEF PageFails, history
  <1>2. Writing => \A p \in PageNos : ~Good(p) => nand'[p] = before[p]
    <2> SUFFICES ASSUME Writing, NEW p \in PageNos, ~Good(p)
                 PROVE  nand'[p] = before[p]
      OBVIOUS
    <2>1. mtdoffset < Size => p # mtdoffset
      BY <1>1, PageGood DEF Skipping, Writing, Good
    <2>2. nand \in [PageNos -> Contents]
      BY DEF Base, NandTypeOK
    <2> QED
      BY <1>1, <2>1, <2>2 DEF PagesWritten, Writing
  <1> QED
    BY <1>1, <1>2 DEF PagesWritten, Copying, CopyDone, Writing, Good

LEMMA WriteStep ==
    ASSUME Base, EraseInv, CountInv, PagesWritten, [NandNext]_vars
    PROVE  PagesWritten'
  <1>1. CASE UNCHANGED vars
    BY <1>1 DEF PagesWritten, Copying, CopyDone, Origin, Good, vars, progress, history
  <1>2. CASE EraseSkips \/ EraseRefused \/ EraseBlock \/ EraseFails \/ EraseDone
    BY <1>2, EraseCounts DEF PagesWritten, Skipping
  <1>3. CASE SkipFirstBlock
    BY <1>3, CountStep, SkipWrites
  <1> QED
    BY <1>1, <1>2, <1>3, BeginWrites, ScanWrites, PageWrites, FailsWrites DEF NandNext, Work

\* A write that has succeeded has put every page where PlaceOf says.
LEMMA WrittenIsPlaced ==
    ASSUME Base, CountInv, PagesWritten
    PROVE  WritePlaced
  <1> SUFFICES ASSUME Writing
               PROVE  WritePlaced
    BY DEF WritePlaced, Writing
  <1>1. \A p \in PageNos : ~Good(p) => nand[p] = before[p]
    BY DEF PagesWritten, Writing
  <1>2. ASSUME CopyDone
        PROVE  /\ \A k \in 0 .. cmd.len - 1 :
                     /\ PlaceOf(bad, Origin, k) \in PageNos
                     /\ nand[PlaceOf(bad, Origin, k)] =
                           IF before[PlaceOf(bad, Origin, k)] = Erased THEN k ELSE Damaged
               /\ \A p \in PageNos : nand[p] # before[p] =>
                     \E k \in 0 .. cmd.len - 1 : p = PlaceOf(bad, Origin, k)
    <2>1. Skipping /\ cmd.len \in Nat
      BY OffLen DEF Skipping, Writing, Base
    <2>2. imglen = 0 /\ ~skipfirstblk /\ Counted(bad, Origin, mtdoffset, Copied)
      BY <1>2, <2>1 DEF CountInv, PagesCounted
    <2>3. Copied = cmd.len
      BY <2>1, <2>2 DEF Copied
    <2>4. mtdoffset \in Nat
      BY OffLen DEF Base
    <2>5. \A p \in PageNos :
             nand[p] = IF p \in GoodFrom(bad, Origin) /\ p < mtdoffset
                       THEN IF before[p] = Erased THEN Rank(bad, Origin, p) ELSE Damaged
                       ELSE before[p]
      BY <1>2, <2>2 DEF PagesWritten, Writing
    <2>6. ASSUME NEW k \in 0 .. cmd.len - 1
          PROVE  /\ PlaceOf(bad, Origin, k) \in PageNos
                 /\ nand[PlaceOf(bad, Origin, k)] =
                       IF before[PlaceOf(bad, Origin, k)] = Erased THEN k ELSE Damaged
      <3>1. PICK p \in GoodFrom(bad, Origin) : p < mtdoffset /\ Rank(bad, Origin, p) = k
        BY <2>2, <2>3 DEF Counted
      <3>2. PlaceOf(bad, Origin, k) = p /\ p \in PageNos
        BY <3>1, PlaceIs DEF GoodFrom
      <3> QED
        BY <2>5, <3>1, <3>2
    <2>7. ASSUME NEW p \in PageNos, nand[p] # before[p]
          PROVE  \E k \in 0 .. cmd.len - 1 : p = PlaceOf(bad, Origin, k)
      <3>1. p \in GoodFrom(bad, Origin) /\ p < mtdoffset
        BY <2>5, <2>7
      <3>2. Rank(bad, Origin, p) < cmd.len
        BY <2>2, <2>3, <2>4, <3>1, RankGrows DEF Counted
      <3>3. Rank(bad, Origin, p) \in 0 .. cmd.len - 1
        BY <2>1, <3>2, RankFacts
      <3>4. PlaceOf(bad, Origin, Rank(bad, Origin, p)) = p
        BY <3>1, PlaceIs
      <3> QED
        BY <3>3, <3>4
    <2> QED
      BY <2>6, <2>7
  <1> QED
    BY <1>1, <1>2 DEF WritePlaced, CopyDone

\* A write changes no page of a bad block, and when it succeeds the k-th page of the
\* image is at the k-th page of the good blocks and nothing else has changed,
\* however the bad blocks lie; a YAFFS image leaves the first good block free.
THEOREM WritesPlaced == NandSpec => []WritePlaced
  <1>1. NandInit => PagesWritten
    BY WriteStarts
  <1>2. Base /\ EraseInv /\ CountInv /\ PagesWritten /\ [NandNext]_vars => PagesWritten'
    BY WriteStep
  <1>3. Base /\ CountInv /\ PagesWritten => WritePlaced
    BY WrittenIsPlaced
  <1> QED
    BY <1>1, <1>2, <1>3, CountInvariant, PTL DEF NandSpec
-----------------------------------------------------------------------------
(***************************************************************************)
(* What is read back.                                                      *)
(***************************************************************************)
ReadInv == PagesRead /\ ImageInPlace

LEMMA ReadStarts == NandInit => ReadInv
  BY DEF NandInit, ReadInv, PagesRead, ImageInPlace

LEMMA BeginReads ==
    ASSUME Base, ReadInv, Command
    PROVE  ReadInv'
  <1>1. ASSUME NEW off \in 0 .. Size, NEW len \in Lens, NEW op \in {"erase", "scrub"},
               NandErase(op, off, len)
        PROVE  ReadInv'
    <2>1. cmd'.op = op /\ wrote' = {}
      BY <1>1 DEF NandErase, Begin, Reads
    <2> QED
      BY <2>1 DEF ReadInv, PagesRead, ImageInPlace
  <1>2. ASSUME NEW off \in 0 .. Size, NEW len \in Lens, NEW op \in Writes \cup Reads,
               NandCopy(op, off, len)
        PROVE  ReadInv'
    <2>1. /\ cmd' = [op |-> op, off |-> off, len |-> len] /\ nand' = nand /\ bad' = bad
          /\ imglen' = len /\ buf' = <<>> /\ skipfirstblk' = (op = "yaffs")
          /\ wrote' = IF op \in Reads THEN wrote ELSE {}
          /\ pc' = "prompt" => result' = "error"
          /\ pc' \in {"scan", "prompt"}
      BY <1>2 DEF NandCopy, Begin
    <2>2. len \in Nat
      BY LensType
    <2>3. Copied' = 0
      BY <2>1, <2>2 DEF Copied
    <2>4. PagesRead'
      <3>1. Len(buf') = 0 /\ 0 .. Copied' - 1 = {}
        BY <2>1, <2>3
      <3>2. cmd'.op = "read" => ~skipfirstblk'
        BY <2>1
      <3> QED
        BY <2>3, <3>1, <3>2 DEF PagesRead
    <2>5. ImageInPlace'
      BY <2>1 DEF ReadInv, ImageInPlace
    <2> QED
      BY <2>4, <2>5 DEF ReadInv
  <1>3. ASSUME NEW b \in BlockStarts, NandMarkbad(b)
        PROVE  ReadInv'
    <2>1. cmd'.op = "markbad" /\ wrote' = {}
      BY <1>3 DEF NandMarkbad
    <2> QED
      BY <2>1 DEF ReadInv, PagesRead, ImageInPlace
  <1> QED
    BY <1>1, <1>2, <1>3 DEF Command

\* Without a read there is nothing to read back, and no step but the end of a
\* write makes an image.
LEMMA EraseReads ==
    ASSUME EraseInv, ReadInv, EraseSkips \/ EraseRefused \/ EraseBlock \/ EraseFails \/ EraseDone
    PROVE  ReadInv'
  <1>1. ~Skipping' /\ cmd' = cmd /\ wrote' = wrote /\ Erases
    BY EraseCounts
  <1>2. wrote = {}
    BY <1>1 DEF ReadInv, ImageInPlace, Erases, Reads
  <1> QED
    BY <1>1, <1>2 DEF ReadInv, PagesRead, ImageInPlace, Skipping

\* The steps that neither write nor read a page.
LEMMA MoveReads ==
    ASSUME Base, ReadInv, ScanBlock \/ ScanDone \/ SkipFirstBlock
    PROVE  ReadInv'
  <1>1. /\ Copying /\ UNCHANGED <<nand, bad, cmd, buf, wrote, imglen>>
        /\ skipfirstblk' => skipfirstblk
    BY DEF ScanBlock, ScanDone, SkipFirstBlock, Copying, Base, NandTypeOK, progress, history
  <1>2. PagesRead'
    BY <1>1 DEF ReadInv, PagesRead, Copied
  <1>3. wrote # {} => cmd.op \in Reads
    BY <1>1 DEF ReadInv, ImageInPlace, Copying
  <1> QED
    BY <1>1, <1>2, <1>3 DEF ReadInv, ImageInPlace

LEMMA PageReads ==
    ASSUME Base, CountInv, ReadInv, ReadPage
    PROVE  ReadInv'
  <1>1. /\ UNCHANGED <<nand, bad, cmd, wrote>> /\ buf' = Append(buf, nand[mtdoffset])
        /\ cmd.op \in Reads
    BY DEF ReadPage, history
  <1>2. ImageInPlace'
    BY <1>1 DEF ReadInv, ImageInPlace
  <1>3. PagesRead'
    <2> SUFFICES ASSUME cmd.op = "read" PROVE PagesRead'
      BY <1>1 DEF PagesRead
    <2>1. Skipping
      BY DEF Skipping
    <2>2. /\ Copying /\ ~skipfirstblk /\ skipfirstblk' = skipfirstblk
          /\ mtdoffset \in GoodFrom(bad, Origin) /\ Rank(bad, Origin, mtdoffset) = Copied
          /\ Copied \in Nat /\ Copied' = Copied + 1
      BY <2>1, PageCopied
    <2>3. Origin = cmd.off
      BY DEF Origin, OriginOf
    <2>4. Len(buf) = Copied /\ buf \in Seq(Contents)
      BY <2>2 DEF ReadInv, PagesRead, Base, NandTypeOK
    <2>5. /\ Len(buf') = Copied + 1 /\ buf'[Copied + 1] = nand[mtdoffset]
          /\ \A k \in 0 .. Copied - 1 : buf'[k + 1] = buf[k + 1]
      BY <1>1, <2>2, <2>4
    <2>6. ASSUME NEW k \in 0 .. Copied
          PROVE  PageAt(bad, cmd.off, k, buf'[k + 1], nand)
      <3>1. CASE k = Copied
        BY <2>2, <2>3, <2>5, <3>1 DEF PageAt
      <3>2. CASE k # Copied
        <4>1. k \in 0 .. Copied - 1
          BY <2>2, <3>2
        <4> QED
          BY <2>2, <2>5, <4>1 DEF ReadInv, PagesRead
      <3> QED
        BY <3>1, <3>2
    <2>7. 0 .. Copied' - 1 = 0 .. Copied
      BY <2>2
    <2> QED
      BY <1>1, <2>2, <2>5, <2>6, <2>7 DEF PagesRead
  <1> QED
    BY <1>2, <1>3 DEF ReadInv

\* The last page of a write to erased pages completes the image.
LEMMA PageMakesImage ==
    ASSUME Base, CountInv, ReadInv, PagesWritten', WritePage
    PROVE  ReadInv'
  <1>1. cmd' = cmd /\ cmd.op \in Writes /\ pc = "page" /\ Copying
    BY DEF WritePage, Copying
  <1>2. wrote = {}
    BY <1>1 DEF ReadInv, ImageInPlace, Writes, Reads
  <1>3. PagesRead'
    BY <1>1 DEF PagesRead, Writes
  <1>4. CASE wrote' = {}
    BY <1>3, <1>4 DEF ReadInv, ImageInPlace
  <1>5. CASE wrote' # {}
    <2>1. /\ cmd.op = "write" /\ imglen' = 0
          /\ \A p \in PageNos : nand'[p] # Damaged
          /\ wrote' = {[off |-> cmd.off, len |-> cmd.len]}
      BY <1>2, <1>5 DEF WritePage
    <2>2. Skipping /\ Origin = cmd.off
      BY <2>1 DEF Skipping, Origin, OriginOf
    <2>3. /\ Counted(bad, cmd.off, mtdoffset', cmd.len) /\ bad' = bad /\ Origin' = cmd.off
          /\ skipfirstblk' = skipfirstblk /\ ~skipfirstblk
      <3>1. Copied' = cmd.len
        BY <1>1, <2>1, <2>2, PageCopied DEF Copied
      <3> QED
        BY <2>2, <3>1, PageCopied
    <2>4. pc' = "prompt" /\ CopyDone'
      <3>1. pc' = "prompt"
        BY <1>1, <2>1, LoopBase
      <3>2. result' = "ok"
        BY <1>1, <2>1, <3>1, LoopBase
      <3> QED
        BY <3>1, <3>2 DEF CopyDone
    <2>5. ASSUME NEW k \in 0 .. cmd.len - 1
          PROVE  PageAt(bad', cmd.off, k, k, nand')
      <3>1. PICK p \in GoodFrom(bad, cmd.off) : p < mtdoffset' /\ Rank(bad, cmd.off, p) = k
        BY <2>3 DEF Counted
      <3>2. p \in PageNos
        BY DEF GoodFrom
      <3>3. nand'[p] = IF before'[p] = Erased THEN k ELSE Damaged
        BY <1>1, <2>1, <2>3, <2>4, <3>1, <3>2 DEF PagesWritten
      <3>4. nand'[p] = k
        BY <2>1, <3>2, <3>3
      <3> QED
        BY <2>3, <3>1, <3>4 DEF PageAt
    <2>6. ImageInPlace'
      BY <1>1, <2>1, <2>4, <2>5 DEF ImageInPlace
    <2> QED
      BY <1>3, <2>6 DEF ReadInv
  <1> QED
    BY <1>4, <1>5

LEMMA FailsReads ==
    ASSUME Base, ReadInv, PageFails
    PROVE  ReadInv'
  <1>1. /\ UNCHANGED <<bad, cmd, wrote>> /\ pc = "page" /\ pc' = "prompt" /\ result' = "error"
        /\ cmd.op \notin Writes => nand' = nand
    BY DEF PageFails, history
  <1>2. PagesRead'
    BY <1>1 DEF PagesRead, Copying, CopyDone
  <1>3. wrote # {} => cmd.op \in Reads
    BY <1>1 DEF ReadInv, ImageInPlace
  <1>4. cmd.op \in Reads => nand' = nand
    BY <1>1 DEF Reads, Writes
  <1> QED
    BY <1>1, <1>2, <1>3, <1>4 DEF ReadInv, ImageInPlace

LEMMA ReadStep ==
    ASSUME Base, EraseInv, CountInv, PagesWritten, ReadInv, [NandNext]_vars
    PROVE  ReadInv'
  <1>1. CASE UNCHANGED vars
    BY <1>1 DEF ReadInv, PagesRead, ImageInPlace, Copying, CopyDone, Copied, vars, progress,
                history
  <1>2. CASE WritePage
    BY <1>2, WriteStep, PageMakesImage
  <1> QED
    BY <1>1, <1>2, BeginReads, EraseReads, MoveReads, PageReads, FailsReads DEF NandNext, Work

\* A read with the offset and the length of a write to erased pages gets the image
\* back, wherever the bad blocks are, as long as no other command has written.
THEOREM ReadsBack == NandSpec => []ReadBack
  <1>1. NandInit => PagesWritten /\ ReadInv
    BY WriteStarts, ReadStarts
  <1>2. Base /\ EraseInv /\ CountInv /\ PagesWritten /\ ReadInv /\ [NandNext]_vars
            => PagesWritten' /\ ReadInv'
    BY WriteStep, ReadStep
  <1>3. Base /\ CountInv /\ ReadInv => ReadBack
    <2> SUFFICES ASSUME Base, CountInv, ReadInv, CopyDone, cmd.op = "read",
                        [off |-> cmd.off, len |-> cmd.len] \in wrote
                 PROVE  buf = [k \in 1 .. cmd.len |-> k - 1]
      BY DEF ReadBack, CopyDone
    <2>1. cmd.len \in Nat /\ buf \in Seq(Contents)
      BY OffLen DEF Base, NandTypeOK
    <2>2. Copied = cmd.len
      BY <2>1 DEF CountInv, PagesCounted, Skipping, Copied
    <2>3. Len(buf) = cmd.len
      BY <2>2 DEF ReadInv, PagesRead
    <2>4. ASSUME NEW k \in 0 .. cmd.len - 1
          PROVE  buf[k + 1] = k
      <3>1. PageAt(bad, cmd.off, k, buf[k + 1], nand)
        BY <2>2 DEF ReadInv, PagesRead
      <3>2. PageAt(bad, cmd.off, k, k, nand)
        BY DEF ReadInv, ImageInPlace
      <3>3. PICK p \in GoodFrom(bad, cmd.off) : Rank(bad, cmd.off, p) = k /\ nand[p] = buf[k + 1]
        BY <3>1 DEF PageAt
      <3>4. PICK q \in GoodFrom(bad, cmd.off) : Rank(bad, cmd.off, q) = k /\ nand[q] = k
        BY <3>2 DEF PageAt
      <3>5. p = q
        BY <3>3, <3>4, RankUnique
      <3> QED
        BY <3>3, <3>4, <3>5
    <2>5. ASSUME NEW j \in 1 .. cmd.len
          PROVE  buf[j] = j - 1
      <3>1. j - 1 \in 0 .. cmd.len - 1 /\ (j - 1) + 1 = j
        BY <2>1
      <3>2. buf[(j - 1) + 1] = j - 1
        BY <2>4, <3>1
      <3> QED
        BY <3>1, <3>2
    <2> QED
      BY <2>1, <2>3, <2>5
  <1> QED
    BY <1>1, <1>2, <1>3, CountInvariant, PTL DEF NandSpec
=============================================================================
