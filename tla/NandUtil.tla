------------------------------ MODULE NandUtil ------------------------------
(***************************************************************************)
(* The nand commands of U-Boot (common/cmd_nand.c) over nand_erase_opts,   *)
(* nand_write_opts and nand_read_opts (drivers/nand/nand_util.c), which    *)
(* skip bad blocks.                                                        *)
(*                                                                         *)
(* Offsets and lengths are in pages.  A page is erased, damaged, or holds  *)
(* old data or a page of the image in RAM, known by its number.  The blocks*)
(* are known by their first page.                                          *)
(***************************************************************************)
EXTENDS Integers, Sequences, FiniteSets

CONSTANTS
    PagesPerBlock,
    Blocks,
    Lens,           \* lengths given to the commands
    MaxCommands     \* bound on the commands of a behaviour

ASSUME NandAssumption ==
    /\ {PagesPerBlock, Blocks, MaxCommands} \subseteq Nat /\ Lens \subseteq Nat \ {0}
    /\ 0 < PagesPerBlock /\ 0 < Blocks

Size == Blocks * PagesPerBlock
PageNos == 0 .. Size - 1
BlockStart(p) == (p \div PagesPerBlock) * PagesPerBlock
BlockStarts == {BlockStart(p) : p \in PageNos}

Erased == -1
Damaged == -2
Old == -3

VARIABLES
    nand,           \* contents of the pages
    bad,            \* blocks with a bad block marker
    cmd,            \* the command: op, off, len
    pc,             \* "prompt", or in the command: "erase", "scan", "page"
    mtdoffset,      \* erase.addr in nand_erase_opts
    blockstart, imglen, skipfirstblk,
    buf,            \* pages read into RAM
    result,         \* of the last command: "none", "ok", "error"
    fault,          \* "yes": the device has failed in this command
    before,         \* nand when the command began
    wrote,          \* the last write that succeeded on erased pages, until another
                    \* command changes the NAND; {} otherwise
    commands        \* number of commands so far

progress == <<mtdoffset, blockstart, imglen, skipfirstblk, buf>>
history == <<before, wrote, commands>>
vars == <<nand, bad, cmd, pc, progress, result, fault, history>>

Writes == {"write", "yaffs", "plain"}
Reads == {"read", "readplain"}
\* nocheckbadblk is set for .raw; the commands without a suffix use nand_write
\* and nand_read, which do not look for bad blocks either.
Checks(op) == op \notin {"plain", "readplain"}

\* nand_block_isbad; at the end of the device the address wraps.
IsBad(b) ==
    IF b > Size THEN "error"
    ELSE IF b % Size \in bad THEN "bad" ELSE "good"

-----------------------------------------------------------------------------
(***************************************************************************)
(* do_nand and the entry of the three functions.                           *)
(***************************************************************************)
Begin(op, off, len) ==
    /\ pc = "prompt"
    /\ commands < MaxCommands
    /\ commands' = commands + 1
    /\ before' = nand
    /\ wrote' = IF op \in Reads THEN wrote ELSE {}
    /\ cmd' = [op |-> op, off |-> off, len |-> len]
    /\ mtdoffset' = off
    /\ blockstart' = -1
    /\ imglen' = len
    /\ skipfirstblk' = (op = "yaffs")
    /\ buf' = <<>>
    /\ fault' = "no"
    /\ UNCHANGED <<nand, bad>>

NandErase(op, off, len) ==
    /\ Begin(op, off, len)
    /\ pc' = "erase"
    /\ UNCHANGED result

\* Wrong on purpose: the last page of the device is left out.
NandCopyTight(op, off, len) ==
    /\ Begin(op, off, len)
    /\ IF len >= Size - off
       THEN pc' = "prompt" /\ result' = "error"
       ELSE pc' = "scan" /\ UNCHANGED result

\* What is longer than the device is refused.
NandCopy(op, off, len) ==
    /\ Begin(op, off, len)
    /\ IF len > Size - off
       THEN pc' = "prompt" /\ result' = "error"
       ELSE pc' = "scan" /\ UNCHANGED result

NandMarkbad(b) ==
    /\ pc = "prompt"
    /\ commands < MaxCommands
    /\ commands' = commands + 1
    /\ bad' = bad \cup {b}
    /\ cmd' = [op |-> "markbad", off |-> b, len |-> 0]
    /\ before' = nand
    /\ wrote' = {}
    /\ UNCHANGED <<nand, pc, progress, result, fault>>

-----------------------------------------------------------------------------
(***************************************************************************)
(* nand_erase_opts, one turn of its loop.                                  *)
(***************************************************************************)
Erasing == pc = "erase" /\ mtdoffset < cmd.off + cmd.len

EraseAdvances ==
    /\ mtdoffset' = mtdoffset + PagesPerBlock
    /\ UNCHANGED <<cmd, pc, blockstart, imglen, skipfirstblk, buf, result, history>>

EraseSkips ==
    /\ Erasing
    /\ cmd.op = "erase" /\ IsBad(mtdoffset) = "bad"
    /\ EraseAdvances
    /\ UNCHANGED <<nand, bad, fault>>

EraseRefused ==
    /\ Erasing
    /\ cmd.op = "erase" /\ IsBad(mtdoffset) = "error"
    /\ pc' = "prompt"
    /\ result' = "error"
    /\ UNCHANGED <<nand, bad, cmd, progress, fault, history>>

\* nand_erase_nand accepts a whole block of the device.
EraseAccepted == mtdoffset \in BlockStarts

EraseTries == Erasing /\ (cmd.op = "erase" => IsBad(mtdoffset) = "good")

BlockBecomes(c) ==
    [p \in PageNos |-> IF BlockStart(p) = mtdoffset THEN c ELSE nand[p]]

\* A scrubbed block loses its marker.
EraseBlock ==
    /\ EraseTries /\ EraseAccepted
    /\ nand' = BlockBecomes(Erased)
    /\ bad' = bad \ {mtdoffset}
    /\ EraseAdvances
    /\ UNCHANGED fault

\* An error is reported on the console, and the loop goes on.
EraseFails ==
    /\ EraseTries
    /\ EraseAdvances
    /\ UNCHANGED bad
    /\ \/ ~EraseAccepted /\ UNCHANGED <<nand, fault>>
       \/ /\ EraseAccepted
          /\ fault' = "yes"
          /\ nand' \in {nand, BlockBecomes(Damaged)}

\* Wrong on purpose: a block of which the range has only a part is left out.
EraseDoneShort ==
    /\ pc = "erase"
    /\ mtdoffset + PagesPerBlock > cmd.off + cmd.len
    /\ pc' = "prompt"
    /\ result' = "ok"
    /\ UNCHANGED <<nand, bad, cmd, progress, fault, history>>

EraseDone ==
    /\ pc = "erase"
    /\ mtdoffset >= cmd.off + cmd.len
    /\ pc' = "prompt"
    /\ result' = "ok"
    /\ UNCHANGED <<nand, bad, cmd, progress, fault, history>>

-----------------------------------------------------------------------------
(***************************************************************************)
(* nand_write_opts and nand_read_opts.                                     *)
(***************************************************************************)

\* Wrong on purpose: the block after a bad one is not checked.
ScanBlockOnce ==
    /\ pc = "scan"
    /\ blockstart # BlockStart(mtdoffset)
    /\ LET b == BlockStart(mtdoffset)
           check == IF Checks(cmd.op) THEN IsBad(b) ELSE "good"
       IN  /\ mtdoffset' = IF check = "bad" THEN b + PagesPerBlock ELSE mtdoffset
           /\ blockstart' = BlockStart(mtdoffset')
           /\ IF check = "error"
              THEN pc' = "prompt" /\ result' = "error"
              ELSE UNCHANGED <<pc, result>>
    /\ UNCHANGED <<nand, bad, cmd, imglen, skipfirstblk, buf, fault, history>>

\* Wrong on purpose: a bad block is not left.
ScanBlockStays ==
    /\ pc = "scan"
    /\ blockstart # BlockStart(mtdoffset)
    /\ IF Checks(cmd.op) /\ IsBad(BlockStart(mtdoffset)) = "bad"
       THEN UNCHANGED blockstart
       ELSE blockstart' = BlockStart(mtdoffset)
    /\ UNCHANGED <<nand, bad, cmd, pc, mtdoffset, imglen, skipfirstblk, buf, result,
                   fault, history>>

\* The inner loop: a new block is checked, and the next one if it is bad.
ScanBlock ==
    /\ pc = "scan"
    /\ blockstart # BlockStart(mtdoffset)
    /\ LET b == BlockStart(mtdoffset)
           check == IF Checks(cmd.op) THEN IsBad(b) ELSE "good"
       IN  /\ blockstart' = b
           /\ mtdoffset' = IF check = "bad" THEN b + PagesPerBlock ELSE mtdoffset
           /\ IF check = "error"
              THEN pc' = "prompt" /\ result' = "error"
              ELSE UNCHANGED <<pc, result>>
    /\ UNCHANGED <<nand, bad, cmd, imglen, skipfirstblk, buf, fault, history>>

ScanDone ==
    /\ pc = "scan"
    /\ blockstart = BlockStart(mtdoffset)
    /\ pc' = "page"
    /\ UNCHANGED <<nand, bad, cmd, progress, result, fault, history>>

\* The condition of the outer loop; what is left is an error.
LoopAgain ==
    IF imglen' > 0 /\ mtdoffset' < Size
    THEN pc' = "scan" /\ UNCHANGED result
    ELSE pc' = "prompt" /\ result' = IF imglen' > 0 THEN "error" ELSE "ok"

SkipFirstBlock ==
    /\ pc = "page" /\ skipfirstblk
    /\ skipfirstblk' = FALSE
    /\ mtdoffset' = mtdoffset + PagesPerBlock
    /\ imglen' = imglen
    /\ LoopAgain
    /\ UNCHANGED <<nand, bad, cmd, blockstart, buf, fault, history>>

\* The page of the image that is next.
ImagePage == cmd.len - imglen
Programmed(c) == IF c = Erased THEN ImagePage ELSE Damaged

WritePage ==
    /\ pc = "page" /\ ~skipfirstblk
    /\ cmd.op \in Writes
    /\ mtdoffset < Size
    /\ nand' = [nand EXCEPT ![mtdoffset] = Programmed(@)]
    /\ imglen' = imglen - 1
    /\ mtdoffset' = mtdoffset + 1
    /\ LoopAgain
    /\ wrote' = IF cmd.op = "write" /\ imglen' = 0 /\ Damaged \notin {nand'[p] : p \in PageNos}
                THEN {[off |-> cmd.off, len |-> cmd.len]} ELSE wrote
    /\ UNCHANGED <<bad, cmd, blockstart, skipfirstblk, buf, fault, before, commands>>

\* Wrong on purpose: the page is taken from the first offset on.
ReadPageUnskipped ==
    /\ pc = "page"
    /\ cmd.op \in Reads
    /\ mtdoffset < Size
    /\ buf' = Append(buf, nand[cmd.off + ImagePage])
    /\ imglen' = imglen - 1
    /\ mtdoffset' = mtdoffset + 1
    /\ LoopAgain
    /\ UNCHANGED <<nand, bad, cmd, blockstart, skipfirstblk, fault, history>>

ReadPage ==
    /\ pc = "page"
    /\ cmd.op \in Reads
    /\ mtdoffset < Size
    /\ buf' = Append(buf, nand[mtdoffset])
    /\ imglen' = imglen - 1
    /\ mtdoffset' = mtdoffset + 1
    /\ LoopAgain
    /\ UNCHANGED <<nand, bad, cmd, blockstart, skipfirstblk, fault, history>>

\* Past the end the page is refused; on the device it may fail.
PageFails ==
    /\ pc = "page" /\ ~skipfirstblk
    /\ \/ mtdoffset >= Size /\ UNCHANGED <<nand, fault>>
       \/ /\ mtdoffset < Size
          /\ fault' = "yes"
          /\ nand' = IF cmd.op \in Writes
                     THEN [nand EXCEPT ![mtdoffset] = Damaged] ELSE nand
    /\ pc' = "prompt"
    /\ result' = "error"
    /\ UNCHANGED <<bad, cmd, progress, history>>

-----------------------------------------------------------------------------
NandInit ==
    /\ nand \in {[p \in PageNos |-> IF BlockStart(p) \in S THEN Old ELSE Erased] :
                  S \in SUBSET BlockStarts}
    /\ bad \in SUBSET BlockStarts
    /\ cmd = [op |-> "none", off |-> 0, len |-> 0]
    /\ pc = "prompt"
    /\ mtdoffset = 0 /\ blockstart = -1 /\ imglen = 0 /\ skipfirstblk = FALSE
    /\ buf = <<>>
    /\ result = "none" /\ fault = "no"
    /\ before = nand /\ wrote = {} /\ commands = 0

Command ==
    \/ \E off \in 0 .. Size, len \in Lens :
          \/ \E op \in {"erase", "scrub"} : NandErase(op, off, len)
          \/ \E op \in Writes \cup Reads : NandCopy(op, off, len)
    \/ \E b \in BlockStarts : NandMarkbad(b)

Work ==
    \/ EraseSkips \/ EraseRefused \/ EraseBlock \/ EraseFails \/ EraseDone
    \/ ScanBlock \/ ScanDone \/ SkipFirstBlock \/ WritePage \/ ReadPage \/ PageFails

NandNext == Command \/ Work

NandSpec == NandInit /\ [][NandNext]_vars
\* The command runs to its end by itself.
NandLiveSpec == NandSpec /\ WF_vars(Work)

-----------------------------------------------------------------------------
Contents == {Erased, Damaged, Old} \cup Nat
Commands == {"none", "erase", "scrub", "markbad"} \cup Writes \cup Reads

NandTypeOK ==
    /\ nand \in [PageNos -> Contents] /\ before \in [PageNos -> Contents]
    /\ bad \subseteq BlockStarts
    /\ pc \in {"prompt", "erase", "scan", "page"}
    /\ cmd \in [op : Commands, off : 0 .. Size, len : Lens \cup {0}]
    /\ mtdoffset \in Nat
    /\ imglen \in Nat
    /\ blockstart \in Nat \cup {-1}
    /\ skipfirstblk \in BOOLEAN
    /\ buf \in Seq(Contents)
    /\ result \in {"none", "ok", "error"} /\ fault \in {"yes", "no"}
    /\ wrote \subseteq [off : 0 .. Size, len : Lens]
    /\ commands \in 0 .. MaxCommands

Good(p) == BlockStart(p) \notin bad
\* With the blocks B bad: the pages that can hold data from off on, how many of
\* them lie before p, the place of the k-th of them, and where the data of a command
\* begin: a YAFFS image after a good block.
GoodFrom(B, off) == {p \in PageNos : p >= off /\ BlockStart(p) \notin B}
Rank(B, off, p) == Cardinality({q \in GoodFrom(B, off) : q < p})
PlaceOf(B, off, k) == CHOOSE p \in GoodFrom(B, off) : Rank(B, off, p) = k
OriginOf(B, c) ==
    IF c.op # "yaffs" THEN c.off
    ELSE IF GoodFrom(B, c.off) = {} THEN Size
    ELSE PlaceOf(B, c.off, 0) + PagesPerBlock
Origin == OriginOf(bad, cmd)

\* An erase changes whole blocks, only blocks that begin in its range, and no bad
\* ones unless it scrubs.  What "@return 0 in case of success" (nand_util.c) says
\* holds when the offset is that of a block and no block fails: every good block of
\* the range is erased, the last one also when the length ends in it.  (Otherwise
\* the result is ok as well, and the blocks are as they were.)
ErasePlaced ==
    cmd.op \in {"erase", "scrub"} =>
        LET inRange == {p \in PageNos : BlockStart(p) \in cmd.off .. cmd.off + cmd.len - 1} IN
        /\ \A p \in PageNos : nand[p] # before[p] =>
              /\ p \in inRange /\ (Good(p) \/ cmd.op = "scrub")
              /\ \A q \in PageNos : BlockStart(q) = BlockStart(p) => nand[q] = nand[p]
        /\ pc = "prompt" /\ result = "ok" /\ cmd.off \in BlockStarts /\ fault = "no" =>
              \A p \in inRange : Good(p) => nand[p] = Erased

\* A write changes no page of a bad block, however many of them follow each other.
\* When it succeeds it has put the k-th page of the image at the k-th page of the
\* good blocks from its origin on, and has changed nothing else; a YAFFS image
\* leaves the first good block free.
WritePlaced ==
    cmd.op \in {"write", "yaffs"} =>
        LET places == {PlaceOf(bad, Origin, k) : k \in 0 .. cmd.len - 1} IN
        /\ \A p \in PageNos : ~Good(p) => nand[p] = before[p]
        /\ pc = "prompt" /\ result = "ok" =>
              /\ \A k \in 0 .. cmd.len - 1 :
                    LET p == PlaceOf(bad, Origin, k) IN
                    nand[p] = IF before[p] = Erased THEN k ELSE Damaged
              /\ \A p \in PageNos \ places : nand[p] = before[p]

\* nand read.jffs2 with the offset and the length of a nand write.jffs2 to erased
\* pages gets the image back, wherever the bad blocks are and whatever commands
\* came before: both skip bad blocks (README.nand, line 226).
ReadBack ==
    pc = "prompt" /\ cmd.op = "read" /\ result = "ok"
      /\ [off |-> cmd.off, len |-> cmd.len] \in wrote =>
        buf = [k \in 1 .. cmd.len |-> k - 1]

\* Without a failure of the device, writing and reading report an error only when
\* the good blocks up to the end of the device are too few: "Data did not fit
\* into device, due to bad blocks".
FailsForRoomOnly ==
    pc = "prompt" /\ cmd.op \in {"write", "yaffs", "read"} /\ fault = "no" =>
        (result = "error" <=> cmd.len > Cardinality(GoodFrom(bad, Origin))
                              \/ cmd.len > Size - cmd.off)

\* Every command comes to its end: no row of bad blocks and no offset makes the
\* loops run forever.
CommandEnds == pc # "prompt" ~> pc = "prompt"

\* What README.nand says of nand write: it stops with an error where a page is in
\* a block that is marked bad.
PlainStopsAtBad ==
    pc = "prompt" /\ cmd.op = "plain" /\ result = "ok" =>
        \A p \in cmd.off .. cmd.off + cmd.len - 1 : Good(p)

\* What README.nand (lines 64-67) says of nand read.jffs2: "the data for blocks that
\* are marked bad is read as 0xff".
BadReadAsErased ==
    pc = "prompt" /\ cmd.op = "read" /\ result = "ok" =>
        \A k \in 1 .. cmd.len : ~Good(cmd.off + k - 1) => buf[k] = Erased

-----------------------------------------------------------------------------
(***************************************************************************)
(* The inductive invariants.  First nand_erase_opts: the blocks that have  *)
(* been passed are erased.                                                 *)
(***************************************************************************)
EraseProgress ==
    pc = "erase" =>
        /\ cmd.op \in {"erase", "scrub"}
        /\ mtdoffset >= cmd.off
        /\ cmd.off \in BlockStarts =>
              /\ BlockStart(mtdoffset) = mtdoffset
              /\ fault = "no" => \A p \in PageNos :
                    BlockStart(p) \in cmd.off .. mtdoffset - 1 /\ Good(p) => nand[p] = Erased

\* The commands that look for bad blocks.
Skipping == cmd.op \in {"write", "yaffs", "read"}
Copying == pc \in {"scan", "page"}
CopyDone == pc = "prompt" /\ result = "ok"
Copied == cmd.len - imglen

\* The block of mtdoffset has been looked at before a page of it is used.
BlockLookedAt ==
    Copying =>
        /\ cmd.op \in Writes \cup Reads
        /\ cmd.len \in Lens /\ cmd.len <= Size - cmd.off
        /\ imglen \in 1 .. cmd.len
        /\ mtdoffset >= cmd.off
        /\ skipfirstblk => cmd.op = "yaffs"
        /\ pc = "page" => blockstart = BlockStart(mtdoffset)
        /\ Skipping /\ blockstart = BlockStart(mtdoffset) => IsBad(blockstart) = "good"

\* As many good pages lie between the origin o and m as have been copied, n, and
\* they have the ranks below n.
Counted(B, o, m, n) ==
    /\ o \in Nat /\ m >= o
    /\ Rank(B, o, m) = n
    /\ \A k \in 0 .. n - 1 : \E p \in GoodFrom(B, o) : p < m /\ Rank(B, o, p) = k

\* Until the first good block is skipped there is no good page.
PagesCounted ==
    (Copying \/ CopyDone) /\ Skipping =>
        /\ CopyDone => imglen = 0 /\ ~skipfirstblk /\ cmd.len <= Size - cmd.off
        /\ skipfirstblk => /\ imglen = cmd.len /\ nand = before
                           /\ Rank(bad, cmd.off, mtdoffset) = 0
        /\ ~skipfirstblk => Counted(bad, Origin, mtdoffset, Copied)

PagesWritten ==
    /\ cmd.op \in {"write", "yaffs"} => \A p \in PageNos : ~Good(p) => nand[p] = before[p]
    /\ (Copying \/ CopyDone) /\ cmd.op \in {"write", "yaffs"} /\ ~skipfirstblk =>
          \A p \in PageNos :
             nand[p] = IF p \in GoodFrom(bad, Origin) /\ p < mtdoffset
                       THEN IF before[p] = Erased THEN Rank(bad, Origin, p) ELSE Damaged
                       ELSE before[p]

\* Page k of the image is the k-th good page from off on.
PageAt(B, off, k, c, pages) ==
    \E p \in GoodFrom(B, off) : Rank(B, off, p) = k /\ pages[p] = c

PagesRead ==
    (Copying \/ CopyDone) /\ cmd.op = "read" =>
        /\ ~skipfirstblk
        /\ Len(buf) = Copied
        /\ \A k \in 0 .. Copied - 1 : PageAt(bad, cmd.off, k, buf[k + 1], nand)

\* The image that was written is in its place until another command writes.
ImageInPlace ==
    /\ wrote # {} => cmd.op \in Reads \/ (cmd.op = "write" /\ pc = "prompt")
    /\ \A w \in wrote : \A k \in 0 .. w.len - 1 : PageAt(bad, w.off, k, k, nand)

CopyResult ==
    pc = "prompt" /\ Skipping =>
        /\ result \in {"ok", "error"}
        /\ result = "error" /\ fault = "no" =>
              cmd.len > Cardinality(GoodFrom(bad, Origin)) \/ cmd.len > Size - cmd.off
=============================================================================
