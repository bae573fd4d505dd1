------------------------------ MODULE BootCopy ------------------------------
(***************************************************************************)
(* The first stage of U-Boot (board/EmbedSky/boot_init.c): CopyCode2Ram    *)
(* copies U-Boot from NOR or NAND to RAM, from where start.S goes on.      *)
(*                                                                         *)
(* The unit is the sector of 512 bytes: the page of a small chip, a part   *)
(* with its own ECC of the page of a large one.  The image is in the NAND  *)
(* as nand write.jffs2 leaves it (NandUtil, WritePlaced): in order in the  *)
(* good blocks.  Block 0 is good, the CPU starts from it.                  *)
(***************************************************************************)
EXTENDS Integers, FiniteSets

CONSTANTS
    ImageSectors,       \* length of U-Boot in sectors, rounded up
    LargePage,          \* sectors in a page of a large chip
    PagesPerBlock,
    Blocks

Images == 0 .. ImageSectors - 1

ASSUME BootAssumption ==
    /\ {ImageSectors, LargePage, PagesPerBlock, Blocks} \subseteq Nat \ {0}
    /\ Blocks * PagesPerBlock >= ImageSectors + 2 * PagesPerBlock

VARIABLES
    chip,       \* what the board starts from: "nor", "small", "large"
    bad,        \* blocks with a marker in their first page
    errs,       \* wrong bits of a sector: 0, 1, or 2 for more
    pc,         \* "copy", "run" (start.S goes on), "hang"
    i,          \* the page that is read
    k,          \* the sector of the page
    buf,        \* sectors written so far: where buf points to
    ram         \* for every sector of RAM what is there: image, wrong bits

device == <<chip, bad, errs>>
vars == <<device, pc, i, k, buf, ram>>

Pages == 0 .. Blocks * PagesPerBlock - 1
Sectors == IF chip = "large" THEN LargePage ELSE 1
\* The first page of a block and the marker that is looked for in it.
Marked(p) == p % PagesPerBlock = 0 /\ p \div PagesPerBlock \in bad
Good(p) == p \div PagesPerBlock \notin bad

\* What no copy has touched, and what is in a bad block.
Blank == -1
Junk == -2

\* The good pages before page p, when the blocks of B are bad.
GoodBefore(B, p) == Cardinality({q \in 0 .. p - 1 : q \div PagesPerBlock \notin B})

\* The sector of the image in sector s of page p.
Stored(p, s) == IF Good(p) THEN GoodBefore(bad, p) * Sectors + s ELSE Junk
Read(p, s) == [image |-> Stored(p, s), wrong |-> errs[p][s]]

\* Wrong on purpose: rounded down.
SizeDown == ImageSectors \div Sectors
\* The size given to nand_read_ll and nand_read_ll_lp, in pages.
Size == (ImageSectors + Sectors - 1) \div Sectors

-----------------------------------------------------------------------------
\* The start address 0 can be written when it is the memory of the CPU, into
\* which the start of the NAND has been copied, and not when it is NOR.
BootFrmNORFlash == chip = "nor"

CopyNor ==
    /\ pc = "copy" /\ BootFrmNORFlash
    /\ ram' = [n \in DOMAIN ram |->
                  IF n \in Images THEN [image |-> n, wrong |-> 0] ELSE ram[n]]
    /\ pc' = "run"
    /\ UNCHANGED <<device, i, k, buf>>

\* nand_read_ll, one turn of its loop: a marked block is skipped and the page
\* after it is read without a second check.
NandReadLl ==
    /\ pc = "copy" /\ chip = "small"
    /\ i < Size
    /\ LET p == IF Marked(i) THEN i + PagesPerBlock ELSE i IN
       /\ ram' = [ram EXCEPT ![buf] = Read(p, 0)]
       /\ i' = p + 1
    /\ buf' = buf + 1
    /\ UNCHANGED <<device, pc, k>>

NextSector ==
    /\ buf' = buf + 1
    /\ IF k = LargePage - 1 THEN k' = 0 /\ i' = i + 1 ELSE k' = k + 1 /\ UNCHANGED i

\* Wrong on purpose: only 1 in NFESTAT0 is looked at.
NandReadLlLpLax ==
    /\ pc = "copy" /\ chip = "large"
    /\ i < Size
    /\ ram' = [ram EXCEPT ![buf] = Read(i, k)]
    /\ NextSector
    /\ UNCHANGED <<device, pc>>

\* nand_read_ll_lp, one sector; bad blocks are not looked for (if(0)).  buf has
\* passed the sector when the wrong bit is corrected: a bit of what buf points to
\* is turned.  With more wrong bits: while(1).
NandReadLlLp ==
    /\ pc = "copy" /\ chip = "large"
    /\ i < Size
    /\ IF errs[i][k] = 1
       THEN ram' = [ram EXCEPT ![buf] = Read(i, k), ![buf + 1].wrong = @ + 1]
       ELSE ram' = [ram EXCEPT ![buf] = Read(i, k)]
    /\ pc' = IF errs[i][k] > 1 THEN "hang" ELSE pc
    /\ NextSector
    /\ UNCHANGED device

CopyDone ==
    /\ pc = "copy" /\ ~BootFrmNORFlash
    /\ i >= Size
    /\ pc' = "run"
    /\ UNCHANGED <<device, i, k, buf, ram>>

-----------------------------------------------------------------------------
\* The pages a straight copy reads, and their sectors.
ReadArea == (0 .. Size - 1) \X (0 .. Sectors - 1)

BootInit ==
    /\ chip \in {"nor", "small", "large"}
    /\ bad \in SUBSET (1 .. Blocks - 1)
    /\ \E one \in SUBSET ReadArea, more \in SUBSET ReadArea :
          errs = [p \in Pages |-> [s \in 0 .. LargePage - 1 |->
                     IF <<p, s>> \in more THEN 2 ELSE IF <<p, s>> \in one THEN 1 ELSE 0]]
    /\ pc = "copy" /\ i = 0 /\ k = 0 /\ buf = 0
    /\ ram = [n \in 0 .. ImageSectors + LargePage |-> [image |-> Blank, wrong |-> 0]]

BootNext == CopyNor \/ NandReadLl \/ NandReadLlLp \/ CopyDone

BootSpec == BootInit /\ [][BootNext]_vars

-----------------------------------------------------------------------------
BootTypeOK ==
    /\ chip \in {"nor", "small", "large"}
    /\ bad \subseteq 1 .. Blocks - 1
    /\ errs \in [Pages -> [0 .. LargePage - 1 -> 0 .. 2]]
    /\ pc \in {"copy", "run", "hang"}
    /\ i \in 0 .. Size + PagesPerBlock
    /\ k \in 0 .. LargePage - 1
    /\ buf \in 0 .. Size * Sectors
    /\ DOMAIN ram = 0 .. ImageSectors + LargePage

BadInArea == {b \in bad : b * PagesPerBlock < Size}
NoNeighbours == \A b \in bad : b + 1 \notin bad
Clean == BadInArea = {} /\ \A f \in ReadArea : errs[f[1]][f[2]] = 0
Loaded(n) == ram[n] = [image |-> n, wrong |-> 0]

\* On a large chip U-Boot does not start from sectors that the ECC says it cannot
\* correct.
NeverRunsUncorrectable ==
    pc = "run" /\ chip = "large" => \A f \in ReadArea : ~(errs[f[1]][f[2]] > 1)

\* What is copied.  From pages without wrong bits and blocks that are all good, and
\* from NOR, the whole image, its last and incomplete page too.  From a small chip
\* whose bad blocks are no neighbours, the start of the image in order, and no more
\* is missing than the blocks that were skipped.
RunsTheImage ==
    /\ pc = "run" /\ (chip = "nor" \/ Clean) =>
          \A n \in Images : Loaded(n)
    /\ chip = "small" /\ NoNeighbours =>
          /\ \A n \in 0 .. buf - 1 : ram[n].image = n
          /\ pc = "run" => buf >= ImageSectors - PagesPerBlock * Cardinality(BadInArea)

\* "Check Bad Block" (boot_init.c): no page of a bad block is copied.
BadBlockChecked ==
    pc = "run" /\ chip = "small" => \A n \in Images : ram[n].image # Junk

\* The size given to nand_read_ll is that of the image: with bad blocks that are no
\* neighbours all of it is copied.
SkipsLoseNothing ==
    pc = "run" /\ chip = "small" /\ NoNeighbours => \A n \in Images : ram[n].image = n

\* "Hardware ECC" (include/configs/EmbedSky.h): a single wrong bit in a sector does
\* not get into the image that is started.
OneBitCorrected ==
    pc = "run" /\ chip = "large" /\ BadInArea = {} => \A n \in Images : Loaded(n)

-----------------------------------------------------------------------------
(***************************************************************************)
(* What the copy keeps, from which RunsTheImage and the types follow.      *)
(***************************************************************************)

\* How far the copy is: sector by sector on a large chip; on a small one a page for
\* every page that is not skipped.
Walk ==
    /\ chip = "nor" => i = 0 /\ k = 0 /\ buf = 0
    /\ chip = "large" =>
          buf = i * LargePage + k /\ i <= Size /\ (i = Size => k = 0)
    /\ chip = "small" =>
          /\ k = 0 /\ buf <= i /\ buf <= Size /\ i <= Size + PagesPerBlock
          /\ BadInArea = {} => i = buf
    /\ pc = "run" /\ chip # "nor" => i >= Size

\* All that has been copied is the image: a copy with nothing in its way, and a
\* copy from NOR.
CleanCopy ==
    /\ Clean /\ chip # "nor" => \A n \in 0 .. buf - 1 : Loaded(n)
    /\ pc = "run" /\ chip = "nor" => \A n \in Images : Loaded(n)

\* nand_read_ll never stands inside a bad block: it is where the next sector of the
\* image is, or before the bad block this sector was put behind.
InOrder ==
    chip = "small" /\ NoNeighbours =>
        /\ i % PagesPerBlock = 0 \/ Good(i)
        /\ buf = GoodBefore(bad, i)
        /\ \A n \in 0 .. buf - 1 : ram[n].image = n

\* The bad blocks nand_read_ll has met, and the pages it has left out for them.
BadSeen == {b \in BadInArea : b * PagesPerBlock < i}
LeftOut == chip = "small" => i - buf <= PagesPerBlock * Cardinality(BadSeen)
=============================================================================
