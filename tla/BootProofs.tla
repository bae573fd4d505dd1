----------------------------- MODULE BootProofs -----------------------------
(***************************************************************************)
(* Proofs about BootCopy, for images, pages and chips of any size, any bad *)
(* blocks and any wrong bits.                                              *)
(***************************************************************************)
EXTENDS BootCopy, FiniteSetTheorems, TLAPS

\* Where the copy is.
Position ==
    /\ i \in Nat /\ k \in 0 .. LargePage - 1
    /\ chip \in {"nor", "small", "large"}
    /\ pc \in {"copy", "run", "hang"}

\* The sectors that a copy from a large chip has passed.
Passed(f) == f[1] < i \/ (f[1] = i /\ f[2] < k)

\* What has been read without a stop could be corrected, and U-Boot is started
\* only behind the last page.
PassedIsCorrectable ==
    chip = "large" =>
        /\ pc # "hang" => \A f \in ReadArea : Passed(f) => ~(errs[f[1]][f[2]] > 1)
        /\ pc = "run" => i >= Size

BootInv == Position /\ PassedIsCorrectable

LEMMA InitInv == BootInit => BootInv
<1> SUFFICES ASSUME BootInit PROVE BootInv
  OBVIOUS
<1>1. Position
  BY BootAssumption DEF BootInit, Position
<1>3. ASSUME NEW f \in ReadArea PROVE ~Passed(f)
  <2>1. f[1] \in Nat /\ f[2] \in Nat
    BY DEF ReadArea
  <2> QED BY <2>1 DEF BootInit, Passed
<1>4. PassedIsCorrectable
  BY <1>3 DEF BootInit, PassedIsCorrectable
<1> QED BY <1>1, <1>4 DEF BootInv

LEMMA SizeIsInt == chip = "large" => Sectors = LargePage
BY DEF Sectors

\* The next sector: what is passed after it was passed before or is this one.
LEMMA NextSectorPasses ==
    ASSUME Position, chip = "large", NextSector, NEW f \in ReadArea, Passed(f)'
    PROVE  Passed(f) \/ f = <<i, k>>
<1>1. f[1] \in Int /\ f[2] \in 0 .. LargePage - 1 /\ f = <<f[1], f[2]>>
  BY SizeIsInt DEF ReadArea
<1>2. CASE k = LargePage - 1
  <2>1. k' = 0 /\ i' = i + 1
    BY <1>2 DEF NextSector
  <2>2. f[1] < i + 1
    BY <1>1, <2>1 DEF Passed
  <2>3. f[1] < i \/ f[1] = i
    BY <1>1, <2>2 DEF Position
  <2>4. f[2] < k \/ f[2] = k
    BY <1>1, <1>2, BootAssumption DEF Position
  <2> QED BY <1>1, <2>3, <2>4 DEF Passed
<1>3. CASE k # LargePage - 1
  <2>1. k' = k + 1 /\ i' = i
    BY <1>3 DEF NextSector
  <2>2. f[1] < i \/ (f[1] = i /\ f[2] < k + 1)
    BY <2>1 DEF Passed
  <2>3. f[2] < k + 1 => f[2] < k \/ f[2] = k
    BY <1>1 DEF Position
  <2> QED BY <1>1, <2>2, <2>3 DEF Passed
<1> QED BY <1>2, <1>3

LEMMA ReadAreaFixed ==
    ASSUME UNCHANGED device
    PROVE  ReadArea' = ReadArea /\ Size' = Size
BY DEF ReadArea, Size, Sectors, device

LEMMA LpStep == BootInv /\ NandReadLlLp => BootInv'
<1> SUFFICES ASSUME BootInv, NandReadLlLp PROVE BootInv'
  OBVIOUS
<1> USE DEF BootInv
<1>0. UNCHANGED <<chip, errs>> /\ chip = "large" /\ pc = "copy"
  BY DEF NandReadLlLp, device
<1>1. Position'
  BY <1>0, BootAssumption DEF Position, NandReadLlLp, NextSector
<1>2. ASSUME pc' # "hang", NEW f \in ReadArea', Passed(f)' PROVE ~(errs'[f[1]][f[2]] > 1)
  <2>1. f \in ReadArea
    BY ReadAreaFixed DEF NandReadLlLp
  <2>2. Passed(f) \/ f = <<i, k>>
    BY <1>0, <1>2, <2>1, NextSectorPasses DEF NandReadLlLp
  <2>3. Passed(f) => ~(errs[f[1]][f[2]] > 1)
    BY <1>0, <2>1 DEF PassedIsCorrectable
  <2>5. ~(errs[i][k] > 1)
    BY <1>0, <1>2 DEF NandReadLlLp
  <2>6. f = <<i, k>> => ~(errs[f[1]][f[2]] > 1)
    BY <2>5
  <2> QED BY <1>0, <2>2, <2>3, <2>6
<1>3. pc' # "run"
  BY <1>0 DEF NandReadLlLp
<1>4. PassedIsCorrectable'
  BY <1>2, <1>3 DEF PassedIsCorrectable
<1> QED BY <1>0, <1>1, <1>4

LEMMA NextInv == BootInv /\ [BootNext]_vars => BootInv'
<1> SUFFICES ASSUME BootInv, [BootNext]_vars PROVE BootInv'
  OBVIOUS
<1>1. CASE NandReadLlLp
  BY <1>1, LpStep
<1>2. CASE CopyNor
  BY <1>2 DEF BootInv, CopyNor, BootFrmNORFlash, device, Position, PassedIsCorrectable
<1>3. CASE NandReadLl
  <2>1. i' \in Nat /\ UNCHANGED <<chip, errs, pc, k>> /\ chip = "small"
    <3>1. PagesPerBlock \in Nat /\ i \in Nat
      BY BootAssumption DEF BootInv, Position
    <3> QED BY <1>3, <3>1 DEF NandReadLl, device
  <2> QED BY <2>1 DEF BootInv, Position, PassedIsCorrectable
<1>4. CASE CopyDone
  <2>1. UNCHANGED <<chip, errs, i, k>> /\ pc' = "run" /\ pc = "copy" /\ i >= Size
    BY <1>4 DEF CopyDone, device
  <2>2. ReadArea' = ReadArea /\ Size' = Size
    BY <1>4, ReadAreaFixed DEF CopyDone
  <2>3. \A f \in ReadArea : Passed(f)' <=> Passed(f)
    BY <2>1 DEF Passed
  <2>4. PassedIsCorrectable'
    BY <2>1, <2>2, <2>3 DEF BootInv, PassedIsCorrectable
  <2> QED BY <2>1, <2>4 DEF BootInv, Position
<1>5. CASE UNCHANGED vars
  BY <1>5 DEF vars, device, BootInv, Position, PassedIsCorrectable, Passed, ReadArea,
              Size, Sectors
<1> QED BY <1>1, <1>2, <1>3, <1>4, <1>5 DEF BootNext

LEMMA Stops == BootInv => NeverRunsUncorrectable
<1> SUFFICES ASSUME BootInv, pc = "run", chip = "large", NEW f \in ReadArea PROVE ~(errs[f[1]][f[2]] > 1)
  BY DEF NeverRunsUncorrectable
<1>1. f[1] \in 0 .. Size - 1
  BY DEF ReadArea
<1>2. i >= Size /\ i \in Nat
  BY DEF BootInv, PassedIsCorrectable, Position
<1>3. Size \in Int
  BY BootAssumption, SizeIsInt DEF Size
<1>4. f[1] < i
  BY <1>1, <1>2, <1>3
<1> QED BY <1>4 DEF BootInv, PassedIsCorrectable, Passed

\* With any image and any pattern of wrong bits, nand_read_ll_lp hands over to
\* U-Boot only when the ECC has found no sector with more than one wrong bit.
THEOREM StopsAtUncorrectable == BootSpec => []NeverRunsUncorrectable
<1>1. BootInit => BootInv
  BY InitInv
<1>2. BootInv /\ [BootNext]_vars => BootInv'
  BY NextInv
<1>3. BootInv => NeverRunsUncorrectable
  BY Stops
<1> QED BY <1>1, <1>2, <1>3, PTL DEF BootSpec
-----------------------------------------------------------------------------
(***************************************************************************)
(* Pages, blocks and sizes.                                                *)
(***************************************************************************)
LEMMA Sizes == /\ ImageSectors \in Nat /\ ImageSectors > 0
               /\ LargePage \in Nat /\ LargePage > 0
               /\ PagesPerBlock \in Nat /\ PagesPerBlock > 0
               /\ Blocks \in Nat /\ Blocks > 0
  BY BootAssumption

\* The last page may be incomplete, and is read too.
LEMMA SizeCovers ==
    /\ Size \in Nat
    /\ chip # "large" => Size = ImageSectors /\ Sectors = 1
    /\ chip = "large" => /\ Sectors = LargePage
                         /\ Size * LargePage >= ImageSectors
                         /\ Size * LargePage < ImageSectors + LargePage
  <1>1. CASE chip # "large"
    BY <1>1, Sizes DEF Size, Sectors
  <1>2. CASE chip = "large"
    <2> DEFINE all == ImageSectors + LargePage - 1
    <2>1. all \in Nat /\ Size = all \div LargePage /\ Sectors = LargePage
      BY <1>2, Sizes DEF Size, Sectors
    <2>2. ASSUME NEW a \in Nat
          PROVE  /\ a \div LargePage \in Nat
                 /\ (a \div LargePage) * LargePage <= a
                 /\ a < (a \div LargePage) * LargePage + LargePage
      BY Sizes
    <2>3. Size \in Nat /\ Size * LargePage <= all /\ all < Size * LargePage + LargePage
      BY <2>1, <2>2
    <2> DEFINE s == Size * LargePage
    <2>4. s \in Nat
      BY <2>3, Sizes
    <2>5. s <= all /\ all < s + LargePage
      BY <2>3
    <2> HIDE DEF s
    <2>6. s >= ImageSectors /\ s < ImageSectors + LargePage
      BY <2>4, <2>5, Sizes
    <2> QED BY <1>2, <2>1, <2>3, <2>6 DEF s
  <1> QED BY <1>1, <1>2

LEMMA BlockOfPage ==
    ASSUME NEW b \in Nat, NEW q \in Nat,
           b * PagesPerBlock <= q, q < b * PagesPerBlock + PagesPerBlock
    PROVE  q \div PagesPerBlock = b
  <1> USE Sizes
  <1> DEFINE d == q \div PagesPerBlock
  <1>1. d \in Nat /\ d * PagesPerBlock <= q /\ q < d * PagesPerBlock + PagesPerBlock
    OBVIOUS
  <1> HIDE DEF d
  <1>2. CASE d < b
    <2>1. (d + 1) * PagesPerBlock <= b * PagesPerBlock
      BY <1>1, <1>2
    <2> QED BY <1>1, <2>1
  <1>3. CASE b < d
    <2>1. (b + 1) * PagesPerBlock <= d * PagesPerBlock
      BY <1>1, <1>3
    <2> QED BY <1>1, <2>1
  <1>4. d = b
    BY <1>1, <1>2, <1>3
  <1> QED BY <1>4 DEF d

\* The page where a block begins, and the block a page is in.
LEMMA PageInBlock ==
    ASSUME NEW p \in Nat
    PROVE  /\ p \div PagesPerBlock \in Nat
           /\ (p \div PagesPerBlock) * PagesPerBlock \in Nat
           /\ (p \div PagesPerBlock) * PagesPerBlock <= p
           /\ p < (p \div PagesPerBlock) * PagesPerBlock + PagesPerBlock
           /\ p % PagesPerBlock = 0 => (p \div PagesPerBlock) * PagesPerBlock = p
  BY Sizes

LEMMA NextPageInBlock ==
    ASSUME NEW p \in Nat, (p + 1) % PagesPerBlock # 0
    PROVE  (p + 1) \div PagesPerBlock = p \div PagesPerBlock
  <1> DEFINE b == p \div PagesPerBlock
             first == b * PagesPerBlock
  <1>1. b \in Nat /\ first \in Nat /\ first <= p /\ p < first + PagesPerBlock
    BY PageInBlock
  <1> HIDE DEF b
  <1>2. p + 1 # first + PagesPerBlock
    <2> SUFFICES ASSUME p + 1 = first + PagesPerBlock PROVE FALSE
      OBVIOUS
    <2>1. p + 1 = (b + 1) * PagesPerBlock
      BY <1>1, Sizes
    <2>2. b + 1 \in Nat /\ \A c \in Nat : (c * PagesPerBlock) % PagesPerBlock = 0
      BY <1>1, Sizes
    <2> QED BY <2>1, <2>2
  <1>3. p + 1 \in Nat /\ first <= p + 1 /\ p + 1 < first + PagesPerBlock
    BY <1>1, <1>2, Sizes
  <1>4. (p + 1) \div PagesPerBlock = b
    BY <1>1, <1>3, BlockOfPage
  <1> QED BY <1>4 DEF b

-----------------------------------------------------------------------------
(***************************************************************************)
(* Counting good pages.                                                    *)
(***************************************************************************)
LEMMA GoodBeforeNext ==
    ASSUME NEW B, NEW p \in Nat
    PROVE  /\ GoodBefore(B, p) \in Nat
           /\ GoodBefore(B, p + 1) =
                 GoodBefore(B, p) + (IF p \div PagesPerBlock \notin B THEN 1 ELSE 0)
  <1> DEFINE S(n) == {q \in 0 .. n - 1 : q \div PagesPerBlock \notin B}
  <1>1. IsFiniteSet(S(p))
    <2>1. IsFiniteSet(0 .. p - 1)
      BY FS_Interval
    <2> QED BY <2>1, FS_Subset
  <1>2. Cardinality(S(p)) \in Nat
    BY <1>1, FS_CardinalityType
  <1>3. CASE p \div PagesPerBlock \notin B
    <2>1. S(p + 1) = S(p) \cup {p} /\ p \notin S(p)
      BY <1>3
    <2>2. Cardinality(S(p) \cup {p}) = Cardinality(S(p)) + 1
      BY <1>1, <2>1, FS_AddElement
    <2> QED BY <1>2, <1>3, <2>1, <2>2 DEF GoodBefore
  <1>4. CASE p \div PagesPerBlock \in B
    <2>1. S(p + 1) = S(p)
      BY <1>4
    <2> QED BY <1>2, <1>4, <2>1 DEF GoodBefore
  <1> QED BY <1>3, <1>4

LEMMA GoodBeforeFirst == \A B : GoodBefore(B, 0) = 0
  <1> TAKE B
  <1>1. {q \in 0 .. 0 - 1 : q \div PagesPerBlock \notin B} = {}
    OBVIOUS
  <1> QED BY <1>1, FS_EmptySet DEF GoodBefore

LEMMA AllGoodBefore ==
    ASSUME NEW B, NEW p \in Nat, \A q \in 0 .. p - 1 : q \div PagesPerBlock \notin B
    PROVE  GoodBefore(B, p) = p
  <1>1. {q \in 0 .. p - 1 : q \div PagesPerBlock \notin B} = 0 .. p - 1
    OBVIOUS
  <1>2. Cardinality(0 .. p - 1) = p
    <2>1. Cardinality(0 .. p - 1) = IF 0 > p - 1 THEN 0 ELSE (p - 1) - 0 + 1
      BY FS_Interval
    <2> QED BY <2>1
  <1> QED BY <1>1, <1>2 DEF GoodBefore

\* A bad block that is skipped holds no sector of the image.
LEMMA GoodBeforeSkips ==
    ASSUME NEW B, NEW p \in Nat, p % PagesPerBlock = 0, p \div PagesPerBlock \in B
    PROVE  /\ GoodBefore(B, p + PagesPerBlock) = GoodBefore(B, p)
           /\ (p + PagesPerBlock) \div PagesPerBlock = p \div PagesPerBlock + 1
  <1> DEFINE b == p \div PagesPerBlock
  <1>1. b \in Nat /\ b * PagesPerBlock = p
    BY PageInBlock
  <1> HIDE DEF b
  <1>2. ASSUME NEW q \in Nat, p <= q, q < p + PagesPerBlock
        PROVE  q \div PagesPerBlock \in B
    <2>1. q \div PagesPerBlock = b
      BY <1>1, <1>2, BlockOfPage
    <2> QED BY <2>1 DEF b
  <1> DEFINE S(n) == {q \in 0 .. n - 1 : q \div PagesPerBlock \notin B}
  <1>3. S(p + PagesPerBlock) = S(p)
    BY <1>2, Sizes
  <1>4. (b + 1) * PagesPerBlock = p + PagesPerBlock /\ b + 1 \in Nat /\ p + PagesPerBlock \in Nat
    BY <1>1, Sizes
  <1>5. p + PagesPerBlock < (p + PagesPerBlock) + PagesPerBlock
    BY Sizes
  <1>6. (p + PagesPerBlock) \div PagesPerBlock = b + 1
    BY <1>4, <1>5, BlockOfPage
  <1>7. GoodBefore(B, p + PagesPerBlock) = GoodBefore(B, p)
    <2>1. \A n : GoodBefore(B, n) = Cardinality(S(n))
      BY DEF GoodBefore
    <2> HIDE DEF S
    <2> QED BY <1>3, <2>1
  <1> QED BY <1>6, <1>7 DEF b

-----------------------------------------------------------------------------
(***************************************************************************)
(* Types, and how far the copy is.                                         *)
(***************************************************************************)
Placed ==
    /\ Position
    /\ bad \subseteq 1 .. Blocks - 1
    /\ errs \in [Pages -> [0 .. LargePage - 1 -> 0 .. 2]]
    /\ buf \in Nat
    /\ DOMAIN ram = 0 .. ImageSectors + LargePage
    /\ Walk

LEMMA PlacedStarts == BootInit => Placed
  <1> SUFFICES ASSUME BootInit PROVE Placed
    OBVIOUS
  <1>1. Position
    BY BootAssumption DEF BootInit, Position
  <1>2. errs \in [Pages -> [0 .. LargePage - 1 -> 0 .. 2]]
    BY DEF BootInit
  <1>3. bad \subseteq 1 .. Blocks - 1 /\ buf = 0 /\ i = 0 /\ k = 0 /\ pc = "copy"
    BY DEF BootInit
  <1>4. DOMAIN ram = 0 .. ImageSectors + LargePage
    BY DEF BootInit
  <1>5. Walk
    BY <1>3, SizeCovers, Sizes DEF Walk
  <1> QED BY <1>1, <1>2, <1>3, <1>4, <1>5 DEF Placed

\* Nothing changes what is in the flash.
LEMMA DeviceFixed ==
    ASSUME UNCHANGED device
    PROVE  /\ UNCHANGED <<chip, bad, errs, Size, Sectors, BadInArea, ReadArea>>
           /\ NoNeighbours' = NoNeighbours /\ Clean' = Clean
  <1>1. UNCHANGED <<chip, bad, errs>>
    BY DEF device
  <1>2. UNCHANGED <<Size, Sectors>>
    BY <1>1 DEF Size, Sectors
  <1>3. UNCHANGED <<BadInArea, ReadArea>>
    BY <1>1, <1>2 DEF BadInArea, ReadArea
  <1> QED BY <1>1, <1>2, <1>3 DEF NoNeighbours, Clean

\* The sector that is written is a sector of RAM, and the one behind it is too.
LEMMA BufInRam ==
    ASSUME Placed, chip # "nor", i < Size
    PROVE  buf \in DOMAIN ram /\ buf + 1 \in DOMAIN ram
  <1> USE Sizes, SizeCovers DEF Placed, Position
  <1>1. CASE chip = "small"
    <2>1. buf <= i /\ Size = ImageSectors
      BY <1>1 DEF Walk
    <2> QED BY <2>1
  <1>2. CASE chip = "large"
    <2>1. buf = i * LargePage + k
      BY <1>2 DEF Walk
    <2>2. (i + 1) * LargePage <= Size * LargePage
      OBVIOUS
    <2> DEFINE x == i * LargePage
               y == Size * LargePage
    <2>3. x \in Nat /\ y \in Nat /\ x + LargePage <= y /\ buf = x + k /\ y < ImageSectors + LargePage
      BY <1>2, <2>1, <2>2
    <2> HIDE DEF x, y
    <2> QED BY <2>3
  <1> QED BY <1>1, <1>2

LEMMA LargePlaced ==
    ASSUME Placed, NandReadLlLp
    PROVE  Placed'
  <1> USE Sizes, SizeCovers DEF Placed
  <1>0. chip = "large" /\ pc = "copy" /\ i < Size /\ pc' \in {"copy", "hang"}
    BY DEF NandReadLlLp
  <1>1. UNCHANGED <<chip, bad, errs, Size>>
    BY DeviceFixed DEF NandReadLlLp
  <1>2. buf' = buf + 1 /\ DOMAIN ram' = DOMAIN ram
    BY DEF NandReadLlLp, NextSector
  <1>3. Position'
    <2>1. (k' = 0 /\ i' = i + 1) \/ (k # LargePage - 1 /\ k' = k + 1 /\ i' = i)
      BY DEF NandReadLlLp, NextSector
    <2>2. i' \in Nat /\ k' \in 0 .. LargePage - 1
      BY <2>1, Sizes DEF Position
    <2> QED BY <1>0, <1>1, <2>2 DEF Position
  <1>4. i \in Nat /\ k \in 0 .. LargePage - 1 /\ buf = i * LargePage + k
    BY <1>0 DEF Walk, Position
  <1>5. buf' = i' * LargePage + k' /\ i' <= Size /\ (i' = Size => k' = 0)
    <2>1. CASE k = LargePage - 1
      <3>1. k' = 0 /\ i' = i + 1
        BY <2>1 DEF NandReadLlLp, NextSector
      <3>2. (i + 1) * LargePage = i * LargePage + LargePage /\ i * LargePage \in Nat
        BY <1>4
      <3> QED BY <1>0, <1>2, <1>4, <2>1, <3>1, <3>2
    <2>2. CASE k # LargePage - 1
      <3>1. k' = k + 1 /\ i' = i
        BY <2>2 DEF NandReadLlLp, NextSector
      <3>2. i * LargePage \in Nat
        BY <1>4
      <3> QED BY <1>0, <1>2, <1>4, <3>1, <3>2
    <2> QED BY <2>1, <2>2
  <1>6. Walk'
    BY <1>0, <1>1, <1>5 DEF Walk
  <1> QED BY <1>1, <1>2, <1>3, <1>6

\* The page nand_read_ll reads, and what it does with it.
LEMMA SmallStep ==
    ASSUME Placed, NandReadLl
    PROVE  /\ chip = "small" /\ pc = "copy" /\ pc' = "copy" /\ k' = k
           /\ i < Size /\ i \in Nat /\ buf \in Nat
           /\ UNCHANGED <<chip, bad, errs, Size, BadInArea>> /\ UNCHANGED device
           /\ NoNeighbours' = NoNeighbours /\ Clean' = Clean
           /\ buf' = buf + 1 /\ DOMAIN ram' = DOMAIN ram
           /\ i' = (IF Marked(i) THEN i + PagesPerBlock ELSE i) + 1
           /\ ram' = [ram EXCEPT ![buf] = Read(IF Marked(i) THEN i + PagesPerBlock ELSE i, 0)]
  <1>1. UNCHANGED device
    BY DEF NandReadLl
  <1> QED BY <1>1, DeviceFixed DEF NandReadLl, Placed, Position

\* A block whose first page is read and marked lies in the area of the image.
LEMMA MarkedInArea ==
    ASSUME NEW p \in Nat, p < Size, Marked(p)
    PROVE  /\ p \div PagesPerBlock \in BadInArea
           /\ (p \div PagesPerBlock) * PagesPerBlock = p
  BY PageInBlock DEF Marked, BadInArea

LEMMA SmallPlaced ==
    ASSUME Placed, NandReadLl
    PROVE  Placed'
  <1> USE Sizes, SizeCovers
  <1>1. chip = "small" /\ pc' = "copy" /\ k' = k /\ i < Size /\ i \in Nat /\ buf' = buf + 1
           /\ UNCHANGED <<chip, bad, errs, Size, BadInArea>> /\ DOMAIN ram' = DOMAIN ram
    BY SmallStep
  <1>2. i' = i + 1 \/ i' = i + PagesPerBlock + 1
    BY <1>1, SmallStep
  <1>3. i' \in Nat /\ i' > i
    BY <1>1, <1>2
  <1>4. buf \in Nat /\ k = 0 /\ buf <= i /\ (BadInArea = {} => i = buf)
    BY <1>1 DEF Placed, Walk
  <1>5. buf' <= i' /\ buf' <= Size /\ i' <= Size + PagesPerBlock
    BY <1>1, <1>2, <1>3, <1>4
  <1>6. BadInArea = {} => i' = buf'
    <2> SUFFICES ASSUME BadInArea = {} PROVE i' = buf'
      OBVIOUS
    <2>1. ~Marked(i)
      BY <1>1, MarkedInArea
    <2> QED BY <1>1, <1>4, <2>1, SmallStep
  <1>7. Walk'
    BY <1>1, <1>4, <1>5, <1>6 DEF Walk
  <1>8. Position'
    BY <1>1, <1>3 DEF Placed, Position
  <1> QED BY <1>1, <1>4, <1>7, <1>8 DEF Placed

LEMMA PlacedStep == Placed /\ [BootNext]_vars => Placed'
  <1> SUFFICES ASSUME Placed, [BootNext]_vars PROVE Placed'
    OBVIOUS
  <1>1. CASE NandReadLlLp
    BY <1>1, LargePlaced
  <1>2. CASE NandReadLl
    BY <1>2, SmallPlaced
  <1>3. CASE CopyNor
    <2>1. UNCHANGED <<chip, bad, errs, Size, BadInArea>>
      BY <1>3, DeviceFixed DEF CopyNor
    <2>2. UNCHANGED <<i, k, buf>> /\ DOMAIN ram' = DOMAIN ram /\ pc' = "run" /\ chip = "nor"
      BY <1>3 DEF CopyNor, BootFrmNORFlash
    <2> QED BY <2>1, <2>2 DEF Placed, Position, Walk
  <1>4. CASE CopyDone
    <2>1. UNCHANGED <<chip, bad, errs, Size, BadInArea>>
      BY <1>4, DeviceFixed DEF CopyDone
    <2>2. UNCHANGED <<i, k, buf, ram>> /\ pc' = "run" /\ i >= Size
      BY <1>4 DEF CopyDone
    <2> QED BY <2>1, <2>2 DEF Placed, Position, Walk
  <1>5. CASE UNCHANGED vars
    <2>1. UNCHANGED <<chip, bad, errs, Size, BadInArea>>
      BY <1>5, DeviceFixed DEF vars
    <2>2. UNCHANGED <<i, k, buf, ram, pc>>
      BY <1>5 DEF vars
    <2> QED BY <2>1, <2>2 DEF Placed, Position, Walk
  <1> QED BY <1>1, <1>2, <1>3, <1>4, <1>5 DEF BootNext

LEMMA PlacedTypes == Placed => BootTypeOK
  <1> SUFFICES ASSUME Placed PROVE BootTypeOK
    OBVIOUS
  <1> USE Sizes, SizeCovers
  <1>1. i \in Nat /\ k \in 0 .. LargePage - 1 /\ buf \in Nat /\ chip \in {"nor", "small", "large"}
    BY DEF Placed, Position
  <1>2. i <= Size + PagesPerBlock /\ buf <= Size * Sectors
    <2>1. CASE chip = "nor"
      <3>1. i = 0 /\ buf = 0 /\ Sectors = 1
        BY <2>1 DEF Placed, Walk
      <3> QED BY <3>1
    <2>2. CASE chip = "small"
      BY <2>2 DEF Placed, Walk
    <2>3. CASE chip = "large"
      <3>1. buf = i * LargePage + k /\ i <= Size /\ (i = Size => k = 0) /\ Sectors = LargePage
        BY <2>3 DEF Placed, Walk
      <3>2. CASE i = Size
        <4>1. Size * LargePage \in Nat
          OBVIOUS
        <4> QED BY <3>1, <3>2, <4>1
      <3>3. CASE i < Size
        <4>1. (i + 1) * LargePage <= Size * LargePage
          BY <1>1, <3>3
        <4> DEFINE x == i * LargePage
                   y == Size * LargePage
        <4>2. x \in Nat /\ y \in Nat /\ x + LargePage <= y /\ buf = x + k
          BY <1>1, <3>1, <4>1
        <4> HIDE DEF x, y
        <4>3. buf <= y
          BY <1>1, <4>2
        <4> QED BY <1>1, <3>1, <3>3, <4>3 DEF y
      <3> QED BY <1>1, <3>1, <3>2, <3>3
    <2> QED BY <1>1, <2>1, <2>2, <2>3
  <1>3. Size * Sectors \in Nat
    BY DEF Sectors
  <1> QED BY <1>1, <1>2, <1>3 DEF BootTypeOK, Placed, Position

\* For every chip, pattern of bad blocks and image the copy stays in the area it is
\* meant for: no page behind the first skip after the image is read, and no sector
\* behind the last, rounded up page is written.
THEOREM BootTypes == BootSpec => []BootTypeOK
  BY PlacedStarts, PlacedStep, PlacedTypes, PTL DEF BootSpec

-----------------------------------------------------------------------------
(***************************************************************************)
(* What is copied.                                                         *)
(***************************************************************************)

\* With no bad block in the area, a page is the page of the image of its number.
LEMMA StraightStored ==
    ASSUME Placed, BadInArea = {}, NEW p \in Nat, p < Size, NEW s \in Nat
    PROVE  ~Marked(p) /\ Stored(p, s) = p * Sectors + s
  <1>1. ASSUME NEW q \in Nat, q <= p
        PROVE  q \div PagesPerBlock \notin bad
    <2>1. (q \div PagesPerBlock) * PagesPerBlock < Size
      BY <1>1, PageInBlock, SizeCovers
    <2> QED BY <2>1 DEF BadInArea
  <1>2. GoodBefore(bad, p) = p
    <2>1. \A q \in 0 .. p - 1 : q \div PagesPerBlock \notin bad
      BY <1>1
    <2> QED BY <2>1, AllGoodBefore
  <1>3. Good(p) /\ ~Marked(p)
    BY <1>1 DEF Good, Marked
  <1> QED BY <1>2, <1>3 DEF Stored

\* A copy with nothing in its way puts the next sector of the image where it belongs.
LEMMA CleanSector ==
    ASSUME Placed, Clean, chip # "nor", i < Size
    PROVE  /\ ~Marked(i) /\ ~(errs[i][k] > 0)
           /\ Read(i, k) = [image |-> buf, wrong |-> 0]
  <1>1. i \in Nat /\ k \in Nat /\ BadInArea = {}
    BY DEF Placed, Position, Clean
  <1>2. ~Marked(i) /\ Stored(i, k) = i * Sectors + k
    BY <1>1, StraightStored
  <1>3. buf = i * Sectors + k /\ k \in 0 .. Sectors - 1
    <2>1. CASE chip = "small"
      <3>1. Sectors = 1 /\ k = 0 /\ buf = i
        BY <1>1, <2>1, SizeCovers DEF Placed, Walk
      <3> QED BY <1>1, <3>1
    <2>2. CASE chip = "large"
      <3>1. Sectors = LargePage /\ buf = i * LargePage + k
        BY <2>2, SizeCovers DEF Placed, Walk
      <3> QED BY <3>1 DEF Placed, Position
    <2> QED BY <2>1, <2>2 DEF Placed, Position
  <1>4. errs[i][k] = 0
    <2>1. i \in 0 .. Size - 1
      BY <1>1, SizeCovers
    <2>2. <<i, k>> \in ReadArea
      BY <1>3, <2>1 DEF ReadArea
    <2>3. errs[<<i, k>>[1]][<<i, k>>[2]] = 0
      BY <2>2 DEF Clean
    <2> QED BY <2>3
  <1>5. Stored(i, k) = buf
    BY <1>2, <1>3
  <1> QED BY <1>2, <1>4, <1>5 DEF Read

\* One more sector of the image.
LEMMA OneMoreLoaded ==
    ASSUME buf \in DOMAIN ram, buf \in Nat, \A n \in 0 .. buf - 1 : Loaded(n),
           buf' = buf + 1, ram' = [ram EXCEPT ![buf] = [image |-> buf, wrong |-> 0]],
           0 .. buf \subseteq DOMAIN ram
    PROVE  (\A n \in 0 .. buf - 1 : Loaded(n))'
  <1>1. SUFFICES ASSUME NEW n \in 0 .. buf' - 1 PROVE ram'[n] = [image |-> n, wrong |-> 0]
    BY DEF Loaded
  <1>2. n \in 0 .. buf /\ n \in DOMAIN ram
    OBVIOUS
  <1>3. CASE n = buf
    BY <1>2, <1>3
  <1>4. CASE n # buf
    <2>1. n \in 0 .. buf - 1
      BY <1>2, <1>4
    <2>2. ram'[n] = ram[n]
      BY <1>2, <1>4
    <2> QED BY <2>1, <2>2 DEF Loaded
  <1> QED BY <1>3, <1>4

LEMMA CleanStep == Placed /\ CleanCopy /\ [BootNext]_vars => CleanCopy'
  <1> SUFFICES ASSUME Placed, CleanCopy, [BootNext]_vars PROVE CleanCopy'
    OBVIOUS
  <1>a. ASSUME chip # "nor", i < Size
        PROVE  buf \in DOMAIN ram /\ buf \in Nat /\ 0 .. buf \subseteq DOMAIN ram
    BY <1>a, BufInRam, Sizes DEF Placed
  <1>1. CASE NandReadLlLp
    <2>1. chip = "large" /\ chip' = "large" /\ i < Size /\ buf' = buf + 1 /\ Clean' = Clean
      BY <1>1, DeviceFixed DEF NandReadLlLp, NextSector
    <2>2. ASSUME Clean PROVE (\A n \in 0 .. buf - 1 : Loaded(n))'
      <3>1. ~(errs[i][k] = 1) /\ Read(i, k) = [image |-> buf, wrong |-> 0]
        BY <2>1, <2>2, CleanSector
      <3>2. ram' = [ram EXCEPT ![buf] = [image |-> buf, wrong |-> 0]]
        BY <1>1, <3>1 DEF NandReadLlLp
      <3>3. \A n \in 0 .. buf - 1 : Loaded(n)
        BY <2>1, <2>2 DEF CleanCopy
      <3> QED BY <1>a, <2>1, <3>2, <3>3, OneMoreLoaded
    <2> QED BY <2>1, <2>2 DEF CleanCopy
  <1>2. CASE NandReadLl
    <2>1. chip = "small" /\ chip' = "small" /\ i < Size /\ buf' = buf + 1 /\ Clean' = Clean
      BY <1>2, SmallStep
    <2>2. ASSUME Clean PROVE (\A n \in 0 .. buf - 1 : Loaded(n))'
      <3>1. ~Marked(i) /\ Read(i, k) = [image |-> buf, wrong |-> 0] /\ k = 0
        BY <2>1, <2>2, CleanSector DEF Placed, Walk
      <3>2. ram' = [ram EXCEPT ![buf] = [image |-> buf, wrong |-> 0]]
        BY <1>2, <3>1, SmallStep
      <3>3. \A n \in 0 .. buf - 1 : Loaded(n)
        BY <2>1, <2>2 DEF CleanCopy
      <3> QED BY <1>a, <2>1, <3>2, <3>3, OneMoreLoaded
    <2> QED BY <2>1, <2>2 DEF CleanCopy
  <1>3. CASE CopyNor
    <2>1. chip = "nor" /\ chip' = "nor"
      BY <1>3 DEF CopyNor, BootFrmNORFlash, device
    <2>2. \A n \in Images : ram'[n] = [image |-> n, wrong |-> 0]
      <3>1. \A n \in Images : n \in DOMAIN ram
        BY Sizes DEF Images, Placed
      <3> QED BY <1>3, <3>1 DEF CopyNor
    <2> QED BY <2>1, <2>2 DEF CleanCopy, Loaded
  <1>4. CASE CopyDone
    <2>1. chip # "nor" /\ chip' = chip /\ Clean' = Clean /\ UNCHANGED <<buf, ram>>
      BY <1>4, DeviceFixed DEF CopyDone, BootFrmNORFlash
    <2> QED BY <2>1 DEF CleanCopy, Loaded
  <1>5. CASE UNCHANGED vars
    <2>1. chip' = chip /\ Clean' = Clean /\ UNCHANGED <<buf, ram, pc>>
      BY <1>5, DeviceFixed DEF vars
    <2> QED BY <2>1 DEF CleanCopy, Loaded
  <1> QED BY <1>1, <1>2, <1>3, <1>4, <1>5 DEF BootNext

\* The page nand_read_ll reads is the next good one, when no two bad blocks are
\* neighbours.
LEMMA NextGood ==
    ASSUME Placed, InOrder, NandReadLl, NoNeighbours,
           NEW p, p = IF Marked(i) THEN i + PagesPerBlock ELSE i
    PROVE  p \in Nat /\ Good(p) /\ GoodBefore(bad, p) = buf
  <1>1. i \in Nat /\ chip = "small" /\ p \in Nat
    BY SmallStep, Sizes
  <1>2. (i % PagesPerBlock = 0 \/ Good(i)) /\ buf = GoodBefore(bad, i)
    BY <1>1 DEF InOrder
  <1>3. CASE Marked(i)
    <2>1. i % PagesPerBlock = 0 /\ i \div PagesPerBlock \in bad
      BY <1>3 DEF Marked
    <2>2. GoodBefore(bad, p) = GoodBefore(bad, i) /\ p \div PagesPerBlock = i \div PagesPerBlock + 1
      BY <1>1, <1>3, <2>1, GoodBeforeSkips
    <2>3. Good(p)
      BY <2>1, <2>2 DEF NoNeighbours, Good
    <2> QED BY <1>1, <1>2, <2>2, <2>3
  <1>4. CASE ~Marked(i)
    BY <1>1, <1>2, <1>4 DEF Marked, Good
  <1> QED BY <1>3, <1>4

LEMMA SmallInOrder ==
    ASSUME Placed, InOrder, NandReadLl
    PROVE  InOrder'
  <1> SUFFICES ASSUME NoNeighbours' PROVE InOrder'
    BY DEF InOrder
  <1> DEFINE p == IF Marked(i) THEN i + PagesPerBlock ELSE i
  <1>1. /\ chip = "small" /\ i < Size /\ i' = p + 1 /\ buf' = buf + 1 /\ buf \in Nat
        /\ bad' = bad /\ NoNeighbours /\ ram' = [ram EXCEPT ![buf] = Read(p, 0)]
    BY SmallStep
  <1>2. p \in Nat /\ Good(p) /\ GoodBefore(bad, p) = buf
    BY <1>1, NextGood
  <1> HIDE DEF p
  <1>3. buf' = GoodBefore(bad', i')
    BY <1>1, <1>2, GoodBeforeNext DEF Good
  <1>4. (i % PagesPerBlock = 0 \/ Good(i))'
    <2>1. i' % PagesPerBlock # 0 => i' \div PagesPerBlock = p \div PagesPerBlock
      BY <1>1, <1>2, NextPageInBlock
    <2> QED BY <1>1, <1>2, <2>1 DEF Good
  <1>5. ASSUME NEW n \in 0 .. buf' - 1 PROVE ram'[n].image = n
    <2>1. n \in 0 .. buf /\ n \in DOMAIN ram /\ buf \in DOMAIN ram
      BY <1>1, BufInRam, Sizes DEF Placed
    <2>2. CASE n = buf
      <3>1. Stored(p, 0) = buf * 1 + 0
        BY <1>1, <1>2, SizeCovers DEF Stored
      <3>2. ram'[n] = Read(p, 0)
        BY <1>1, <2>1, <2>2
      <3> QED BY <1>1, <2>2, <3>1, <3>2 DEF Read
    <2>3. CASE n # buf
      <3>1. n \in 0 .. buf - 1 /\ ram'[n] = ram[n]
        BY <1>1, <2>1, <2>3
      <3> QED BY <1>1, <3>1 DEF InOrder
    <2> QED BY <2>2, <2>3
  <1> QED BY <1>3, <1>4, <1>5 DEF InOrder

\* The blocks nand_read_ll has met are finitely many.
LEMMA SeenFinite ==
    Placed => /\ IsFiniteSet(BadInArea) /\ IsFiniteSet(BadSeen)
              /\ Cardinality(BadSeen) \in Nat /\ Cardinality(BadInArea) \in Nat
              /\ Cardinality(BadSeen) <= Cardinality(BadInArea)
  <1> SUFFICES ASSUME Placed
               PROVE  /\ IsFiniteSet(BadInArea) /\ IsFiniteSet(BadSeen)
                      /\ Cardinality(BadSeen) \in Nat /\ Cardinality(BadInArea) \in Nat
                      /\ Cardinality(BadSeen) <= Cardinality(BadInArea)
    OBVIOUS
  <1>1. IsFiniteSet(1 .. Blocks - 1)
    BY FS_Interval, Sizes
  <1>2. BadInArea \subseteq 1 .. Blocks - 1 /\ BadSeen \subseteq BadInArea
    BY DEF Placed, BadInArea, BadSeen
  <1>3. IsFiniteSet(BadInArea)
    BY <1>1, <1>2, FS_Subset
  <1> QED BY <1>2, <1>3, FS_Subset, FS_CardinalityType

LEMMA SmallLeftOut ==
    ASSUME Placed, LeftOut, NandReadLl
    PROVE  LeftOut'
  <1> USE Sizes
  <1> DEFINE c == Cardinality(BadSeen)
             d == Cardinality(BadSeen')
  <1>1. /\ chip = "small" /\ i < Size /\ buf' = buf + 1 /\ buf \in Nat /\ i \in Nat
        /\ BadInArea' = BadInArea
        /\ i' = (IF Marked(i) THEN i + PagesPerBlock ELSE i) + 1
    BY SmallStep
  <1>2. Placed'
    BY SmallPlaced
  <1>3. IsFiniteSet(BadSeen) /\ c \in Nat
    BY SeenFinite
  <1>4. IsFiniteSet(BadSeen') /\ d \in Nat
    <2>1. (IsFiniteSet(BadSeen) /\ Cardinality(BadSeen) \in Nat)'
      BY <1>2, SeenFinite, PTL
    <2> QED BY <2>1
  <1>5. \A b \in BadInArea : b * PagesPerBlock \in Nat
    BY DEF BadInArea, Placed
  <1>6. i' \in Nat /\ i' > i
    BY <1>1
  <1>7. BadSeen \subseteq BadSeen'
    BY <1>1, <1>5, <1>6 DEF BadSeen
  <1>8. i - buf <= PagesPerBlock * c
    BY <1>1 DEF LeftOut
  <1>9. i' - buf' <= PagesPerBlock * d
    <2>1. CASE Marked(i)
      <3> DEFINE b == i \div PagesPerBlock
      <3>1. b \in BadInArea /\ b * PagesPerBlock = i
        BY <1>1, <2>1, MarkedInArea
      <3> HIDE DEF b
      <3>2. b \notin BadSeen /\ b \in BadSeen'
        BY <1>1, <1>6, <3>1 DEF BadSeen
      <3>3. Cardinality(BadSeen \cup {b}) = c + 1
        BY <1>3, <3>2, FS_AddElement
      <3>4. BadSeen \cup {b} \subseteq BadSeen'
        BY <1>7, <3>2
      <3>5. c + 1 <= d
        BY <1>4, <3>3, <3>4, FS_Subset
      <3> HIDE DEF c, d
      <3>6. PagesPerBlock * (c + 1) <= PagesPerBlock * d
        BY <1>3, <1>4, <3>5
      <3>7. PagesPerBlock * (c + 1) = PagesPerBlock * c + PagesPerBlock
        BY <1>3
      <3>8. PagesPerBlock * c \in Nat /\ PagesPerBlock * d \in Nat
        BY <1>3, <1>4
      <3> QED BY <1>1, <1>8, <2>1, <3>6, <3>7, <3>8
    <2>2. CASE ~Marked(i)
      <3>1. c <= d
        BY <1>4, <1>7, FS_Subset
      <3> HIDE DEF c, d
      <3>2. PagesPerBlock * c <= PagesPerBlock * d
        BY <1>3, <1>4, <3>1
      <3>3. PagesPerBlock * c \in Nat /\ PagesPerBlock * d \in Nat
        BY <1>3, <1>4
      <3> QED BY <1>1, <1>8, <2>2, <3>2, <3>3
    <2> QED BY <2>1, <2>2
  <1> QED BY <1>9 DEF LeftOut

\* Nothing but nand_read_ll moves a copy from a small chip.
LEMMA SmallKeeps == Placed /\ InOrder /\ LeftOut /\ [BootNext]_vars => InOrder' /\ LeftOut'
  <1> SUFFICES ASSUME Placed, InOrder, LeftOut, [BootNext]_vars PROVE InOrder' /\ LeftOut'
    OBVIOUS
  <1>1. CASE NandReadLl
    BY <1>1, SmallInOrder, SmallLeftOut
  <1>2. CASE NandReadLlLp
    BY <1>2 DEF NandReadLlLp, device, InOrder, LeftOut
  <1>3. CASE CopyNor
    BY <1>3 DEF CopyNor, BootFrmNORFlash, device, InOrder, LeftOut
  <1>4. CASE CopyDone \/ UNCHANGED vars
    <2>1. UNCHANGED device /\ UNCHANGED <<i, buf, ram>>
      BY <1>4 DEF CopyDone, vars
    <2>2. UNCHANGED <<chip, bad, BadInArea>> /\ NoNeighbours' = NoNeighbours
      BY <2>1, DeviceFixed
    <2>3. BadSeen' = BadSeen
      BY <2>1, <2>2 DEF BadSeen
    <2> QED BY <2>1, <2>2, <2>3 DEF InOrder, LeftOut, Good
  <1> QED BY <1>1, <1>2, <1>3, <1>4 DEF BootNext

CopyInv == Placed /\ CleanCopy /\ InOrder /\ LeftOut

LEMMA CopyStarts == BootInit => CopyInv
  <1> SUFFICES ASSUME BootInit PROVE CopyInv
    OBVIOUS
  <1>1. buf = 0 /\ i = 0 /\ pc = "copy" /\ Placed
    BY PlacedStarts DEF BootInit
  <1>2. CleanCopy
    BY <1>1 DEF CleanCopy
  <1>3. InOrder
    <2>1. 0 % PagesPerBlock = 0
      BY Sizes
    <2> QED BY <1>1, <2>1, GoodBeforeFirst DEF InOrder
  <1>4. LeftOut
    <2>1. Cardinality(BadSeen) \in Nat
      BY <1>1, SeenFinite
    <2>2. PagesPerBlock * Cardinality(BadSeen) >= 0
      BY <2>1, Sizes
    <2> QED BY <1>1, <2>2 DEF LeftOut
  <1> QED BY <1>1, <1>2, <1>3, <1>4 DEF CopyInv

LEMMA CopyRuns == CopyInv => RunsTheImage
  <1> SUFFICES ASSUME CopyInv PROVE RunsTheImage
    OBVIOUS
  <1> USE Sizes, SizeCovers DEF CopyInv
  <1>0. i \in Nat /\ k \in Nat /\ buf \in Nat /\ chip \in {"nor", "small", "large"}
    BY DEF Placed, Position
  <1>1. ASSUME pc = "run", chip = "nor" \/ Clean, NEW n \in Images PROVE Loaded(n)
    <2>1. CASE chip = "nor"
      BY <1>1, <2>1 DEF CleanCopy
    <2>2. CASE chip = "small"
      <3>1. Clean /\ i >= Size /\ i = buf
        BY <1>1, <2>2 DEF Placed, Walk, Clean
      <3>2. n \in 0 .. buf - 1
        BY <1>0, <2>2, <3>1 DEF Images
      <3> QED BY <2>2, <3>1, <3>2 DEF CleanCopy
    <2>3. CASE chip = "large"
      <3>1. Clean /\ i = Size /\ buf = i * LargePage + k
        BY <1>0, <1>1, <2>3 DEF Placed, Walk
      <3>2. buf >= ImageSectors
        <4> DEFINE y == Size * LargePage
        <4>1. y \in Nat /\ y >= ImageSectors /\ buf = y + k
          BY <2>3, <3>1
        <4> HIDE DEF y
        <4> QED BY <1>0, <4>1
      <3>3. n \in 0 .. buf - 1
        BY <1>0, <3>2 DEF Images
      <3> QED BY <2>3, <3>1, <3>3 DEF CleanCopy
    <2> QED BY <1>0, <2>1, <2>2, <2>3
  <1>2. ASSUME chip = "small", pc = "run"
        PROVE  buf >= ImageSectors - PagesPerBlock * Cardinality(BadInArea)
    <2> DEFINE c == Cardinality(BadSeen)
               d == Cardinality(BadInArea)
    <2>1. i >= ImageSectors /\ i - buf <= PagesPerBlock * c
      BY <1>2 DEF Placed, Walk, LeftOut
    <2>2. c \in Nat /\ d \in Nat /\ c <= d
      BY SeenFinite
    <2> HIDE DEF c, d
    <2>3. PagesPerBlock * c <= PagesPerBlock * d /\ PagesPerBlock * c \in Nat /\ PagesPerBlock * d \in Nat
      BY <2>2
    <2>4. buf >= ImageSectors - PagesPerBlock * d
      BY <1>0, <2>1, <2>3
    <2> QED BY <2>4 DEF d
  <1> QED BY <1>1, <1>2 DEF RunsTheImage, InOrder

\* For every image, block size, set of bad blocks and pattern of wrong bits:
\* CopyCode2Ram starts the whole image when nothing is in its way, and from a small
\* chip without neighbouring bad blocks the start of the image in order, all but the
\* pages of the blocks nand_read_ll has skipped.
THEOREM CopyRunsTheImage == BootSpec => []RunsTheImage
<1>1. BootInit => CopyInv
  BY CopyStarts
<1>2. CopyInv /\ [BootNext]_vars => CopyInv'
  BY PlacedStep, CleanStep, SmallKeeps DEF CopyInv
<1>3. CopyInv => RunsTheImage
  BY CopyRuns
<1> QED BY <1>1, <1>2, <1>3, PTL DEF BootSpec
=============================================================================
