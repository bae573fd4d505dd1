----------------------------- MODULE EnvProofs -----------------------------
(***************************************************************************)
(* Proofs about the environment in NAND, for every set of names and        *)
(* values, every default environment and every geometry of the NAND.       *)
(***************************************************************************)
EXTENDS EnvNand, TLAPS

\* Removing or adding a variable gives an environment.
LEMMA WithoutType ==
    ASSUME NEW e \in Envs, NEW n
    PROVE  /\ Without(e, n) \in Envs
           /\ \A m \in DOMAIN Without(e, n) : m \in DOMAIN e /\ Without(e, n)[m] = e[m]
<1>1. PICK S \in SUBSET Names : e \in [S -> Values]
  BY DEF Envs
<1>2. Without(e, n) \in [S \ {n} -> Values]
  BY <1>1 DEF Without
<1>3. Without(e, n) \in Envs
  BY <1>2 DEF Envs
<1> QED
  BY <1>1, <1>3 DEF Without

LEMMA WithType ==
    ASSUME NEW e \in Envs, NEW n \in Names, NEW v \in Values
    PROVE  With(e, n, v) \in Envs
<1>1. PICK S \in SUBSET Names : e \in [S -> Values]
  BY DEF Envs
<1>2. With(e, n, v) \in [S \cup {n} -> Values]
  BY <1>1 DEF With
<1> QED
  BY <1>2 DEF Envs

\* A page in which there is no whole image makes the boot load the defaults.
LEMMA LoadsDefault ==
    ASSUME NEW pages, NEW p \in PageNos,
           pages[p] \in {Erased, Damaged}
    PROVE  Loads(pages) = Default
<1>1. Erased \notin Images /\ Damaged \notin Images
  BY DEF Erased, Damaged, Images
<1> QED
  BY <1>1 DEF Loads

\* An image in all pages is loaded exactly when its checksum fits.
LEMMA LoadsImage ==
    ASSUME NEW pages, NEW image \in Images,
           \A p \in PageNos : pages[p] = image
    PROVE  Loads(pages) = IF image.data = image.crc THEN image.data ELSE Default
  BY EnvAssumption DEF Loads, PageNos

LEMMA LoadsType ==
    ASSUME NEW pages
    PROVE  Loads(pages) \in Envs
<1>1. CASE pages[0] \in Images
  BY <1>1, EnvAssumption DEF Loads, Images
<1>2. CASE pages[0] \notin Images
  BY <1>2, EnvAssumption DEF Loads
<1> QED
  BY <1>1, <1>2

LEMMA ImageType == EnvTypeOK => Image \in Images
  BY DEF EnvTypeOK, Image, Images

LEMMA InitInv == EnvInit => EnvInv
<1> SUFFICES ASSUME EnvInit PROVE EnvInv
  OBVIOUS
<1> USE DEF EnvInit
<1>1. nand \in [PageNos -> {Erased, Damaged} \cup Images]
  BY DEF Images
<1>2. env \in Envs
  BY LoadsType
<1>3. EnvTypeOK
  BY <1>1, <1>2 DEF EnvTypeOK
<1> QED
  BY <1>3 DEF EnvInv, WritesErasedPages, SaveProgress, CrcLagsByDeletions

\* The pages an erase or a write leaves.
LEMMA BlockType ==
    ASSUME EnvTypeOK, NEW c \in {Erased, Damaged} \cup Images
    PROVE  /\ BlockBecomes(c) \in [PageNos -> {Erased, Damaged} \cup Images]
           /\ PageBecomes(c) \in [PageNos -> {Erased, Damaged} \cup Images]
  BY DEF EnvTypeOK, BlockBecomes, PageBecomes

LEMMA ProgrammedType ==
    ASSUME EnvTypeOK
    PROVE  Programmed \in {Erased, Damaged} \cup Images
  BY ImageType DEF Programmed

LEMMA InterruptedType ==
    ASSUME EnvTypeOK, Interrupted
    PROVE  nand' \in [PageNos -> {Erased, Damaged} \cup Images]
<1>1. CASE UNCHANGED nand
  BY <1>1 DEF EnvTypeOK
<1>2. CASE \E c \in {Erased, Damaged} : nand' = BlockBecomes(c)
  BY <1>2, BlockType
<1>3. CASE \E c \in {Programmed, Damaged} : nand' = PageBecomes(c)
  BY <1>3, BlockType, ProgrammedType
<1> QED
  BY <1>1, <1>2, <1>3 DEF Interrupted

LEMMA StepInv == EnvInv /\ [EnvNext]_vars => EnvInv'
<1> SUFFICES ASSUME EnvInv, [EnvNext]_vars PROVE EnvInv'
  OBVIOUS
<1> USE EnvAssumption DEF EnvInv
<1>1. ASSUME NEW n \in Names, NEW v \in Values, Setenv(n, v)
      PROVE  EnvInv'
  <2>1. env' \in Envs
    BY <1>1, WithType DEF Setenv, EnvTypeOK
  <2> QED
    BY <1>1, <2>1 DEF Setenv, EnvTypeOK, WritesErasedPages, SaveProgress, CrcLagsByDeletions
<1>2. ASSUME NEW n \in Names, NEW v \in Values, SetenvOverflow(n, v)
      PROVE  EnvInv'
  <2>1. env' \in Envs /\ \A m \in DOMAIN env' : m \in DOMAIN env /\ env'[m] = env[m]
    BY <1>2, WithoutType DEF SetenvOverflow, EnvTypeOK
  <2>2. CrcLagsByDeletions'
    BY <1>2, <2>1 DEF SetenvOverflow, CrcLagsByDeletions
  <2> QED
    BY <1>2, <2>1, <2>2 DEF SetenvOverflow, EnvTypeOK, WritesErasedPages, SaveProgress
<1>3. ASSUME NEW n \in Names, SetenvDelete(n)
      PROVE  EnvInv'
  <2>1. env' \in Envs
    BY <1>3, WithoutType DEF SetenvDelete, EnvTypeOK
  <2> QED
    BY <1>3, <2>1 DEF SetenvDelete, EnvTypeOK, WritesErasedPages, SaveProgress, CrcLagsByDeletions
<1>4. CASE Saveenv
  BY <1>4 DEF Saveenv, EnvTypeOK, WritesErasedPages, SaveProgress, CrcLagsByDeletions, PageNos
<1>5. CASE EraseBlock
  <2>1. nand' \in [PageNos -> {Erased, Damaged} \cup Images]
    BY <1>5, BlockType DEF EraseBlock
  <2>2. \A p \in PageNos : p < page' => nand'[p] = Erased
    BY <1>5 DEF EraseBlock, BlockBecomes, BlockPages, EnvTypeOK, SaveProgress, PageNos
  <2> QED
    BY <1>5, <2>1, <2>2 DEF EraseBlock, EnvTypeOK, WritesErasedPages, SaveProgress, CrcLagsByDeletions
<1>6. CASE EraseFails
  <2>1. nand' \in [PageNos -> {Erased, Damaged} \cup Images]
    BY <1>6, BlockType DEF EraseFails, EnvTypeOK
  <2>2. saved = {}
    BY <1>6 DEF EraseFails, SaveProgress
  <2> QED
    BY <1>6, <2>1, <2>2 DEF EraseFails, EnvTypeOK, WritesErasedPages, SaveProgress, CrcLagsByDeletions
<1>7. CASE EraseDone
  BY <1>7 DEF EraseDone, EnvTypeOK, WritesErasedPages, SaveProgress, CrcLagsByDeletions, PageNos
<1>8. CASE WritePage
  <2>1. page \in PageNos /\ nand[page] = Erased
    BY <1>8 DEF WritePage, EnvTypeOK, WritesErasedPages, PageNos
  <2>2. nand' = [nand EXCEPT ![page] = Image] /\ Image \in Images /\ Image' = Image
    BY <1>8, <2>1, ImageType DEF WritePage, PageBecomes, Programmed, Image
  <2>3. nand' \in [PageNos -> {Erased, Damaged} \cup Images]
    BY <2>2 DEF EnvTypeOK
  <2>4. \A p \in PageNos : /\ p <= page => nand'[p] = Image
                           /\ p > page => nand'[p] = Erased
    BY <1>8, <2>1, <2>2 DEF EnvTypeOK, SaveProgress, WritesErasedPages, WritePage, PageNos
  <2>5. CASE page + 1 = Pages
    <3>1. \A p \in PageNos : nand'[p] = Image
      BY <2>1, <2>4, <2>5 DEF PageNos
    <3> QED
      BY <1>8, <2>2, <2>3, <2>5, <3>1
      DEF WritePage, EnvTypeOK, WritesErasedPages, SaveProgress, CrcLagsByDeletions
  <2>6. CASE page + 1 # Pages
    <3>1. page' = page + 1 /\ page' \in PageNos /\ pc' = "write" /\ saved' = saved
      BY <1>8, <2>1, <2>6 DEF WritePage, PageNos
    <3>2. \A p \in PageNos : /\ p < page' => nand'[p] = Image'
                             /\ p >= page' => nand'[p] = Erased
      BY <2>1, <2>2, <2>4, <3>1 DEF PageNos
    <3> QED
      BY <1>8, <2>3, <3>1, <3>2
      DEF WritePage, EnvTypeOK, WritesErasedPages, SaveProgress, CrcLagsByDeletions, PageNos
  <2> QED
    BY <2>5, <2>6
<1>9. CASE WriteFails
  <2>1. nand' \in [PageNos -> {Erased, Damaged} \cup Images]
    BY <1>9, BlockType DEF WriteFails
  <2>2. saved = {}
    BY <1>9 DEF WriteFails, SaveProgress
  <2> QED
    BY <1>9, <2>1, <2>2 DEF WriteFails, EnvTypeOK, WritesErasedPages, SaveProgress, CrcLagsByDeletions
<1>10. CASE Boot
  <2>1. nand' \in [PageNos -> {Erased, Damaged} \cup Images]
    BY <1>10, InterruptedType DEF Boot
  <2>2. env' \in Envs /\ crc' = env'
    BY <1>10, LoadsType DEF Boot
  <2>3. saved = {} \/ UNCHANGED nand
    BY <1>10 DEF Boot, Interrupted, SaveProgress
  <2> QED
    BY <1>10, <2>1, <2>2, <2>3
    DEF Boot, EnvTypeOK, WritesErasedPages, SaveProgress, CrcLagsByDeletions
<1>11. CASE UNCHANGED vars
  BY <1>11 DEF vars, EnvTypeOK, WritesErasedPages, SaveProgress, CrcLagsByDeletions, Image
<1> QED
  BY <1>1, <1>2, <1>3, <1>4, <1>5, <1>6, <1>7, <1>8, <1>9, <1>10, <1>11 DEF EnvNext

LEMMA Invariant == EnvSpec => []EnvInv
  BY InitInv, StepInv, PTL DEF EnvSpec

\* The variables of setenv and saveenv keep their types, and nand_write_ecc never
\* goes past the partition of the environment.
THEOREM TypeCorrect == EnvSpec => []EnvTypeOK
<1>1. EnvInv => EnvTypeOK
  BY DEF EnvInv
<1> QED
  BY <1>1, Invariant, PTL

\* saveenv programs erased pages only, for every geometry of the NAND.
THEOREM ErasedBeforeWrite == EnvSpec => []WritesErasedPages
<1>1. EnvInv => WritesErasedPages
  BY DEF EnvInv
<1> QED
  BY <1>1, Invariant, PTL

\* _do_setenv leaves the checksum behind the variables only by deletions.
THEOREM ChecksumLags == EnvSpec => []CrcLagsByDeletions
<1>1. EnvInv => CrcLagsByDeletions
  BY DEF EnvInv
<1> QED
  BY <1>1, Invariant, PTL

\* A successful saveenv with a checksum that is up to date is what boots load.
THEOREM SaveIsDurable == EnvSpec => []SealedIsLoaded
<1>1. EnvInv => SealedIsLoaded
  BY LoadsImage DEF EnvInv, EnvTypeOK, SaveProgress, SealedIsLoaded
<1> QED
  BY <1>1, Invariant, PTL

-----------------------------------------------------------------------------
(***************************************************************************)
(* The copy in NAND implements the store.                                  *)
(***************************************************************************)

LEMMA StoreStart == EnvInit => Store!StoreInit
<1> SUFFICES ASSUME EnvInit PROVE Store!StoreInit
  OBVIOUS
<1> QED
  BY LoadsType DEF EnvInit, Store!StoreInit

\* An erased or damaged block or page leaves the defaults.
LEMMA BlockLost ==
    ASSUME EnvTypeOK, page < Pages, NEW c \in {Erased, Damaged}
    PROVE  Loads(BlockBecomes(c)) = Default
<1>1. page \in PageNos /\ BlockBecomes(c)[page] = c
  BY EnvAssumption DEF EnvTypeOK, BlockBecomes, BlockPages, PageNos
<1> QED
  BY <1>1, LoadsDefault

LEMMA PageLost ==
    ASSUME EnvTypeOK, page \in PageNos
    PROVE  Loads(PageBecomes(Damaged)) = Default
<1>1. PageBecomes(Damaged)[page] = Damaged
  BY DEF EnvTypeOK, PageBecomes
<1> QED
  BY <1>1, LoadsDefault

\* Programming a page leaves the defaults, or completes the image.
LEMMA PageProgrammed ==
    ASSUME EnvInv, pc = "write"
    PROVE  /\ page \in PageNos
           /\ page + 1 # Pages => Loads(PageBecomes(Programmed)) = Default
           /\ page + 1 = Pages => Loads(PageBecomes(Programmed)) \in {env, Default}
<1>1. page \in PageNos /\ Programmed = Image /\ Image \in Images
  BY ImageType DEF EnvInv, EnvTypeOK, WritesErasedPages, Programmed, PageNos
<1>2. ASSUME page + 1 # Pages
      PROVE  Loads(PageBecomes(Programmed)) = Default
  <2>1. page + 1 \in PageNos /\ PageBecomes(Programmed)[page + 1] = Erased
    BY <1>1, <1>2, EnvAssumption DEF PageBecomes, EnvInv, EnvTypeOK, WritesErasedPages, PageNos
  <2> QED
    BY <2>1, LoadsDefault
<1>3. ASSUME page + 1 = Pages
      PROVE  Loads(PageBecomes(Programmed)) \in {env, Default}
  <2>1. \A p \in PageNos : PageBecomes(Programmed)[p] = Image
    BY <1>1, <1>3 DEF PageBecomes, EnvInv, EnvTypeOK, SaveProgress, PageNos
  <2> QED
    BY <1>1, <2>1, LoadsImage DEF Image
<1> QED
  BY <1>1, <1>2, <1>3

LEMMA StoreStep ==
    EnvInv /\ EnvInv' /\ [EnvNext]_vars
        => [Store!StoreNext]_<<env, Loads(nand), IF pc = "prompt" THEN "no" ELSE "yes">>
<1> SUFFICES ASSUME EnvInv, EnvInv', [EnvNext]_vars
             PROVE  [Store!StoreNext]_<<env, Loads(nand), IF pc = "prompt" THEN "no" ELSE "yes">>
  OBVIOUS
<1>0. EnvTypeOK /\ env' \in Envs
  BY DEF EnvInv, EnvTypeOK
<1> USE DEF Store!StoreNext
<1>1. ASSUME NEW n \in Names, NEW v \in Values, Setenv(n, v)
      PROVE  Store!Change
  BY <1>0, <1>1 DEF Setenv, Store!Change
<1>2. ASSUME NEW n \in Names, NEW v \in Values, SetenvOverflow(n, v)
      PROVE  Store!Change
  BY <1>0, <1>2 DEF SetenvOverflow, Store!Change
<1>3. ASSUME NEW n \in Names, SetenvDelete(n)
      PROVE  Store!Change
  BY <1>0, <1>3 DEF SetenvDelete, Store!Change
<1>4. CASE Saveenv
  BY <1>4 DEF Saveenv, Store!Begin
<1>5. CASE EraseBlock
  <2>1. Loads(nand') = Default
    BY <1>0, <1>5, BlockLost DEF EraseBlock
  <2> QED
    BY <1>5, <2>1 DEF EraseBlock, Store!Lose
<1>6. CASE EraseFails
  <2>1. Loads(nand') = Default \/ nand' = nand
    BY <1>0, <1>6, BlockLost DEF EraseFails
  <2> QED
    BY <1>6, <2>1 DEF EraseFails, Store!Lose, Store!GiveUp
<1>7. CASE EraseDone
  BY <1>7 DEF EraseDone
<1>8. CASE WritePage
  <2>1. pc = "write" /\ nand' = PageBecomes(Programmed) /\ env' = env
    BY <1>8 DEF WritePage
  <2>2. CASE page + 1 # Pages
    <3>1. Loads(nand') = Default
      BY <2>1, <2>2, PageProgrammed
    <3> QED
      BY <1>8, <2>2, <3>1 DEF WritePage, Store!Lose
  <2>3. CASE page + 1 = Pages
    <3>1. Loads(nand') \in {env, Default}
      BY <2>1, <2>3, PageProgrammed
    <3> QED
      BY <1>8, <2>3, <3>1 DEF WritePage, Store!Lose, Store!Commit
  <2> QED
    BY <2>2, <2>3
<1>9. CASE WriteFails
  <2>1. Loads(nand') = Default
    BY <1>0, <1>9, PageProgrammed, PageLost DEF WriteFails
  <2> QED
    BY <1>9, <2>1 DEF WriteFails, Store!Lose
<1>10. CASE Boot
  <2>1. Loads(nand') \in {Loads(nand)} \cup (IF pc = "prompt" THEN {} ELSE {Default, env})
    <3>1. CASE UNCHANGED nand
      BY <3>1
    <3>2. CASE pc = "erase" /\ page < Pages /\ \E c \in {Erased, Damaged} : nand' = BlockBecomes(c)
      BY <1>0, <3>2, BlockLost
    <3>3. CASE pc = "write" /\ \E c \in {Programmed, Damaged} : nand' = PageBecomes(c)
      BY <1>0, <3>3, PageLost, PageProgrammed
    <3> QED
      BY <1>10, <3>1, <3>2, <3>3 DEF Boot, Interrupted
  <2> QED
    BY <1>10, <2>1 DEF Boot, Store!Boot
<1>11. CASE UNCHANGED vars
  BY <1>11 DEF vars
<1> QED
  BY <1>1, <1>2, <1>3, <1>4, <1>5, <1>6, <1>7, <1>8, <1>9, <1>10, <1>11 DEF EnvNext

\* saveenv over pages and blocks that fail, and power failures at any step,
\* implement a store whose value is only ever kept, lost or replaced as a whole.
THEOREM EnvImplementsStore == EnvSpec => ActsAsStore
  BY Invariant, StoreStart, StoreStep, PTL DEF EnvSpec, ActsAsStore, Store!StoreSpec
=============================================================================
