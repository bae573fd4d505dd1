------------------------------ MODULE EnvNand ------------------------------
(***************************************************************************)
(* The environment of U-Boot: setenv (common/cmd_nvedit.c) on the copy in  *)
(* RAM, saveenv and the load at boot (common/env_nand.c, env_common.c) of  *)
(* the one copy in NAND, over erase and write of drivers/nand/nand_base.c. *)
(*                                                                         *)
(* A definition "name=value\0" is known by its length and a text.  The     *)
(* checksum is the environment it was computed over.  A page of NAND is    *)
(* erased, damaged, or holds its part of an image.                         *)
(***************************************************************************)
EXTENDS Integers, FiniteSetsExt, TLC

CONSTANTS
    Names,          \* variable names
    Console,        \* stdin, stdout, stderr: cannot be deleted
    Values,         \* definitions: records with fields len and text
    EnvSize,        \* ENV_SIZE, bytes
    Default,        \* default_environment
    Pages,          \* pages of CFG_ENV_SIZE
    PagesPerBlock

Envs == UNION {[S -> Values] : S \in SUBSET Names}

\* Bytes before the final \0.
Used(e) == MapThenSumSet(LAMBDA n : e[n].len, DOMAIN e)

ASSUME EnvAssumption ==
    /\ Console \subseteq Names
    /\ \A v \in Values : v.len \in Nat
    /\ EnvSize \in Nat
    /\ Default \in Envs /\ Used(Default) < EnvSize
    /\ Pages \in Nat \ {0}
    /\ PagesPerBlock \in Nat \ {0}
    /\ Pages % PagesPerBlock = 0

PageNos == 0 .. Pages - 1
Images == [kind : {"image"}, data : Envs, crc : Envs]
Erased == [kind |-> "erased"]
Damaged == [kind |-> "damaged"]

VARIABLES
    env,        \* env_ptr->data
    crc,        \* env_ptr->crc
    nand,       \* pages of the environment's partition
    bad,        \* first pages of its bad blocks
    pc,         \* "prompt", or in saveenv: "erase", "write"
    page,       \* where nand_erase_nand or nand_write_ecc is
    saved       \* the image of the last saveenv, from its success to the
                \* next saveenv; {} otherwise

vars == <<env, crc, nand, bad, pc, page, saved>>

Image == [kind |-> "image", data |-> env, crc |-> crc]

-----------------------------------------------------------------------------
(***************************************************************************)
(* _do_setenv.  What it refuses (an = in the name, a console or a baud     *)
(* rate that does not exist) changes nothing and is no action here.        *)
(***************************************************************************)

Without(e, n) == [m \in DOMAIN e \ {n} |-> e[m]]
With(e, n, v) == [m \in DOMAIN e \cup {n} |-> IF m = n THEN v ELSE e[m]]

Fits(e, n, v) == Used(Without(e, n)) + v.len + 1 <= EnvSize

\* Wrong on purpose: the checksum is left as it is.
SetenvNoCrc(n, v) ==
    /\ pc = "prompt"
    /\ Fits(env, n, v)
    /\ env' = With(env, n, v)
    /\ UNCHANGED <<crc, nand, bad, pc, page, saved>>

Setenv(n, v) ==
    /\ pc = "prompt"
    /\ Fits(env, n, v)
    /\ env' = With(env, n, v)
    /\ crc' = env'
    /\ UNCHANGED <<nand, bad, pc, page, saved>>

\* The old definition is gone, the new one is not stored.
SetenvOverflow(n, v) ==
    /\ pc = "prompt"
    /\ ~Fits(env, n, v)
    /\ env' = Without(env, n)
    /\ UNCHANGED <<crc, nand, bad, pc, page, saved>>

SetenvDelete(n) ==
    /\ pc = "prompt"
    /\ n \notin Console \cap DOMAIN env
    /\ env' = Without(env, n)
    /\ crc' = env'
    /\ UNCHANGED <<nand, bad, pc, page, saved>>

-----------------------------------------------------------------------------
(***************************************************************************)
(* saveenv: nand_erase, then nand_write.                                   *)
(***************************************************************************)
Saveenv ==
    /\ pc = "prompt"
    /\ pc' = "erase"
    /\ page' = 0
    /\ saved' = {}
    /\ UNCHANGED <<env, crc, nand, bad>>

BlockPages == page .. page + PagesPerBlock - 1
BlockBecomes(c) == [p \in PageNos |-> IF p \in BlockPages THEN c ELSE nand[p]]
PageBecomes(c) == [nand EXCEPT ![page] = c]

\* Programming clears bits only.
Programmed == IF nand[page] = Erased THEN Image ELSE Damaged

EraseBlock ==
    /\ pc = "erase"
    /\ page < Pages
    /\ page \notin bad
    /\ nand' = BlockBecomes(Erased)
    /\ page' = page + PagesPerBlock
    /\ UNCHANGED <<env, crc, bad, pc, saved>>

\* A bad block is not erased; of one that fails to erase, anything is left.
EraseFails ==
    /\ pc = "erase"
    /\ page < Pages
    /\ \/ page \in bad /\ UNCHANGED nand
       \/ page \notin bad /\ \E c \in {Erased, Damaged} : nand' = BlockBecomes(c)
       \/ page \notin bad /\ UNCHANGED nand
    /\ pc' = "prompt"
    /\ UNCHANGED <<env, crc, bad, page, saved>>

EraseDone ==
    /\ pc = "erase"
    /\ page >= Pages
    /\ pc' = "write"
    /\ page' = 0
    /\ UNCHANGED <<env, crc, nand, bad, saved>>

\* After the last page saveenv returns 0.
WritePage ==
    /\ pc = "write"
    /\ nand' = PageBecomes(Programmed)
    /\ IF page + 1 = Pages
       THEN pc' = "prompt" /\ saved' = {Image} /\ UNCHANGED page
       ELSE page' = page + 1 /\ UNCHANGED <<pc, saved>>
    /\ UNCHANGED <<env, crc, bad>>

\* Wrong on purpose: the result of the write is not looked at.
WriteFailsIgnored ==
    /\ pc = "write"
    /\ nand' = PageBecomes(Damaged)
    /\ pc' = "prompt"
    /\ saved' = {Image}
    /\ UNCHANGED <<env, crc, bad, page>>

WriteFails ==
    /\ pc = "write"
    /\ nand' = PageBecomes(Damaged)
    /\ pc' = "prompt"
    /\ UNCHANGED <<env, crc, bad, page, saved>>

-----------------------------------------------------------------------------
(***************************************************************************)
(* The load at boot.                                                       *)
(***************************************************************************)

\* Wrong on purpose: the first page stands for all.
LoadsUnchecked(pages) == IF pages[0] \in Images THEN pages[0].data ELSE Default

\* env_relocate_spec: what does not agree with its checksum is not used.
Loads(pages) ==
    IF /\ pages[0] \in Images
       /\ \A p \in PageNos : pages[p] = pages[0]
       /\ pages[0].data = pages[0].crc
    THEN pages[0].data
    ELSE Default

\* What the power failure leaves of the block being erased or the page being
\* programmed.
Interrupted ==
    \/ UNCHANGED nand
    \/ /\ pc = "erase" /\ page < Pages /\ page \notin bad
       /\ \E c \in {Erased, Damaged} : nand' = BlockBecomes(c)
    \/ /\ pc = "write"
       /\ \E c \in {Programmed, Damaged} : nand' = PageBecomes(c)

\* The power fails, or the board is reset at the prompt, and env_relocate
\* reads the environment.
Boot ==
    /\ Interrupted
    /\ env' = Loads(nand')
    /\ crc' = env'
    /\ pc' = "prompt"
    /\ UNCHANGED <<bad, page, saved>>

-----------------------------------------------------------------------------
EnvInit ==
    /\ nand \in {[p \in PageNos |-> c] : c \in {Erased} \cup
                     {[kind |-> "image", data |-> e, crc |-> e] :
                         e \in {e \in Envs : Used(e) < EnvSize}}}
    /\ bad \in SUBSET {p \in PageNos : p % PagesPerBlock = 0}
    /\ env = Loads(nand) /\ crc = env
    /\ pc = "prompt" /\ page = 0
    /\ saved = {}

EnvNext ==
    \/ \E n \in Names, v \in Values : Setenv(n, v) \/ SetenvOverflow(n, v)
    \/ \E n \in Names : SetenvDelete(n)
    \/ Saveenv \/ EraseBlock \/ EraseFails \/ EraseDone \/ WritePage \/ WriteFails
    \/ Boot

EnvSpec == EnvInit /\ [][EnvNext]_vars

-----------------------------------------------------------------------------
EnvTypeOK ==
    /\ env \in Envs /\ crc \in Envs
    /\ nand \in [PageNos -> {Erased, Damaged} \cup Images]
    /\ bad \subseteq PageNos
    /\ pc \in {"prompt", "erase", "write"}
    /\ page \in Nat /\ (pc = "write" => page \in PageNos)
    /\ saved \in SUBSET Images

\* Once saveenv has succeeded with a checksum that is up to date, every boot
\* until the next saveenv loads what it saved, whatever happened before: failed
\* erases and writes, bad blocks and power failures in earlier saves.
SealedIsLoaded ==
    \A image \in saved : image.data = image.crc => Loads(nand) = image.data

\* The checksum falls behind the variables only by names that an overflow in
\* _do_setenv has deleted: it never covers other values than those in RAM.
CrcLagsByDeletions ==
    \A n \in DOMAIN env : n \in DOMAIN crc /\ env[n] = crc[n]

\* Every page that saveenv programs has been erased by it: no page is programmed
\* twice, so the copy in NAND is never a blend of two environments.
WritesErasedPages ==
    pc = "write" => \A p \in PageNos : p >= page => nand[p] = Erased

\* The inductive invariant: what saveenv has done up to page.
SaveProgress ==
    /\ pc = "erase" => \A p \in PageNos : p < page => nand[p] = Erased
    /\ pc = "write" => \A p \in PageNos : p < page => nand[p] = Image
    /\ pc # "prompt" => saved = {}
    /\ \A image \in saved : \A p \in PageNos : nand[p] = image
EnvInv == EnvTypeOK /\ WritesErasedPages /\ SaveProgress /\ CrcLagsByDeletions

\* What "saveenv - save environment variables to persistent storage"
\* (cmd_nvedit.c) says: after its success the next boot has the variables.
SavedIsLoaded == \A image \in saved : Loads(nand) = image.data

\* The copy in NAND behaves as one value: the old environment, the defaults or
\* the one being saved, and a power failure at any step of saveenv leaves one of
\* these.
Store == INSTANCE EnvStore WITH
    stored <- Loads(nand),
    saving <- IF pc = "prompt" THEN "no" ELSE "yes"
ActsAsStore == Store!StoreSpec
=============================================================================
