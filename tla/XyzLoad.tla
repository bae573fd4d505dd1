------------------------------ MODULE XyzLoad ------------------------------
(***************************************************************************)
(* The serial download with a sending host and a serial line.              *)
(*                                                                         *)
(* The host is external.  It only answers: the board asks again after two  *)
(* seconds, senders by themselves after ten, and it answers within the two *)
(* seconds, so the board times out only when nothing is on the line.  The  *)
(* line loses and damages up to MaxFaults messages of a download.          *)
(***************************************************************************)
EXTENDS XyzModem

CONSTANTS
    Sizes,      \* block sizes the sender uses
    FileSizes,  \* sizes of files to send
    CtrlZs,     \* where they have ^Z: sets of offsets
    MaxFaults   \* bound on lost and damaged messages in one download

ASSUME LoadAssumption ==
    /\ Sizes \subseteq {Soh, Stx}
    /\ FileSizes \subseteq Nat
    /\ CtrlZs \subseteq SUBSET Nat
    /\ MaxFaults \in Nat

VARIABLES
    host,    \* what the sender waits for an answer to
    flen,    \* the size of its file
    ctrlz,   \* the offsets of the ^Z in it
    tells,   \* the length in its header block: flen, or 0 for not given
    hpos, hlen, hnum,  \* its current block: offset, size, number
    hcheck,  \* "crc" or "cksum"
    faults

hostVars == <<host, flen, ctrlz, tells, hpos, hlen, hnum, hcheck>>
vars == <<recvVars, line, hostVars, faults>>

-----------------------------------------------------------------------------
\* The byte at offset o of the padded file is ^Z.
IsCtrlZ(o) == o >= flen \/ o \in ctrlz

\* A block of the file, and a header with the length of the file, or 0.
Block(blk, first, n) ==
    [type |-> "block", blk |-> blk % BlkMod, start |-> first, len |-> n,
     eofs |-> {i \in 0..(n - 1) : IsCtrlZ(first + i)}, length |-> 0,
     check |-> hcheck']
Header(length) ==
    [type |-> "block", blk |-> 0, start |-> 0, len |-> Soh, eofs |-> {},
     length |-> length, check |-> hcheck']
Plain(type) == [type |-> type]

Send(m) == toBoard' = Append(toBoard, m)

SendHeader == host' = "hdr" /\ Send(Header(tells))
              /\ UNCHANGED <<hpos, hlen, hnum>>

\* The block at offset p, number n, or EOT behind the last one.
SendFrom(p, n) ==
    /\ hpos' = p
    /\ hnum' = n
    /\ \/ /\ p < flen
          /\ hlen' \in Sizes
          /\ host' = "data"
          /\ Send(Block(n, p, hlen'))
       \/ /\ p >= flen
          /\ hlen' = 0
          /\ host' = "eot"
          /\ Send(Plain("eot"))

SendAgain ==
    /\ \/ host = "hdr" /\ Send(Header(tells))
       \/ host = "data" /\ Send(Block(hnum, hpos, hlen))
       \/ host = "eot" /\ Send(Plain("eot"))
       \/ host = "null" /\ Send(Header(0))
    /\ UNCHANGED <<host, hpos, hlen, hnum>>

\* The user starts the sender for the protocol of the load command.
HostStarts ==
    /\ host = "off"
    /\ pc # "prompt"
    /\ host' = "idle"
    /\ flen' \in FileSizes
    /\ ctrlz' \in CtrlZs
    /\ tells' \in {0, flen'}
    /\ hpos' = 0 /\ hlen' = 0 /\ hnum' = 0
    /\ UNCHANGED <<recvVars, line, hcheck, faults>>

Requested == Head(toHost) \in {"C", "NAK"}

\* The sender's answer to a character from the board.
HostAnswers ==
    /\ toHost # <<>>
    /\ toHost' = Tail(toHost)
    /\ hcheck' = IF host = "idle" /\ Requested
                 THEN IF Head(toHost) = "C" THEN "crc" ELSE "cksum"
                 ELSE hcheck
    /\ \/ /\ host = "idle" /\ Requested
          /\ IF mode = "ymodem" THEN SendHeader ELSE SendFrom(0, 1)
       \/ /\ host = "start" /\ Requested
          /\ SendFrom(0, 1)
       \/ /\ host = "hdr" /\ ~Requested
          /\ SendFrom(0, 1)
       \/ /\ host = "hdr" /\ ~Requested
          /\ host' = "start"
          /\ UNCHANGED <<hpos, hlen, hnum, toBoard>>
       \/ /\ host = "data" /\ ~Requested
          /\ SendFrom(hpos + hlen, hnum + 1)
       \/ /\ host = "eot" /\ ~Requested
          /\ host' = IF mode = "ymodem" THEN "fin" ELSE "done"
          /\ UNCHANGED <<hpos, hlen, hnum, toBoard>>
       \/ /\ host = "fin" /\ Requested
          /\ host' = "null"
          /\ Send(Header(0))
          /\ UNCHANGED <<hpos, hlen, hnum>>
       \/ /\ host = "null" /\ ~Requested
          /\ host' = "done"
          /\ UNCHANGED <<hpos, hlen, hnum, toBoard>>
       \/ /\ host \in {"hdr", "data", "eot", "null"} /\ Requested
          /\ SendAgain
       \/ /\ \/ host \in {"off", "done"}
             \/ host \in {"idle", "start", "fin"} /\ ~Requested
          /\ UNCHANGED <<host, hpos, hlen, hnum, toBoard>>
    /\ UNCHANGED <<recvVars, flen, ctrlz, tells, faults>>

\* The user cancels the sender, or it just stops.
HostCancels ==
    /\ host \notin {"off", "done"}
    /\ host' = "done"
    /\ \/ Send(Plain("can"))
       \/ UNCHANGED toBoard
    /\ UNCHANGED <<recvVars, toHost, flen, ctrlz, tells, hpos, hlen, hnum, hcheck,
                   faults>>

\* Back at the prompt, the sender ends and the terminal takes over.
HostEnds ==
    /\ pc = "prompt"
    /\ host # "off" \/ toHost # <<>>
    /\ host' = "off"
    /\ flen' = 0 /\ ctrlz' = {} /\ tells' = 0
    /\ hpos' = 0 /\ hlen' = 0 /\ hnum' = 0
    /\ hcheck' = "crc"
    /\ toHost' = <<>>
    /\ toBoard' = <<>>
    /\ faults' = 0
    /\ UNCHANGED recvVars

LineFault ==
    /\ faults < MaxFaults
    /\ faults' = faults + 1
    /\ \/ /\ toHost # <<>>
          /\ toHost' = Tail(toHost)
          /\ UNCHANGED toBoard
       \/ /\ toBoard # <<>>
          /\ \/ toBoard' = Tail(toBoard)
             \/ /\ Arrives("block")
                /\ \E type \in {"cut", "frame", "cksum"} :
                      toBoard' = <<Plain(type)>> \o Tail(toBoard)
          /\ UNCHANGED toHost
    /\ UNCHANGED <<recvVars, hostVars>>

\* The load command is entered when the terminal is back.
LoadCommand ==
    /\ host = "off" /\ toHost = <<>>
    /\ LoadSerial
    /\ UNCHANGED <<hostVars, faults>>

\* After memcpy has run over the RAM only a reset helps; the next load
\* initialises what it uses.
Reset ==
    /\ pc = "crashed"
    /\ pc' = "prompt"
    /\ toBoard' = <<>>
    /\ UNCHANGED <<xyz, load, retries, crc_retries, toHost, hostVars, faults>>

-----------------------------------------------------------------------------
Init ==
    /\ RecvInit
    /\ host = "off"
    /\ flen = 0 /\ ctrlz = {} /\ tells = 0
    /\ hpos = 0 /\ hlen = 0 /\ hnum = 0
    /\ hcheck = "crc"
    /\ faults = 0

Board == Loader /\ UNCHANGED <<hostVars, faults>>

Next ==
    \/ LoadCommand \/ Board \/ Reset
    \/ HostStarts \/ HostAnswers \/ HostCancels \/ HostEnds \/ LineFault

Spec == Init /\ [][Next]_vars

\* The loader goes on and its timeouts expire; the host answers what it gets.
FairSpec == Spec /\ WF_vars(Board) /\ WF_vars(HostAnswers)

-----------------------------------------------------------------------------
(***************************************************************************)
(* Properties.                                                             *)
(***************************************************************************)
Receiving == {"open", "read", "copy", "final"}

\* The values the loader's and the sender's variables range over.
XyzTypeOK ==
    /\ pc \in Receiving \cup {"prompt", "crashed"}
    /\ mode \in {"xmodem", "ymodem"}
    /\ start \in Nat
    /\ len \in -1..Stx
    /\ next_blk \in 0..(BlkMod - 1)
    /\ crc_mode \in {"crc", "cksum"}
    /\ at_eof \in {"yes", "no"}
    /\ tx_ack \in {"yes", "no"}
    /\ {file_length, read_length, size} \subseteq Nat
    /\ retries \in 0..MaxRetries
    /\ crc_retries \in 0..MaxCrcRetries
    /\ room \in 1..Stx
    /\ mem \in [0..(size - 1) -> Nat]
    /\ faults \in 0..MaxFaults

\* The board has been told the length of the file.
Known == mode = "ymodem" /\ tells # 0

\* The file has nothing but ^Z from offset x up to offset y.
OnlyCtrlZ(x, y) == \A o \in x..(y - 1) : IsCtrlZ(o)

\* The file offset behind the first a bytes stored, and behind all of them.
Behind(a) == IF a = 0 THEN 0 ELSE mem[a - 1] + 1
Stored == Behind(size)

\* The file offset behind what the board has when the block in its buffer is
\* stored too.
Reached == IF pc = "copy" /\ len > 0 THEN start + len ELSE Stored

\* What is stored is the file from its beginning, in order and without a
\* repetition, whatever the line loses: blocks are told apart by numbers that
\* wrap around.  When the length was told nothing is left out, otherwise only ^Z.
StoredInOrder ==
    \A a \in 0..(size - 1) :
        /\ Behind(a) <= mem[a] /\ OnlyCtrlZ(Behind(a), mem[a])
        /\ Known => mem[a] = a

\* The whole file is stored.
Whole ==
    IF Known THEN size = flen
    ELSE Stored <= flen + 2 /\ OnlyCtrlZ(Stored, flen)

\* When stream_read accepts the end of file the whole file is there, exactly when
\* its length was told.  Otherwise it is there up to ^Z at its end, with at most two
\* bytes of padding.
CompleteAtEof == at_eof = "yes" /\ host # "off" => Whole

\* The sender never gets past a block that the board does not have, in memory or
\* in its buffer, save for the ^Z that were cut off.
AckedIsKept ==
    pc \in {"read", "copy"} /\ host \in {"data", "eot"} =>
        /\ OnlyCtrlZ(Reached, hpos)
        /\ Known => Least(hpos, flen) <= Reached

\* What is about to be copied follows what is stored: a block that comes again
\* is acknowledged and dropped.
CopiesNewData ==
    pc = "copy" /\ len > 0 =>
        /\ Stored <= start /\ OnlyCtrlZ(Stored, start)
        /\ Known => start = size

\* Only padding is cut off a file: xyzModem_stream_read "tries to detect and
\* remove" the ^Z that blocks are padded with.
KeepsTheFile == at_eof = "yes" /\ host # "off" => size >= flen

\* memcpy gets a length within the buffer.
CopyWithinBuffer == pc # "crashed"

\* The loader does not wait for ever, whatever host and line do: it returns to
\* the prompt (or runs into the copy of CopyWithinBuffer).
WaitingEnds == pc \in {"open", "read", "final"} ~> pc \in {"prompt", "crashed"}

-----------------------------------------------------------------------------
(***************************************************************************)
(* The inductive invariant.  The board answers every message once and asks *)
(* again only when the line is idle: one message or answer is under way at *)
(* a time, and all that is on the line is of the sender's current block.   *)
(***************************************************************************)
Can == Plain("can")
Answers == {"ACK", "C", "NAK"}
Active == pc \in {"open", "read", "copy"}

HostTypeOK ==
    /\ host \in {"off", "idle", "hdr", "start", "data", "eot", "fin", "null", "done"}
    /\ {flen, tells, hpos, hnum} \subseteq Nat
    /\ tells \in {0, flen}
    /\ hlen \in 0..Stx
    /\ hcheck \in {"crc", "cksum"}
    /\ host = "off" => hpos = 0 /\ hlen = 0 /\ hnum = 0

Num(n) == n % BlkMod

\* The block the sender is at; number 0 is the header.
Current(m) ==
    /\ m.blk = Num(hnum)
    /\ m.check = hcheck
    /\ m.start \in Nat /\ m.len \in 1..Stx
    /\ hnum = 0 => mode = "ymodem" /\ m.length = tells
    /\ hnum > 0 => /\ hpos < flen
                   /\ m.start = hpos /\ m.len = hlen
                   /\ m.eofs = {i \in 0..(hlen - 1) : IsCtrlZ(hpos + i)}

UnderWay(m) ==
    /\ m.type \in {"block", "eot", "cut", "frame", "cksum"}
    /\ m.type = "block" => Current(m)
    /\ m.type = "eot" => hnum > 0 /\ hpos >= flen

\* Nothing for the board, or only the cancellation of a sender that has gone.
Quiet == toBoard = <<>> \/ (toBoard = <<Can>> /\ host = "done")

OneMessage ==
    /\ host = "off" => toBoard = <<>>
    /\ Active =>
          /\ toHost = <<>> \/ \E c \in Answers : toHost = <<c>>
          /\ tx_ack = "yes" => toHost = <<>>
          /\ \/ Quiet
             \/ /\ \/ toBoard = <<Head(toBoard)>> /\ host \in {"hdr", "data", "eot", "done"}
                   \/ toBoard = <<Head(toBoard), Can>> /\ host = "done"
                /\ tx_ack = "no" /\ toHost = <<>>
                /\ UnderWay(Head(toBoard))

\* What a board has that has been sent all before offset p: n is behind it.
Fits(n, p) ==
    /\ n <= p /\ OnlyCtrlZ(n, p)
    /\ IF Known THEN n = Least(p, flen) ELSE n <= flen + 2

\* The board has the sender's current block, or waits for it.
Taken ==
    /\ next_blk = Num(hnum + 1)
    /\ Fits(Reached, hpos + hlen)
    /\ Known => read_length = hpos + hlen
Wanted ==
    /\ next_blk = Num(hnum) /\ hnum > 0
    /\ Fits(Reached, hpos)
    /\ Known => read_length = hpos
Acked == tx_ack = "yes" \/ toHost = <<"ACK">>

\* What the sender does, and how far the board has followed it.
HostInStep ==
    /\ Active =>
          /\ host \notin {"fin", "null"}
          /\ host \in {"off", "idle", "hdr", "start"} => hnum = 0
          /\ host \in {"hdr", "start"} => mode = "ymodem"
          /\ host \in {"data", "eot"} => hnum > 0 /\ (host = "data" <=> hpos < flen)
          /\ host = "data" => hlen > 0
          /\ hnum = 0 => hpos = 0 /\ hlen = 0 /\ size = 0
    /\ host = "off" /\ pc # "prompt" => size = 0
OpenInStep ==
    pc = "open" =>
        /\ hnum = 0 /\ host # "start" /\ mode = "ymodem"
        /\ ~Acked /\ read_length = 0
ReadInStep ==
    pc \in {"read", "copy"} =>
        /\ Taken \/ Wanted
        /\ Acked => Taken
        /\ host = "eot" \/ Arrives("eot") => Wanted
        /\ mode = "ymodem" => host \notin {"off", "idle"} /\ file_length = tells

\* What is copied is new.
CopyIsNew ==
    /\ pc = "copy" =>
          \/ len = -1
          \/ /\ len >= 0 /\ tx_ack = "yes" /\ hnum > 0
             /\ Stored <= start /\ OnlyCtrlZ(Stored, start)
             /\ Known => start = size
    /\ pc = "final" => Whole /\ host # "off"
    /\ at_eof = "yes" => pc = "prompt"

\* A fault costs two retries at most: one for the silence behind it and, when the
\* block had been taken, one for the block that comes again.
Charge ==
    IF Acked THEN 0 ELSE IF toHost # <<>> \/ Arrives("block") THEN 1 ELSE 2
RetriesPaid ==
    pc = "read" /\ Taken /\ hcheck = crc_mode
      /\ (host \in {"hdr", "data"} \/ Arrives("block")) =>
        MaxRetries - retries + Charge <= 2 * faults

XyzInv ==
    /\ XyzTypeOK /\ HostTypeOK
    /\ OneMessage
    /\ HostInStep /\ OpenInStep /\ ReadInStep
    /\ CopyIsNew /\ RetriesPaid
    /\ StoredInOrder /\ CompleteAtEof

\* The faults of a download cannot use up the retries of a block.
FewFaults == 2 * MaxFaults < MaxRetries
=============================================================================
