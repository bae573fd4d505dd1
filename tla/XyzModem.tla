------------------------------ MODULE XyzModem ------------------------------
(***************************************************************************)
(* The serial download of U-Boot: loadx and loady (common/cmd_load.c) over *)
(* the X/YMODEM receiver (common/xyzModem.c).                              *)
(*                                                                         *)
(* A data block is the piece of the file it carries: its first offset and  *)
(* its length.  mem holds, for each byte stored behind the load offset,    *)
(* the file offset it came from; offsets past the end of the file are the  *)
(* padding of the last block.  Of the bytes themselves a block only tells  *)
(* which are ^Z: those of its padding and those of the file.               *)
(*                                                                         *)
(* One action is one return of xyzModem_get_hdr with all that the caller   *)
(* does before it calls it again; the deferred ACK is sent by the next     *)
(* call.  A block arrives good, damaged or cut short.                      *)
(***************************************************************************)
EXTENDS Integers, Sequences

CONSTANTS
    Soh, Stx,       \* bytes in a short and a long block; the read buffer is
                    \* as large as a long block
    BlkMod,         \* block numbers are modulo this: 256
    MaxRetries,     \* xyzModem_MAX_RETRIES
    MaxCrcRetries   \* xyzModem_MAX_RETRIES_WITH_CRC

ASSUME XyzAssumption ==
    /\ {Soh, Stx, BlkMod, MaxRetries, MaxCrcRetries} \subseteq Nat
    /\ 3 <= Soh /\ Soh <= Stx
    /\ 2 < BlkMod
    /\ 0 < MaxRetries

VARIABLES
    pc,           \* "prompt", or where the loader waits in get_hdr: "open",
                  \* "read", "final"; "copy": before the memcpy; "crashed"
    mode,         \* "xmodem" or "ymodem"
    start, len,   \* xyz.bufp as a file offset, and xyz.len
    next_blk,
    crc_mode,     \* "crc" or "cksum"
    at_eof,       \* "yes" or "no"
    tx_ack,       \* "yes": the next get_hdr sends an ACK first
    file_length, read_length,
    retries, crc_retries,
    room,         \* size in xyzModem_stream_read: what is free in the buffer
    size,         \* bytes stored by the load command
    mem,          \* the bytes stored
    toBoard,      \* messages on the line to the board
    toHost        \* characters on the line to the host

xyz == <<mode, start, len, next_blk, crc_mode, at_eof, tx_ack, file_length,
         read_length>>
load == <<room, size, mem>>
recvVars == <<pc, xyz, load, retries, crc_retries>>
line == <<toBoard, toHost>>

Least(a, b) == IF a < b THEN a ELSE b
NoBytes == [a \in 0..-1 |-> 0]

-----------------------------------------------------------------------------
(***************************************************************************)
(* xyzModem_get_hdr.                                                       *)
(***************************************************************************)

\* The request character of the mode.
Nak == IF crc_mode = "crc" THEN "C" ELSE "NAK"

\* Wrong on purpose: tx_ack is not cleared.
SendAckKeeps ==
    /\ pc \in {"open", "read", "final"}
    /\ tx_ack = "yes"
    /\ toHost' = Append(toHost, "ACK")
    /\ UNCHANGED <<pc, xyz, load, retries, crc_retries, toBoard>>

\* The deferred ACK, on entry.
SendAck ==
    /\ pc \in {"open", "read", "final"}
    /\ tx_ack = "yes"
    /\ tx_ack' = "no"
    /\ toHost' = Append(toHost, "ACK")
    /\ UNCHANGED <<pc, mode, start, len, next_blk, crc_mode, at_eof, file_length,
                   read_length, load, retries, crc_retries, toBoard>>

Waiting(l) == pc = l /\ tx_ack = "no"

\* The line is idle for CHAR_TIMEOUT.
Silence == toBoard = <<>> /\ toHost = <<>>

Arrives(type) == toBoard # <<>> /\ Head(toBoard).type = type
\* A block with a check that does not fit crc_mode fails, or waits in vain for
\* its second byte.
Good == Arrives("block") /\ Head(toBoard).check = crc_mode
WrongCheck == Arrives("block") /\ Head(toBoard).check # crc_mode
TimesOut == Silence \/ Arrives("cut") \/ WrongCheck
Damaged == Arrives("frame") \/ Arrives("cksum") \/ WrongCheck

\* The message is read; after a framing error the line is flushed.
Consume ==
    toBoard' = IF toBoard = <<>> \/ Arrives("frame") THEN <<>> ELSE Tail(toBoard)

-----------------------------------------------------------------------------
(***************************************************************************)
(* load_serial_xmodem and load_serial_ymodem up to the first get_hdr.      *)
(***************************************************************************)
LoadSerial ==
    /\ pc = "prompt"
    /\ mode' \in {"xmodem", "ymodem"}
    /\ pc' = IF mode' = "xmodem" THEN "read" ELSE "open"
    /\ next_blk' = IF mode' = "xmodem" THEN 1 ELSE next_blk
    /\ start' = 0 /\ len' = 0
    /\ crc_mode' = "crc" /\ at_eof' = "no" /\ tx_ack' = "no"
    /\ file_length' = 0 /\ read_length' = 0
    /\ retries' = MaxRetries /\ crc_retries' = MaxCrcRetries
    /\ room' = Stx /\ size' = 0
    /\ mem' = NoBytes
    /\ toHost' = Append(toHost, "C")
    /\ UNCHANGED toBoard

\* The load command ends: stream_close, stream_terminate empties the line and
\* filesize is set, whether the transfer has succeeded or not.
Finish ==
    /\ pc' = "prompt"
    /\ toBoard' = <<>>

-----------------------------------------------------------------------------
(***************************************************************************)
(* xyzModem_stream_open, the loop for the header block.                    *)
(***************************************************************************)

\* Any good block ends the loop; only a header block is acknowledged.
OpenHeader ==
    /\ Waiting("open")
    /\ Good
    /\ LET m == Head(toBoard) IN
       IF m.blk = 0
       THEN file_length' = m.length /\ tx_ack' = "yes"
       ELSE UNCHANGED <<file_length, tx_ack>>
    /\ next_blk' = 1
    /\ len' = 0
    /\ pc' = "read"
    /\ retries' = MaxRetries
    /\ Consume
    /\ UNCHANGED <<mode, start, crc_mode, at_eof, read_length, load, crc_retries,
                   toHost>>

\* A timeout asks again, in the end without CRC; any other error only counts.
OpenRetry ==
    /\ Waiting("open")
    /\ retries > 1
    /\ \/ /\ TimesOut
          /\ crc_retries' = IF crc_retries > 0 THEN crc_retries - 1 ELSE 0
          /\ crc_mode' = IF crc_retries <= 1 THEN "cksum" ELSE crc_mode
          /\ toHost' = Append(toHost, IF crc_retries <= 1 THEN "NAK" ELSE Nak)
       \/ /\ Damaged
          /\ UNCHANGED <<crc_mode, crc_retries, toHost>>
       \/ /\ Arrives("eot")
          /\ toHost' = Append(toHost, "ACK")
          /\ UNCHANGED <<crc_mode, crc_retries>>
    /\ retries' = retries - 1
    /\ Consume
    /\ UNCHANGED <<pc, mode, start, len, next_blk, at_eof, tx_ack, file_length,
                   read_length, load>>

\* The last retry or a cancellation.
OpenFails ==
    /\ Waiting("open")
    /\ \/ Arrives("can") /\ UNCHANGED toHost
       \/ retries = 1 /\ Damaged /\ UNCHANGED toHost
       \/ retries = 1 /\ TimesOut
          /\ toHost' = Append(toHost, IF crc_retries <= 1 THEN "NAK" ELSE Nak)
       \/ retries = 1 /\ Arrives("eot") /\ toHost' = Append(toHost, "ACK")
    /\ Finish
    /\ UNCHANGED <<xyz, load, retries, crc_retries>>

-----------------------------------------------------------------------------
(***************************************************************************)
(* xyzModem_stream_read and the loop of the load command around it.        *)
(***************************************************************************)

\* What the loop that cuts off ^Z leaves of block m.
CutLens(m) ==
    {n \in 0..m.len : /\ n..(m.len - 1) \subseteq m.eofs
                      /\ n > 0 => n - 1 \notin m.eofs}

\* Wrong on purpose: the end is found a block too late.
TrimmedLensLate(m, readTo) ==
    IF mode = "xmodem" \/ file_length = 0
    THEN IF (m.len - 3)..(m.len - 1) \subseteq m.eofs THEN CutLens(m) ELSE {m.len}
    ELSE {IF readTo > file_length + Soh THEN m.len - (readTo - file_length) ELSE m.len}

\* The length that is left of block m.  When the length of the file is not known,
\* three ^Z at the end of any block count as padding and all the ^Z there are cut
\* off, down to an empty block.  Otherwise what goes beyond file_length is.
TrimmedLens(m, readTo) ==
    IF mode = "xmodem" \/ file_length = 0
    THEN IF (m.len - 3)..(m.len - 1) \subseteq m.eofs THEN CutLens(m) ELSE {m.len}
    ELSE {IF readTo > file_length THEN m.len - (readTo - file_length) ELSE m.len}

\* Wrong on purpose: any block will do.
IsExpectedAny(m) == TRUE

NumberAfter(n) == (n + 1) % BlkMod
IsExpected(m) == m.blk = next_blk

\* The expected block.
NextBlock ==
    /\ Waiting("read")
    /\ Good
    /\ LET m == Head(toBoard) IN
       /\ IsExpected(m)
       /\ next_blk' = NumberAfter(next_blk)
       /\ read_length' = IF mode = "ymodem" /\ file_length # 0
                         THEN read_length + m.len ELSE read_length
       /\ start' = m.start
       /\ len' \in TrimmedLens(m, read_length')
    /\ tx_ack' = "yes"
    /\ pc' = "copy"
    /\ Consume
    /\ UNCHANGED <<mode, crc_mode, at_eof, file_length, load, retries, crc_retries,
                   toHost>>

\* The block before once more: its ACK was lost.  It is acknowledged again and
\* the loop continues.
IsRepeat(m) == m.blk = (next_blk - 1) % BlkMod

RepeatedBlock ==
    /\ Waiting("read")
    /\ Good
    /\ LET m == Head(toBoard) IN
       /\ ~IsExpected(m)
       /\ IsRepeat(m)
       /\ start' = m.start
       /\ len' = m.len
    /\ toHost' = Append(toHost, "ACK")
    /\ retries' = retries - 1
    /\ pc' = IF retries = 1 THEN "copy" ELSE "read"
    /\ Consume
    /\ UNCHANGED <<mode, next_blk, crc_mode, at_eof, tx_ack, file_length,
                   read_length, load, crc_retries>>

\* A timeout, a damaged block or one out of sequence.
ReadError ==
    \/ TimesOut
    \/ Damaged
    \/ /\ Good
       /\ ~IsExpected(Head(toBoard))
       /\ ~IsRepeat(Head(toBoard))

\* Wrong on purpose: the retries are not counted.
ReadRetryUncounted ==
    /\ Waiting("read")
    /\ ReadError
    /\ toHost' = Append(toHost, Nak)
    /\ Consume
    /\ UNCHANGED <<pc, xyz, load, retries, crc_retries>>

ReadRetry ==
    /\ Waiting("read")
    /\ ReadError
    /\ retries > 1
    /\ retries' = retries - 1
    /\ toHost' = Append(toHost, Nak)
    /\ Consume
    /\ UNCHANGED <<pc, xyz, load, crc_retries>>

\* The last retry or a cancellation: xyz.len = -1, and what is in the buffer is
\* returned.  If that is something, the load command stores it and reads again.
ReadFails ==
    /\ Waiting("read")
    /\ \/ Arrives("can") /\ UNCHANGED toHost
       \/ ReadError /\ retries = 1 /\ toHost' = Append(toHost, Nak)
    /\ len' = -1
    /\ \/ /\ room < Stx
          /\ pc' = "copy"
          /\ room' = Stx
          /\ Consume
       \/ /\ room = Stx
          /\ Finish
          /\ UNCHANGED room
    /\ UNCHANGED <<mode, start, next_blk, crc_mode, at_eof, tx_ack, file_length,
                   read_length, size, mem, retries, crc_retries>>

\* memcpy of what fits; a full buffer is returned, stored and read again.  A
\* length of -1 copies without end.
Copy ==
    /\ pc = "copy"
    /\ LET n == Least(room, len) IN
       \/ /\ n < 0
          /\ pc' = "crashed"
          /\ UNCHANGED <<start, len, room, size, mem, retries>>
       \/ /\ n >= 0
          /\ size' = size + n
          /\ mem' = [a \in 0..(size' - 1) |->
                        IF a < size THEN mem[a] ELSE start + (a - size)]
          /\ start' = start + n
          /\ len' = len - n
          /\ room' = IF room = n THEN Stx ELSE room - n
          /\ pc' = IF len' = 0 THEN "read" ELSE "copy"
          /\ retries' = IF len' = 0 THEN MaxRetries ELSE retries
    /\ UNCHANGED <<mode, next_blk, crc_mode, at_eof, tx_ack, file_length,
                   read_length, crc_retries, line>>

\* EOT, acknowledged by get_hdr and again here: the end for XMODEM, YMODEM asks
\* for the final header.
EndOfFile ==
    /\ Waiting("read")
    /\ Arrives("eot")
    /\ at_eof' = IF mode = "xmodem" THEN "yes" ELSE at_eof
    /\ \/ /\ mode = "xmodem"
          /\ Finish
          /\ toHost' = toHost \o <<"ACK", "ACK">>
       \/ /\ mode = "ymodem"
          /\ pc' = "final"
          /\ toHost' = toHost \o <<"ACK", "ACK", Nak>>
          /\ Consume
    /\ UNCHANGED <<mode, start, len, next_blk, crc_mode, tx_ack, file_length,
                   read_length, load, retries, crc_retries>>

\* Whatever comes instead of the final header, the file has ended.
FinalHeader ==
    /\ Waiting("final")
    /\ toBoard # <<>> \/ Silence
    /\ toHost' = toHost \o (IF Arrives("eot") THEN <<"ACK", "ACK">> ELSE <<"ACK">>)
    /\ at_eof' = "yes"
    /\ Finish
    /\ UNCHANGED <<mode, start, len, next_blk, crc_mode, tx_ack, file_length,
                   read_length, load, retries, crc_retries>>

Loader ==
    \/ SendAck \/ OpenHeader \/ OpenRetry \/ OpenFails
    \/ NextBlock \/ RepeatedBlock \/ ReadRetry \/ ReadFails \/ Copy
    \/ EndOfFile \/ FinalHeader

RecvInit ==
    /\ pc = "prompt"
    /\ mode = "xmodem"
    /\ start = 0 /\ len = 0
    /\ next_blk = 0
    /\ crc_mode = "crc" /\ at_eof = "no" /\ tx_ack = "no"
    /\ file_length = 0 /\ read_length = 0
    /\ retries = 0 /\ crc_retries = 0
    /\ room = Stx /\ size = 0
    /\ mem = NoBytes
    /\ toBoard = <<>> /\ toHost = <<>>
=============================================================================
