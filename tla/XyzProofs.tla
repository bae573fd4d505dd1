----------------------------- MODULE XyzProofs -----------------------------
(***************************************************************************)
(* Proofs about the serial download, for every file, block size, number of *)
(* retries and modulus of the block numbers, on a line whose faults cannot *)
(* use up the retries (FewFaults).                                         *)
(***************************************************************************)
EXTENDS XyzLoad, SequenceTheorems, TLAPS

-----------------------------------------------------------------------------
(***************************************************************************)
(* Block numbers and lines.                                                *)
(***************************************************************************)

\* Division with remainder is unique.
LEMMA Remainder ==
    ASSUME NEW b \in Nat, NEW q \in Int, NEW r \in 0..(b - 1),
           NEW p \in Int, NEW s \in 0..(b - 1), b * q + r = b * p + s
    PROVE  r = s
<1>1. CASE q < p
  <2>1. b * (q + 1) <= b * p
    BY <1>1
  <2>2. b * (q + 1) = b * q + b
    OBVIOUS
  <2> QED BY <2>1, <2>2
<1>2. CASE p < q
  <2>1. b * (p + 1) <= b * q
    BY <1>2
  <2>2. b * (p + 1) = b * p + b
    OBVIOUS
  <2> QED BY <2>1, <2>2
<1> QED BY <1>1, <1>2

\* Consecutive blocks have different numbers; the receiver's next_blk and its
\* test for a repeated block step forward and back by one.
LEMMA NumFacts ==
    ASSUME NEW n \in Nat
    PROVE  /\ Num(n) \in 0..(BlkMod - 1)
           /\ Num(n + 1) # Num(n)
           /\ NumberAfter(Num(n)) = Num(n + 1)
           /\ (Num(n + 1) - 1) % BlkMod = Num(n)
<1> DEFINE b == BlkMod
           q == n \div b
           r == n % b
           p == (n + 1) \div b
           s == (n + 1) % b
           next == IF r + 1 = b THEN 0 ELSE r + 1
<1>1. b \in Nat /\ 2 < b
  BY XyzAssumption
<1>2. r \in 0..(b - 1) /\ q \in Int /\ n = b * q + r
  BY <1>1
<1>3. s \in 0..(b - 1) /\ p \in Int /\ n + 1 = b * p + s
  BY <1>1
<1>4. Num(n) = r /\ Num(n + 1) = s
  BY DEF Num
<1>5. NumberAfter(r) = next
  BY <1>1, <1>2 DEF NumberAfter
<1>6. (-1) % b = b - 1
  BY <1>1
<1> HIDE DEF b, r, q, s, p
<1>7. s = next
  <2>1. CASE r + 1 = b
    <3>1. n + 1 = b * (q + 1) + 0 /\ 0 \in 0..(b - 1) /\ q + 1 \in Int
      BY <1>1, <1>2, <2>1
    <3>2. b * (q + 1) + 0 = b * p + s
      BY <1>3, <3>1
    <3>3. 0 = s
      BY ONLY <1>1, <1>3, <3>1, <3>2, Remainder
    <3> QED BY <2>1, <3>3
  <2>2. CASE r + 1 # b
    <3> DEFINE t == r + 1
    <3>1. b * q + t = b * p + s /\ t \in 0..(b - 1)
      <4>1. b * q \in Int /\ b * p \in Int
        BY <1>1, <1>2, <1>3
      <4> QED BY <1>1, <1>2, <1>3, <2>2, <4>1
    <3> HIDE DEF t
    <3>2. t = s
      BY <3>1, <1>1, <1>2, <1>3, Remainder
    <3> QED BY <2>2, <3>2 DEF t
  <2> QED BY <2>1, <2>2
<1>8. (next - 1) % b = r
  BY <1>1, <1>2, <1>6
<1> QED BY <1>1, <1>2, <1>4, <1>5, <1>7, <1>8 DEF b

\* The header has number 0, the first block of the file number 1.
LEMMA FirstNums == Num(0) = 0 /\ Num(1) = 1
BY XyzAssumption DEF Num

\* A sequence of two elements.
LEMMA Pair ==
    ASSUME NEW a, NEW b, NEW s \in Seq({a, b}), Len(s) = 2, s[1] = a, s[2] = b
    PROVE  s = <<a, b>>
<1> DEFINE t == <<a, b>>
<1>1. t \in Seq({a, b}) /\ Len(t) = 2 /\ t[1] = a /\ t[2] = b
  OBVIOUS
<1> HIDE DEF t
<1>2. \A i \in 1..Len(s) : s[i] = t[i]
  BY <1>1
<1>3. s = t
  BY <1>1, <1>2, SeqEqual
<1> QED BY <1>3 DEF t

\* Lines with one and with two messages.
LEMMA ShortLines ==
    ASSUME NEW a, NEW b
    PROVE  /\ <<a>> # <<>> /\ Head(<<a>>) = a /\ Tail(<<a>>) = <<>>
           /\ <<a, b>> # <<>> /\ Head(<<a, b>>) = a /\ Tail(<<a, b>>) = <<b>>
           /\ Append(<<>>, a) = <<a>> /\ Append(<<a>>, b) = <<a, b>>
           /\ <<a>> = <<b>> => a = b
           /\ <<a>> # <<a, b>>
           /\ <<a>> \o <<>> = <<a>> /\ <<a>> \o <<b>> = <<a, b>>
<1>1. <<a>> # <<>> /\ Head(<<a>>) = a /\ Tail(<<a>>) = <<>>
  OBVIOUS
<1>2. <<a, b>> # <<>> /\ Head(<<a, b>>) = a
  OBVIOUS
<1>3. Tail(<<a, b>>) = <<b>>
  OBVIOUS
<1>4. Append(<<>>, a) = <<a>>
  OBVIOUS
<1>8. Append(<<a>>, b) = <<a, b>>
  <2> DEFINE s == Append(<<a>>, b)
  <2>1. <<a>> \in Seq({a, b})
    OBVIOUS
  <2>2. s \in Seq({a, b}) /\ Len(s) = 2 /\ s[1] = a /\ s[2] = b
    BY <2>1
  <2> HIDE DEF s
  <2>3. s = <<a, b>>
    BY <2>2, Pair
  <2> QED BY <2>3 DEF s
<1>5. (<<a>> = <<b>> => a = b) /\ <<a>> # <<a, b>>
  OBVIOUS
<1>6. <<a>> \o <<>> = <<a>>
  OBVIOUS
<1>7. <<a>> \o <<b>> = <<a, b>>
  <2> DEFINE s == <<a>> \o <<b>>
  <2>1. <<a>> \in Seq({a, b}) /\ <<b>> \in Seq({a, b})
    OBVIOUS
  <2>2. s \in Seq({a, b}) /\ Len(s) = 2 /\ s[1] = a /\ s[2] = b
    BY <2>1
  <2> HIDE DEF s
  <2>3. s = <<a, b>>
    BY <2>2, Pair
  <2> QED BY <2>3 DEF s
<1> QED BY <1>1, <1>2, <1>3, <1>4, <1>5, <1>6, <1>7, <1>8

\* A cancellation is no other message.
LEMMA CanType == Can.type = "can"
BY DEF Can, Plain

\* On a quiet line no block, EOT or damaged message arrives.
LEMMA QuietLine ==
    Quiet => \A type : Arrives(type) => type = "can" /\ toBoard = <<Can>>
BY CanType, ShortLines DEF Quiet, Arrives

\* What is on the two lines while the loader works.
LEMMA LineShape ==
    ASSUME XyzTypeOK, OneMessage, Active
    PROVE  /\ toHost # <<>> => Quiet /\ tx_ack = "no"
                               /\ \E c \in Answers : toHost = <<c>>
           /\ Quiet \/ /\ tx_ack = "no" /\ toHost = <<>>
                       /\ toBoard # <<>> /\ UnderWay(Head(toBoard))
                       /\ host \in {"hdr", "data", "eot", "done"}
                       /\ Head(toBoard).type # "can"
                       /\ \/ toBoard = <<Head(toBoard)>> /\ Tail(toBoard) = <<>>
                          \/ /\ toBoard = <<Head(toBoard), Can>>
                             /\ Tail(toBoard) = <<Can>> /\ host = "done"
<1> USE DEF OneMessage
<1>1. toHost # <<>> => Quiet /\ tx_ack = "no" /\ \E c \in Answers : toHost = <<c>>
  <2>1. tx_ack \in {"yes", "no"}
    BY DEF XyzTypeOK
  <2> QED BY <2>1
<1>2. ASSUME ~Quiet
      PROVE  /\ tx_ack = "no" /\ toHost = <<>> /\ UnderWay(Head(toBoard))
             /\ host \in {"hdr", "data", "eot", "done"}
             /\ \/ toBoard = <<Head(toBoard)>>
                \/ toBoard = <<Head(toBoard), Can>> /\ host = "done"
  BY <1>2
<1> HIDE DEF OneMessage
<1> DEFINE h == Head(toBoard)
<1>3. toBoard = <<h>> => toBoard # <<>> /\ Tail(toBoard) = <<>>
  BY ShortLines
<1>4. toBoard = <<h, Can>> => toBoard # <<>> /\ Tail(toBoard) = <<Can>>
  <2> HIDE DEF h
  <2>1. <<h, Can>> # <<>> /\ Tail(<<h, Can>>) = <<Can>>
    BY ShortLines
  <2> QED BY <2>1, Zenon
<1>5. UnderWay(h) => h.type # "can"
  BY DEF UnderWay
<1> QED BY <1>1, <1>2, <1>3, <1>4, <1>5

\* The same about the next state.
LEMMA QuietNext ==
    Quiet' => ~Arrives("block")' /\ ~Arrives("eot")'
<1>1. Quiet => ~Arrives("block") /\ ~Arrives("eot")
  BY QuietLine
<1> QED BY <1>1, PTL

\* Whatever the board reads, it leaves at most a cancellation.
LEMMA ConsumeQuiet ==
    ASSUME XyzTypeOK, OneMessage, Active, Consume, host' = host
    PROVE  Quiet'
<1>1. CASE Quiet
  <2>1. Tail(<<Can>>) = <<>>
    BY ShortLines
  <2>2. toBoard' = <<>>
    BY <1>1, <2>1 DEF Quiet, Consume
  <2> QED BY <2>2 DEF Quiet
<1>2. CASE ~Quiet
  <2>1. Tail(toBoard) = <<>> \/ (Tail(toBoard) = <<Can>> /\ host = "done")
    BY <1>2, LineShape
  <2>2. toBoard' = <<>> \/ toBoard' = Tail(toBoard)
    BY DEF Consume
  <2> QED BY <2>1, <2>2 DEF Quiet
<1> QED BY <1>1, <1>2

\* After an answer of the board the line still has one message at most.
LEMMA AnswerShape ==
    ASSUME Quiet', toHost' = <<>> \/ \E c \in Answers : toHost' = <<c>>,
           tx_ack' = "yes" => toHost' = <<>>
    PROVE  OneMessage'
BY DEF OneMessage, Quiet

\* What a step leaves alone keeps its part of the invariant.
LEMMA HostKept == HostTypeOK /\ UNCHANGED hostVars => HostTypeOK'
BY DEF HostTypeOK, hostVars

LEMMA StoreKept ==
    StoredInOrder /\ UNCHANGED <<size, mem, mode, flen, ctrlz, tells>> => StoredInOrder'
BY DEF StoredInOrder, Behind, OnlyCtrlZ, IsCtrlZ, Known

LEMMA WholeKept == UNCHANGED <<size, mem, mode, flen, ctrlz, tells>> => Whole' = Whole
BY DEF Whole, Stored, Behind, OnlyCtrlZ, IsCtrlZ, Known

LEMMA EofKept ==
    CompleteAtEof /\ UNCHANGED <<at_eof, size, mem, mode, hostVars>> => CompleteAtEof'
BY WholeKept DEF CompleteAtEof, hostVars

\* The board keeps its place while it keeps what it has of a file.
LEMMA PlaceKept ==
    Reached' = Reached /\ UNCHANGED <<mode, flen, ctrlz, tells, next_blk, read_length,
                                     hpos, hlen, hnum>>
      => Taken' = Taken /\ Wanted' = Wanted
BY DEF Taken, Wanted, Fits, OnlyCtrlZ, IsCtrlZ, Known, Num

LEMMA ReachedKept ==
    UNCHANGED <<size, mem, pc, start, len>> => Reached' = Reached
BY DEF Reached, Stored, Behind

LEMMA ReachedWaiting == pc # "copy" => Reached = Stored
BY DEF Reached

LEMMA StoredKept == UNCHANGED <<size, mem>> => Stored' = Stored
BY DEF Stored, Behind

LEMMA CopyIsNewKept ==
    CopyIsNew /\ UNCHANGED <<recvVars, flen, ctrlz, tells, hnum>>
      /\ (host' = "off" => host = "off") => CopyIsNew'
<1> SUFFICES ASSUME CopyIsNew, UNCHANGED <<recvVars, flen, ctrlz, tells, hnum>>,
                    host' = "off" => host = "off"
             PROVE  CopyIsNew'
  OBVIOUS
<1> USE DEF recvVars, xyz, load
<1>1. Whole' = Whole /\ Stored' = Stored
  BY WholeKept, StoredKept
<1> QED BY <1>1 DEF CopyIsNew, OnlyCtrlZ, IsCtrlZ, Known

-----------------------------------------------------------------------------
(***************************************************************************)
(* The steps of the loader.                                                *)
(***************************************************************************)

\* The deferred ACK says no more than tx_ack did.
LEMMA SendAckKeepsInv ==
    ASSUME XyzInv, SendAck, UNCHANGED <<hostVars, faults>>
    PROVE  XyzInv'
<1> USE DEF XyzInv, SendAck, xyz, load, hostVars
<1>1. XyzTypeOK'
  BY DEF XyzTypeOK
<1>2. HostTypeOK' /\ StoredInOrder' /\ CompleteAtEof'
  BY HostKept, StoreKept, EofKept
<1>3. CASE pc = "final"
  BY <1>1, <1>2, <1>3, WholeKept DEF OneMessage, Active, HostInStep, OpenInStep, ReadInStep,
     CopyIsNew, RetriesPaid
<1>4. CASE pc # "final"
  <2>1. pc = "read" /\ Active
    BY <1>4 DEF OpenInStep, Acked, Active
  <2>2. toHost = <<>> /\ Quiet
    BY <2>1, LineShape DEF OneMessage
  <2>3. toHost' = <<"ACK">>
    BY <2>2, ShortLines
  <2>4. Quiet' /\ ~Arrives("eot") /\ ~Arrives("eot")' /\ ~Arrives("block")'
    BY <2>2, QuietLine, QuietNext DEF Quiet
  <2>5. OneMessage'
    BY <2>3, <2>4, AnswerShape DEF Answers
  <2>6. HostInStep' /\ OpenInStep'
    BY <2>1 DEF HostInStep, OpenInStep, Active
  <2>7. Taken' = Taken /\ Wanted' = Wanted /\ Acked /\ Acked'
    BY <2>3, ReachedKept, PlaceKept DEF Acked
  <2>8. ReadInStep'
    BY <2>1, <2>4, <2>7 DEF ReadInStep
  <2>9. CopyIsNew'
    BY <2>1 DEF CopyIsNew
  <2>10. RetriesPaid'
    BY <2>1, <2>4, <2>7 DEF RetriesPaid, Charge
  <2> QED BY <1>1, <1>2, <2>5, <2>6, <2>8, <2>9, <2>10
<1> QED BY <1>3, <1>4

\* A good block is the sender's current one, on a line that is otherwise empty.
LEMMA GoodBlock ==
    ASSUME XyzInv, Active, Arrives("block")
    PROVE  /\ Current(Head(toBoard))
           /\ tx_ack = "no" /\ toHost = <<>> /\ host # "off"
           /\ ~Arrives("eot")
<1>1. ~Quiet
  BY QuietLine
<1>2. UnderWay(Head(toBoard)) /\ tx_ack = "no" /\ toHost = <<>>
      /\ host \in {"hdr", "data", "eot", "done"}
  BY <1>1, LineShape DEF XyzInv
<1> QED BY <1>2 DEF UnderWay, Arrives

\* stream_open takes the header block: the board has block 0.
LEMMA OpenHeaderKeepsInv ==
    ASSUME XyzInv, OpenHeader, UNCHANGED <<hostVars, faults>>
    PROVE  XyzInv'
<1> DEFINE m == Head(toBoard)
<1> USE DEF XyzInv, OpenHeader, load, hostVars
<1>1. pc = "open" /\ Active /\ Arrives("block")
  BY DEF Waiting, Good, Active
<1>2. Current(m) /\ toHost = <<>> /\ hnum = 0 /\ mode = "ymodem"
  BY <1>1, GoodBlock DEF OpenInStep
<1>3. m.blk = 0 /\ m.length = tells
  BY <1>2, FirstNums DEF Current
<1>4. file_length' = tells /\ tx_ack' = "yes"
  BY <1>3
<1>5. XyzTypeOK'
  <2>1. tells \in Nat
    BY DEF HostTypeOK
  <2>2. 1 \in 0..(BlkMod - 1) /\ MaxRetries \in 0..MaxRetries /\ 0 \in -1..Stx
    BY XyzAssumption
  <2> QED BY <1>4, <2>1, <2>2 DEF XyzTypeOK, Receiving
<1>6. HostTypeOK' /\ StoredInOrder' /\ CompleteAtEof'
  BY HostKept, StoreKept, EofKept
<1>7. Quiet' /\ ~Arrives("eot")' /\ ~Arrives("block")'
  BY <1>1, ConsumeQuiet, QuietNext
<1>8. OneMessage'
  BY <1>2, <1>7, AnswerShape
<1>9. HostInStep' /\ OpenInStep'
  BY <1>1 DEF HostInStep, OpenInStep, Active
<1>10. size = 0 /\ hpos = 0 /\ hlen = 0 /\ read_length = 0
  BY <1>1, <1>2 DEF HostInStep, OpenInStep
<1>11. Taken' /\ Acked'
  <2>1. flen \in Nat /\ tells \in {0, flen}
    BY DEF HostTypeOK
  <2>2. Reached' = 0
    BY <1>10 DEF Reached, Stored, Behind
  <2>4. Fits(Reached, hpos + hlen)'
    BY <1>10, <2>1, <2>2 DEF Fits, OnlyCtrlZ, Least
  <2>5. next_blk' = Num(hnum + 1)'
    BY <1>2, FirstNums DEF Num
  <2> QED BY <1>4, <1>10, <2>4, <2>5 DEF Taken, Acked
<1>12. ReadInStep'
  <2>1. host \notin {"eot", "off", "idle"}
    BY <1>1, <1>2, QuietLine, LineShape DEF HostInStep
  <2> QED BY <1>4, <1>7, <1>11, <2>1 DEF ReadInStep
<1>13. CopyIsNew'
  BY <1>1 DEF CopyIsNew
<1>14. RetriesPaid'
  <2>1. Charge' = 0
    BY <1>11 DEF Charge
  <2>2. faults \in Nat /\ MaxRetries \in Nat
    BY XyzAssumption DEF XyzTypeOK
  <2> QED BY <2>1, <2>2 DEF RetriesPaid
<1> QED BY <1>5, <1>6, <1>8, <1>9, <1>12, <1>13, <1>14

\* While stream_open waits, the sender has got nothing to acknowledge.
LEMMA OpenRetryKeepsInv ==
    ASSUME XyzInv, OpenRetry, UNCHANGED <<hostVars, faults>>
    PROVE  XyzInv'
<1> USE DEF XyzInv, OpenRetry, load, hostVars
<1>1. pc = "open" /\ Active /\ tx_ack = "no" /\ hnum = 0
  BY DEF Waiting, Active, OpenInStep
<1>2. ~Arrives("eot")
  <2>1. Arrives("eot") => ~Quiet
    BY QuietLine
  <2>2. ~Quiet => UnderWay(Head(toBoard))
    BY <1>1, LineShape
  <2> QED BY <1>1, <2>1, <2>2 DEF UnderWay, Arrives
<1>3. toHost = <<>>
  <2>1. Silence \/ ~Quiet
    BY <1>2, QuietLine DEF TimesOut, Damaged, WrongCheck
  <2> QED BY <1>1, <2>1, LineShape DEF Silence
<1>4. toHost' = <<>> \/ toHost' = <<"C">> \/ toHost' = <<"NAK">>
  <2>1. Append(<<>>, "C") = <<"C">> /\ Append(<<>>, "NAK") = <<"NAK">>
    BY ShortLines
  <2> QED BY <1>2, <1>3, <2>1 DEF Nak
<1>5. XyzTypeOK'
  <2>1. retries' \in 0..MaxRetries
    BY SMTT(20), XyzAssumption DEF XyzTypeOK
  <2>2. crc_retries' \in 0..MaxCrcRetries
    <3>1. crc_retries \in 0..MaxCrcRetries /\ MaxCrcRetries \in Nat
      BY XyzAssumption DEF XyzTypeOK
    <3>2. \/ crc_retries' = IF crc_retries > 0 THEN crc_retries - 1 ELSE 0
          \/ crc_retries' = crc_retries
      OBVIOUS
    <3> QED BY ONLY <3>1, <3>2
  <2>3. crc_mode' \in {"crc", "cksum"}
    BY DEF XyzTypeOK
  <2> QED BY <2>1, <2>2, <2>3 DEF XyzTypeOK
<1>6. HostTypeOK' /\ StoredInOrder' /\ CompleteAtEof'
  BY HostKept, StoreKept, EofKept
<1>7. OneMessage'
  <2>1. Quiet'
    BY <1>1, ConsumeQuiet
  <2> QED BY <1>1, <1>4, <2>1, AnswerShape DEF Answers
<1>8. HostInStep' /\ OpenInStep'
  <2>1. ~Acked'
    BY <1>1, <1>4, ShortLines DEF Acked
  <2> QED BY <1>1, <2>1 DEF HostInStep, OpenInStep, Active
<1>9. ReadInStep' /\ CopyIsNew' /\ RetriesPaid'
  BY <1>1 DEF ReadInStep, CopyIsNew, RetriesPaid
<1> QED BY <1>5, <1>6, <1>7, <1>8, <1>9

\* Outside the transfer only the file that is complete matters.
LEMMA PromptKeepsInv ==
    ASSUME XyzInv, XyzTypeOK', HostTypeOK', StoredInOrder', CompleteAtEof',
           pc' \notin {"open", "read", "copy"}, at_eof' = "yes" => pc' = "prompt",
           pc' = "final" => Whole' /\ host' # "off",
           host' = "off" => toBoard' = <<>> /\ (pc' # "prompt" => size' = 0)
    PROVE  XyzInv'
BY DEF XyzInv, OneMessage, Active, HostInStep, OpenInStep, ReadInStep, CopyIsNew,
       RetriesPaid

LEMMA OpenFailsKeepsInv ==
    ASSUME XyzInv, OpenFails, UNCHANGED <<hostVars, faults>>
    PROVE  XyzInv'
<1> USE DEF XyzInv, OpenFails, Finish, xyz, load, hostVars
<1>1. XyzTypeOK'
  BY DEF XyzTypeOK
<1>2. HostTypeOK' /\ StoredInOrder' /\ CompleteAtEof'
  BY HostKept, StoreKept, EofKept
<1> QED BY <1>1, <1>2, PromptKeepsInv

\* The parts of the type invariant that the steps of stream_read need.
LEMMA Numbers ==
    ASSUME XyzInv
    PROVE  /\ {start, size, read_length, file_length, flen, tells, hpos, hnum} \subseteq Nat
           /\ hlen \in Nat /\ faults \in Nat /\ retries \in 0..MaxRetries
           /\ Soh \in Nat /\ Stx \in Nat /\ MaxRetries \in Nat /\ 0 < Soh /\ Soh <= Stx
           /\ Num(hnum) # Num(hnum + 1)
<1>1. hnum \in Nat
  BY DEF XyzInv, HostTypeOK
<1>2. Num(hnum) # Num(hnum + 1)
  BY <1>1, NumFacts
<1>3. Soh \in Nat /\ Stx \in Nat /\ MaxRetries \in Nat /\ 0 < Soh /\ Soh <= Stx
  BY XyzAssumption
<1>4. /\ {start, size, read_length, file_length, flen, tells, hpos, hnum} \subseteq Nat
      /\ retries \in 0..MaxRetries
  BY DEF XyzInv, XyzTypeOK, HostTypeOK
<1>5. hlen \in 0..Stx /\ faults \in 0..MaxFaults
  BY DEF XyzInv, XyzTypeOK, HostTypeOK
<1>6. hlen \in Nat /\ faults \in Nat
  BY ONLY <1>3, <1>5, LoadAssumption
<1> QED BY <1>2, <1>3, <1>4, <1>6

\* When the length is known nothing is left out of what is stored.
LEMMA KnownStored == ASSUME XyzInv, Known PROVE Stored = size
<1>1. size \in Nat /\ (size > 0 => mem[size - 1] = size - 1)
  BY Numbers DEF XyzInv, StoredInOrder
<1> QED BY <1>1 DEF Stored, Behind

LEMMA StoredNat == ASSUME XyzInv PROVE Stored \in Nat
<1>1. size \in Nat /\ mem \in [0..(size - 1) -> Nat]
  BY Numbers DEF XyzInv, XyzTypeOK
<1>2. size > 0 => size - 1 \in 0..(size - 1)
  BY <1>1
<1> QED BY <1>1, <1>2 DEF Stored, Behind

\* What is left of a block, behind what came before it, is what the board should
\* have: nothing but ^Z is cut off.
LEMMA TrimFits ==
    ASSUME XyzInv, NEW m, Current(m), hnum > 0, Fits(Stored, hpos),
           mode = "ymodem" => file_length = tells,
           NEW r \in Nat, Known => r = hpos + hlen,
           NEW n \in TrimmedLens(m, r)
    PROVE  /\ n \in 0..Stx
           /\ Fits(IF n > 0 THEN hpos + n ELSE Stored, hpos + hlen)
           /\ m.start = hpos
           /\ Stored <= hpos /\ OnlyCtrlZ(Stored, hpos)
           /\ Known => hpos = size
<1>1. /\ hpos < flen /\ m.start = hpos /\ m.len = hlen /\ hlen \in 1..Stx
      /\ m.eofs = {i \in 0..(hlen - 1) : IsCtrlZ(hpos + i)}
  BY DEF Current
<1>2. Stored <= hpos /\ OnlyCtrlZ(Stored, hpos)
      /\ IF Known THEN Stored = Least(hpos, flen) ELSE Stored <= flen + 2
  BY DEF Fits
<1>3. /\ flen \in Nat /\ hpos \in Nat /\ Stx \in Nat /\ tells \in {0, flen}
      /\ Stored \in Nat
  BY Numbers, StoredNat DEF XyzInv, HostTypeOK
<1>4. mode \in {"xmodem", "ymodem"}
  BY DEF XyzInv, XyzTypeOK
<1>5. Known => Stored = hpos /\ hpos = size
  BY <1>1, <1>2, <1>3, KnownStored DEF Least
<1>6. CASE Known
  <2>1. n = IF hpos + hlen > flen THEN flen - hpos ELSE hlen
    BY <1>1, <1>3, <1>6 DEF TrimmedLens, Known
  <2>2. n \in 1..Stx /\ hpos + n = Least(hpos + hlen, flen) /\ hpos + n <= hpos + hlen
    BY <1>1, <1>3, <2>1 DEF Least
  <2>3. OnlyCtrlZ(hpos + n, hpos + hlen)
    <3> SUFFICES ASSUME NEW o \in (hpos + n)..((hpos + hlen) - 1) PROVE o >= flen
      BY DEF OnlyCtrlZ, IsCtrlZ
    <3> QED BY <1>1, <1>3, <2>1
  <2>4. Fits(hpos + n, hpos + hlen)
    BY <1>6, <2>2, <2>3 DEF Fits
  <2> QED BY <1>1, <1>2, <1>3, <1>5, <2>2, <2>4
<1>7. CASE ~Known
  <2>1. mode = "xmodem" \/ file_length = 0
    BY <1>4, <1>7 DEF Known
  <2>2. CASE (hlen - 3)..(hlen - 1) \subseteq m.eofs
    <3>1. n \in 0..hlen /\ n..(hlen - 1) \subseteq m.eofs /\ (n > 0 => n - 1 \notin m.eofs)
      BY <1>1, <2>1, <2>2 DEF TrimmedLens, CutLens
    <3>2. OnlyCtrlZ(hpos + n, hpos + hlen)
      <4> SUFFICES ASSUME NEW o \in (hpos + n)..((hpos + hlen) - 1) PROVE IsCtrlZ(o)
        BY DEF OnlyCtrlZ
      <4>1. o - hpos \in n..(hlen - 1) /\ hpos + (o - hpos) = o
        BY <1>1, <1>3, <3>1
      <4> QED BY <1>1, <3>1, <4>1
    <3>3. CASE n > 0
      <4>1. n - 1 \in 0..(hlen - 1) /\ hpos + n <= hpos + hlen
        BY <1>1, <1>3, <3>1, <3>3
      <4>2. ~IsCtrlZ(hpos + (n - 1))
        BY <1>1, <3>1, <3>3, <4>1
      <4>3. hpos + n <= flen + 2
        BY <1>1, <1>3, <3>1, <4>2 DEF IsCtrlZ
      <4>4. Fits(hpos + n, hpos + hlen)
        BY <1>7, <3>2, <4>1, <4>3 DEF Fits
      <4> QED BY <1>1, <1>2, <1>3, <1>7, <3>1, <3>3, <4>4
    <3>4. CASE n = 0
      <4>1. OnlyCtrlZ(Stored, hpos + hlen) /\ Stored <= hpos + hlen
        <5>1. \A o \in Stored..((hpos + hlen) - 1) :
                 o \in Stored..(hpos - 1) \/ o \in (hpos + n)..((hpos + hlen) - 1)
          BY <1>1, <1>3, <3>4
        <5> QED BY <1>1, <1>2, <1>3, <3>2, <5>1 DEF OnlyCtrlZ
      <4>2. Fits(Stored, hpos + hlen)
        BY <1>2, <1>7, <4>1 DEF Fits
      <4> QED BY <1>1, <1>2, <1>3, <1>7, <3>4, <4>2
    <3> QED BY <3>1, <3>3, <3>4
  <2>3. CASE ~((hlen - 3)..(hlen - 1) \subseteq m.eofs)
    <3>1. n = hlen /\ n > 0
      BY <1>1, <2>1, <2>3 DEF TrimmedLens
    <3>2. PICK i \in (hlen - 3)..(hlen - 1) : i \notin m.eofs
      BY <2>3
    <3>3. i \in Int /\ hlen <= i + 3 /\ i < hlen
      BY <1>1, <1>3, <3>2
    <3>4. i < 0 \/ hpos + i < flen
      BY <1>1, <1>3, <3>2, <3>3 DEF IsCtrlZ
    <3>5. hpos + hlen <= flen + 2
      BY ONLY <1>1, <1>3, <3>3, <3>4
    <3>6. Fits(hpos + n, hpos + hlen)
      <4>1. OnlyCtrlZ(hpos + n, hpos + hlen) /\ hpos + n <= hpos + hlen
        BY <1>1, <1>3, <3>1 DEF OnlyCtrlZ
      <4> QED BY <1>7, <3>1, <3>5, <4>1 DEF Fits
    <3> QED BY <1>1, <1>2, <1>3, <1>7, <3>1, <3>6
  <2> QED BY <2>2, <2>3
<1> QED BY <1>6, <1>7

\* The expected block is the one after what is stored.
LEMMA NextBlockKeepsInv ==
    ASSUME XyzInv, NextBlock, UNCHANGED <<hostVars, faults>>
    PROVE  XyzInv'
<1> DEFINE m == Head(toBoard)
<1> USE DEF XyzInv, NextBlock, load, hostVars
<1>1. pc = "read" /\ Active /\ Arrives("block") /\ m.blk = next_blk
  BY DEF Waiting, Good, Active, IsExpected
<1>2. Current(m) /\ toHost = <<>> /\ tx_ack = "no" /\ host # "off"
  BY <1>1, GoodBlock
<1>3. Wanted
  BY <1>1, <1>2, Numbers DEF ReadInStep, Taken, Current
<1>4. hnum > 0 /\ hpos < flen /\ m.len = hlen /\ Fits(Stored, hpos)
  <2>1. Reached = Stored
    BY <1>1, ReachedWaiting
  <2> QED BY <1>2, <1>3, <2>1 DEF Wanted, Current
<1>5. mode = "ymodem" => file_length = tells
  BY <1>1 DEF ReadInStep
<1>6. read_length' \in Nat /\ (Known => read_length' = hpos + hlen)
  <2>1. Known => read_length = hpos
    BY <1>3 DEF Wanted
  <2>2. read_length' = IF mode = "ymodem" /\ file_length # 0 THEN read_length + hlen
                       ELSE read_length
    BY <1>4
  <2> QED BY <1>5, <2>1, <2>2, Numbers DEF Known
<1>7. /\ len' \in 0..Stx /\ start' = hpos
      /\ Fits(IF len' > 0 THEN hpos + len' ELSE Stored, hpos + hlen)
      /\ Stored <= hpos /\ OnlyCtrlZ(Stored, hpos)
      /\ Known => hpos = size
  <2>1. len' \in TrimmedLens(m, read_length') /\ start' = m.start
    OBVIOUS
  <2>2. Current(m) /\ hnum > 0 /\ Fits(Stored, hpos) /\ (mode = "ymodem" => file_length = tells)
    BY <1>2, <1>4, <1>5
  <2> QED BY ONLY XyzInv, <1>6, <2>1, <2>2, TrimFits
<1>8. Quiet' /\ ~Arrives("eot")' /\ ~Arrives("block")'
  BY <1>1, ConsumeQuiet, QuietNext
<1>9. next_blk' = Num(hnum + 1) /\ next_blk' \in 0..(BlkMod - 1)
  <2>1. hnum \in Nat /\ hnum + 1 \in Nat /\ next_blk = Num(hnum)
    BY <1>3, Numbers DEF Wanted
  <2> QED BY <2>1, NumFacts
<1>10. XyzTypeOK'
  <2>1. len' \in -1..Stx /\ start' \in Nat
    BY <1>7, Numbers
  <2> QED BY <1>6, <1>9, <2>1 DEF XyzTypeOK, Receiving
<1>11. HostTypeOK' /\ StoredInOrder' /\ CompleteAtEof'
  BY HostKept, StoreKept, EofKept
<1>12. OneMessage'
  BY <1>2, <1>8, AnswerShape
<1>13. HostInStep' /\ OpenInStep'
  BY <1>1 DEF HostInStep, OpenInStep, Active
<1>14. Taken' /\ Acked'
  <2>1. Reached' = IF len' > 0 THEN hpos + len' ELSE Stored
    BY <1>7, StoredKept DEF Reached
  <2>2. Fits(Reached, hpos + hlen)'
    BY <1>7, <2>1 DEF Fits, OnlyCtrlZ, IsCtrlZ, Known
  <2>3. (next_blk = Num(hnum + 1))'
    BY <1>9 DEF Num
  <2> QED BY <1>6, <2>2, <2>3 DEF Taken, Acked, Known
<1>15. ReadInStep'
  <2>1. host # "eot"
    BY <1>1, <1>4 DEF HostInStep
  <2> QED BY <1>1, <1>8, <1>14, <2>1 DEF ReadInStep
<1>16. CopyIsNew' /\ RetriesPaid'
  <2>1. Stored' = Stored
    BY StoredKept
  <2> QED BY <1>1, <1>4, <1>7, <2>1 DEF CopyIsNew, RetriesPaid, OnlyCtrlZ, IsCtrlZ, Known
<1> QED BY <1>10, <1>11, <1>12, <1>13, <1>15, <1>16

\* A block that comes again is the one that has been taken last, and there are
\* retries left to acknowledge it.
LEMMA RepeatedBlockKeepsInv ==
    ASSUME XyzInv, FewFaults, RepeatedBlock, UNCHANGED <<hostVars, faults>>
    PROVE  XyzInv'
<1> DEFINE m == Head(toBoard)
<1> USE DEF XyzInv, RepeatedBlock, load, hostVars
<1>1. pc = "read" /\ Active /\ Arrives("block") /\ m.check = crc_mode /\ m.blk # next_blk
  BY DEF Waiting, Good, Active, IsExpected
<1>2. /\ Current(m) /\ toHost = <<>> /\ tx_ack = "no" /\ host # "off"
      /\ ~Arrives("eot")
  BY <1>1, GoodBlock
<1>3. Taken /\ ~Wanted
  BY <1>1, <1>2 DEF ReadInStep, Wanted, Current
<1>4. ~Acked
  BY <1>2 DEF Acked
<1>5. MaxRetries - retries + 1 <= 2 * faults /\ retries > 1
  <2>1. hcheck = crc_mode
    BY <1>1, <1>2 DEF Current
  <2>2. Charge = 1
    BY <1>1, <1>4 DEF Charge
  <2>3. MaxRetries - retries + 1 <= 2 * faults
    BY <1>1, <1>3, <2>1, <2>2 DEF RetriesPaid
  <2>4. faults <= MaxFaults /\ MaxFaults \in Nat
    BY LoadAssumption DEF XyzTypeOK
  <2>5. 2 * MaxFaults < MaxRetries
    BY DEF FewFaults
  <2>6. retries \in Nat /\ faults \in Nat /\ MaxRetries \in Nat
    BY Numbers
  <2> QED BY ONLY <2>3, <2>4, <2>5, <2>6
<1>6. pc' = "read" /\ retries' = retries - 1
  BY <1>5
<1>7. toHost' = <<"ACK">>
  BY <1>2, ShortLines
<1>8. Quiet' /\ ~Arrives("eot")' /\ ~Arrives("block")'
  BY <1>1, ConsumeQuiet, QuietNext
<1>9. XyzTypeOK'
  <2>1. start' \in Nat /\ len' \in -1..Stx
    <3>1. m.start \in Nat /\ m.len \in 1..Stx
      BY <1>2 DEF Current
    <3>2. start' = m.start /\ len' = m.len
      OBVIOUS
    <3>3. Stx \in Nat
      BY Numbers
    <3> QED BY ONLY <3>1, <3>2, <3>3
  <2>2. retries' \in 0..MaxRetries
    <3>1. retries \in 0..MaxRetries /\ MaxRetries \in Nat
      BY Numbers
    <3> QED BY ONLY <1>5, <1>6, <3>1
  <2> QED BY <1>6, <2>1, <2>2 DEF XyzTypeOK, Receiving
<1>10. HostTypeOK' /\ StoredInOrder' /\ CompleteAtEof'
  BY HostKept, StoreKept, EofKept
<1>11. OneMessage'
  BY <1>2, <1>7, <1>8, AnswerShape DEF Answers
<1>12. HostInStep' /\ OpenInStep'
  BY <1>1, <1>6 DEF HostInStep, OpenInStep, Active
<1>13. Taken' /\ Acked'
  <2>1. Reached' = Reached
    BY <1>1, <1>6 DEF Reached, Stored, Behind
  <2> QED BY <1>3, <1>7, <2>1, PlaceKept DEF Acked
<1>14. ReadInStep'
  <2>1. host # "eot"
    BY <1>1, <1>3 DEF ReadInStep
  <2> QED BY <1>1, <1>8, <1>13, <2>1 DEF ReadInStep
<1>15. CopyIsNew'
  BY <1>1, <1>6 DEF CopyIsNew
<1>16. RetriesPaid'
  <2>1. Charge' = 0
    BY <1>13 DEF Charge
  <2> QED BY <1>5, <1>6, <2>1, Numbers DEF RetriesPaid
<1> QED BY <1>9, <1>10, <1>11, <1>12, <1>14, <1>15, <1>16

\* An error in stream_read: silence, or a message that is damaged or checked the
\* other way.  A good block is always the expected or the repeated one.
LEMMA ReadErrors ==
    ASSUME XyzInv, pc = "read", tx_ack = "no", ReadError
    PROVE  /\ toHost = <<>> /\ ~Acked
           /\ Arrives("block") => hcheck # crc_mode
           /\ ~Arrives("eot") /\ ~Arrives("can")
<1> USE DEF XyzInv
<1>1. Active
  BY DEF Active
<1>2. Silence \/ ~Quiet
  BY QuietLine DEF ReadError, TimesOut, Damaged, WrongCheck, Good
<1>3. toHost = <<>>
  BY <1>1, <1>2, LineShape DEF Silence
<1>4. ~Acked
  BY <1>3 DEF Acked
<1>5. ASSUME Arrives("block") PROVE hcheck # crc_mode
  <2> DEFINE m == Head(toBoard)
  <2>1. Current(m)
    BY <1>1, <1>5, GoodBlock
  <2>2. m.blk = Num(hnum) /\ m.check = hcheck
    BY <2>1 DEF Current
  <2>3. IsExpected(m) \/ IsRepeat(m)
    <3>1. CASE Wanted
      BY <2>2, <3>1 DEF Wanted, IsExpected
    <3>2. CASE Taken
      <4>1. hnum \in Nat
        BY Numbers
      <4>2. (Num(hnum + 1) - 1) % BlkMod = Num(hnum)
        BY <4>1, NumFacts
      <4> QED BY <2>2, <3>2, <4>2 DEF Taken, IsRepeat
    <3> QED BY <3>1, <3>2 DEF ReadInStep
  <2>4. m.check # crc_mode
    BY <1>5, <2>3 DEF ReadError, TimesOut, Damaged, WrongCheck, Good, Arrives, Silence
  <2> QED BY <2>2, <2>4
<1>6. ~Arrives("eot") /\ ~Arrives("can")
  BY DEF ReadError, TimesOut, Damaged, WrongCheck, Good, Arrives, Silence
<1> QED BY <1>3, <1>4, <1>5, <1>6

\* The request character of the mode.
LEMMA NakAnswer == Nak \in {"C", "NAK"} /\ Nak \in Answers /\ Nak # "ACK"
BY DEF Nak, Answers

\* A retry: the fault behind it pays for it.
LEMMA ReadRetryKeepsInv ==
    ASSUME XyzInv, ReadRetry, UNCHANGED <<hostVars, faults>>
    PROVE  XyzInv'
<1> USE DEF XyzInv, ReadRetry, xyz, load, hostVars
<1>1. pc = "read" /\ Active /\ tx_ack = "no" /\ pc' = "read" /\ tx_ack' = "no"
  BY DEF Waiting, Active
<1>2. /\ toHost = <<>> /\ ~Acked /\ ~Arrives("eot")
      /\ Arrives("block") => hcheck # crc_mode
  BY <1>1, ReadErrors
<1>3. toHost' = <<Nak>> /\ toHost' # <<>> /\ ~Acked'
  BY <1>1, <1>2, ShortLines, NakAnswer DEF Acked
<1>4. Quiet' /\ ~Arrives("eot")' /\ ~Arrives("block")'
  BY <1>1, ConsumeQuiet, QuietNext
<1>5. XyzTypeOK'
  <2>1. retries' \in 0..MaxRetries
    <3>1. retries \in 0..MaxRetries /\ MaxRetries \in Nat
      BY Numbers
    <3>2. retries > 1 /\ retries' = retries - 1
      OBVIOUS
    <3> QED BY ONLY <3>1, <3>2
  <2> QED BY <2>1 DEF XyzTypeOK
<1>6. HostTypeOK' /\ StoredInOrder' /\ CompleteAtEof'
  BY HostKept, StoreKept, EofKept
<1>7. OneMessage'
  BY <1>1, <1>3, <1>4, AnswerShape, NakAnswer
<1>8. HostInStep' /\ OpenInStep'
  BY <1>1 DEF HostInStep, OpenInStep, Active
<1>9. Taken' = Taken /\ Wanted' = Wanted
  BY <1>1, ReachedKept, PlaceKept
<1>10. ReadInStep'
  BY <1>1, <1>3, <1>4, <1>9 DEF ReadInStep
<1>11. CopyIsNew'
  BY <1>1 DEF CopyIsNew
<1>12. RetriesPaid'
  <2> SUFFICES ASSUME Taken, hcheck = crc_mode, host \in {"hdr", "data"}
               PROVE  (MaxRetries - retries + Charge)' <= 2 * faults
    BY <1>4, <1>9 DEF RetriesPaid
  <2>1. Charge = 2 /\ Charge' = 1
    BY <1>2, <1>3 DEF Charge
  <2>2. MaxRetries - retries + Charge <= 2 * faults
    BY <1>1 DEF RetriesPaid
  <2>3. (MaxRetries - retries + Charge)' = MaxRetries - (retries - 1) + 1
    BY <2>1
  <2>4. retries \in Nat /\ faults \in Nat /\ MaxRetries \in Nat
    BY Numbers
  <2> QED BY ONLY <2>1, <2>2, <2>3, <2>4
<1> QED BY <1>5, <1>6, <1>7, <1>8, <1>10, <1>11, <1>12

\* The transfer fails: nothing is taken back.
LEMMA ReadFailsKeepsInv ==
    ASSUME XyzInv, ReadFails, UNCHANGED <<hostVars, faults>>
    PROVE  XyzInv'
<1> USE DEF XyzInv, ReadFails, hostVars
<1>1. pc = "read" /\ Active /\ tx_ack = "no" /\ tx_ack' = "no" /\ at_eof' # "yes"
  BY DEF Waiting, Active, CopyIsNew
<1>2. HostTypeOK' /\ StoredInOrder' /\ CompleteAtEof'
  BY HostKept, StoreKept, EofKept
<1>3. XyzTypeOK'
  <2>1. -1 \in -1..Stx /\ Stx \in 1..Stx
    BY Numbers
  <2> QED BY <2>1 DEF XyzTypeOK, Receiving, Finish
<1>4. CASE Finish
  BY <1>1, <1>2, <1>3, <1>4, PromptKeepsInv DEF Finish
<1>5. CASE pc' = "copy" /\ Consume
  <2>1. Quiet' /\ ~Arrives("eot")' /\ ~Arrives("block")'
    BY <1>1, <1>5, ConsumeQuiet, QuietNext
  <2>2. /\ toHost' = <<>> \/ \E c \in Answers : toHost' = <<c>>
        /\ Acked' => Acked
    <3>1. CASE toHost' = toHost
      BY <1>1, <3>1 DEF OneMessage, Acked
    <3>2. CASE ReadError /\ toHost' = Append(toHost, Nak)
      <4>1. toHost' = <<Nak>>
        BY <1>1, <3>2, ReadErrors, ShortLines
      <4> QED BY <1>1, <4>1, NakAnswer, ShortLines DEF Acked
    <3> QED BY <3>1, <3>2
  <2>3. OneMessage'
    BY <1>1, <2>1, <2>2, AnswerShape
  <2>4. HostInStep' /\ OpenInStep'
    BY <1>1, <1>5 DEF HostInStep, OpenInStep, Active
  <2>5. Reached' = Reached
    BY <1>1, <1>5 DEF Reached, Stored, Behind
  <2>6. Taken' = Taken /\ Wanted' = Wanted
    BY <2>5, PlaceKept
  <2>7. ReadInStep'
    BY <1>1, <2>1, <2>2, <2>6 DEF ReadInStep
  <2>8. CopyIsNew' /\ RetriesPaid'
    BY <1>1, <1>5 DEF CopyIsNew, RetriesPaid
  <2> QED BY <1>2, <1>3, <2>3, <2>4, <2>7, <2>8
<1> QED BY <1>4, <1>5

\* Indices of a function on 0..(k - 1).
LEMMA Indices ==
    ASSUME NEW k \in Nat
    PROVE  /\ k > 0 => k - 1 \in 0..(k - 1)
           /\ \A a \in 0..(k - 1) : a > 0 => a - 1 \in 0..(k - 1)
           /\ k..(k - 1) = {} /\ k <= k
OBVIOUS

\* The copy of a part of the block that follows what is stored.
LEMMA CopyParts ==
    ASSUME XyzInv, Copy, UNCHANGED <<hostVars, faults>>, len >= 0,
           Stored <= start, OnlyCtrlZ(Stored, start), Known => start = size
    PROVE  /\ XyzTypeOK' /\ StoredInOrder'
           /\ len' \in Nat /\ Reached' = Reached
           /\ Stored' <= start' /\ OnlyCtrlZ(Stored, start)'
           /\ Known' => start' = size'
           /\ pc' = IF len' = 0 THEN "read" ELSE "copy"
           /\ len' = 0 => retries' = MaxRetries
<1> DEFINE n == Least(room, len)
<1> USE DEF XyzInv
<1>1. room \in 1..Stx /\ len \in 0..Stx /\ Stx \in Nat /\ size \in Nat
  BY Numbers DEF XyzTypeOK
<1>2. n \in 0..Stx /\ n <= len /\ n <= room /\ (n = room \/ n = len)
  BY <1>1 DEF Least
<1>3. /\ size' = size + n
      /\ mem' = [a \in 0..(size' - 1) |-> IF a < size THEN mem[a] ELSE start + (a - size)]
      /\ start' = start + n /\ len' = len - n
      /\ room' = IF room = n THEN Stx ELSE room - n
      /\ pc' = IF len' = 0 THEN "read" ELSE "copy"
      /\ retries' = IF len' = 0 THEN MaxRetries ELSE retries
      /\ UNCHANGED <<mode, next_blk, crc_mode, at_eof, tx_ack, file_length,
                     read_length, crc_retries>>
  BY <1>1, <1>2 DEF Copy
<1>4. /\ start \in Nat /\ retries \in 0..MaxRetries /\ MaxRetries \in Nat
      /\ mem \in [0..(size - 1) -> Nat]
      /\ Stored \in Nat
  BY Numbers, StoredNat DEF XyzTypeOK
<1>5. pc = "copy" /\ UNCHANGED <<mode, flen, ctrlz, tells>>
  BY <1>3 DEF Copy, hostVars
<1> HIDE DEF n, XyzInv
<1>7. /\ size' \in Nat /\ len' \in 0..Stx /\ start' \in Nat
      /\ room' \in 1..Stx /\ retries' \in 0..MaxRetries
  BY ONLY <1>1, <1>2, <1>3, <1>4
<1>8. /\ mem' \in [0..(size' - 1) -> Nat]
      /\ \A a \in 0..(size' - 1) :
            mem'[a] = IF a < size THEN mem[a] ELSE start + (a - size)
  BY ONLY <1>1, <1>2, <1>3, <1>4, <1>7
<1>9. StoredInOrder'
  <2> SUFFICES ASSUME NEW a \in 0..(size' - 1)
               PROVE  /\ Behind(a)' <= mem'[a] /\ OnlyCtrlZ(Behind(a), mem[a])'
                      /\ Known' => mem'[a] = a
    BY DEF StoredInOrder
  <2>1. a \in Nat /\ Behind(a)' = IF a = 0 THEN 0 ELSE mem'[a - 1] + 1
    BY <1>7 DEF Behind
  <2>2. a > 0 => a - 1 \in 0..(size' - 1)
    BY <1>7, Indices
  <2>3. CASE a < size
    <3>1. mem'[a] = mem[a] /\ (a > 0 => mem'[a - 1] = mem[a - 1])
      BY <1>1, <1>8, <2>2, <2>3
    <3>2. Behind(a)' = Behind(a)
      BY <2>1, <3>1 DEF Behind
    <3>3. Behind(a) <= mem[a] /\ OnlyCtrlZ(Behind(a), mem[a]) /\ (Known => mem[a] = a)
      BY <1>1, <2>1, <2>3 DEF XyzInv, StoredInOrder
    <3> QED BY <1>5, <3>1, <3>2, <3>3 DEF OnlyCtrlZ, IsCtrlZ, Known
  <2>4. CASE a = size
    <3>1. mem'[a] = start /\ (a > 0 => mem'[a - 1] = mem[a - 1])
      BY <1>1, <1>4, <1>8, <2>2, <2>4
    <3>2. Behind(a)' = Stored
      BY <2>1, <2>4, <3>1 DEF Behind, Stored
    <3> QED BY <1>5, <2>4, <3>1, <3>2 DEF OnlyCtrlZ, IsCtrlZ, Known
  <2>5. CASE a > size
    <3>1. mem'[a] = start + (a - size) /\ mem'[a - 1] = start + (a - 1 - size)
      BY <1>1, <1>8, <2>1, <2>2, <2>5
    <3>2. Behind(a)' = mem'[a] /\ mem'[a] \in Nat
      BY <1>1, <1>4, <2>1, <2>5, <3>1
    <3>3. OnlyCtrlZ(Behind(a), mem[a])'
      BY <3>2 DEF OnlyCtrlZ
    <3> QED BY <1>1, <1>4, <1>5, <2>1, <3>1, <3>2, <3>3 DEF Known
  <2> QED BY <1>1, <2>1, <2>3, <2>4, <2>5
<1>10. Stored' = IF n = 0 THEN Stored ELSE start'
  <2>1. Stored' = IF size' = 0 THEN 0 ELSE mem'[size' - 1] + 1
    BY DEF Stored, Behind
  <2>2. size' > 0 => size' - 1 \in 0..(size' - 1)
    BY <1>7, Indices
  <2>3. CASE n = 0
    <3>1. size' = size /\ (size > 0 => mem'[size - 1] = mem[size - 1])
      BY <1>1, <1>3, <1>8, <2>2, <2>3
    <3> QED BY <1>1, <2>1, <2>3, <3>1 DEF Stored, Behind
  <2>4. CASE n > 0
    <3>1. size' > 0 /\ ~(size' - 1 < size)
      BY <1>1, <1>2, <1>3, <2>4
    <3>2. mem'[size' - 1] = start + (size' - 1 - size)
      BY <1>8, <2>2, <3>1
    <3> QED BY <1>1, <1>2, <1>3, <1>4, <2>1, <2>4, <3>1, <3>2
  <2> QED BY <1>2, <2>3, <2>4
<1>11. Stored' <= start' /\ OnlyCtrlZ(Stored, start)'
  <2>1. CASE n = 0
    BY <1>3, <1>4, <1>5, <1>10, <2>1 DEF OnlyCtrlZ, IsCtrlZ
  <2>2. CASE n # 0
    <3>1. Stored' = start' /\ start' \in Nat
      BY <1>7, <1>10, <2>2
    <3>2. start'..(start' - 1) = {} /\ start' <= start'
      BY <3>1, Indices
    <3> QED BY <3>1, <3>2 DEF OnlyCtrlZ
  <2> QED BY <2>1, <2>2
<1>12. Reached' = Reached
  <2>1. Reached = (IF len > 0 THEN start + len ELSE Stored)
    BY <1>5 DEF Reached
  <2>2. Reached' = (IF len' > 0 THEN start' + len' ELSE Stored')
    BY <1>3, <1>7 DEF Reached
  <2> QED BY <1>1, <1>2, <1>3, <1>4, <1>10, <2>1, <2>2
<1>13. Known' => start' = size'
  BY <1>1, <1>2, <1>3, <1>4, <1>5 DEF Known
<1>14. XyzTypeOK'
  <2>1. XyzTypeOK
    BY DEF XyzInv
  <2>2. len' \in -1..Stx
    BY <1>1, <1>7
  <2> QED BY <1>3, <1>7, <1>8, <2>1, <2>2 DEF XyzTypeOK, Receiving
<1> QED BY <1>3, <1>7, <1>9, <1>11, <1>12, <1>13, <1>14

\* The copy advances what is stored and leaves what the board has.
LEMMA CopyKeepsInv ==
    ASSUME XyzInv, Copy, UNCHANGED <<hostVars, faults>>
    PROVE  XyzInv'
<1> USE DEF XyzInv, hostVars
<1>1. /\ pc = "copy" /\ Active /\ at_eof # "yes"
      /\ UNCHANGED <<mode, next_blk, crc_mode, at_eof, tx_ack, file_length,
                     read_length, crc_retries, toBoard, toHost>>
  BY DEF Copy, Active, CopyIsNew, line
<1>2. HostTypeOK'
  BY HostKept
<1>3. CompleteAtEof'
  BY <1>1 DEF CompleteAtEof
<1>4. CASE len = -1
  <2>1. room \in Nat /\ room > 0
    <3>1. room \in 1..Stx /\ Stx \in Nat
      BY Numbers DEF XyzTypeOK
    <3> QED BY ONLY <3>1
  <2>2. Least(room, len) = -1
    BY <1>4, <2>1 DEF Least
  <2>3. pc' = "crashed" /\ UNCHANGED <<start, len, room, size, mem, retries>>
    BY <2>2 DEF Copy
  <2>4. XyzTypeOK' /\ StoredInOrder'
    BY <1>1, <2>3, StoreKept DEF XyzTypeOK
  <2>5. host = "off" => toBoard = <<>> /\ size = 0
    BY <1>1 DEF OneMessage, HostInStep
  <2> QED BY <1>1, <1>2, <1>3, <2>3, <2>4, <2>5, PromptKeepsInv
<1>5. CASE len # -1
  <2>1. /\ len >= 0 /\ tx_ack = "yes" /\ hnum > 0
        /\ Stored <= start /\ OnlyCtrlZ(Stored, start) /\ (Known => start = size)
    BY <1>1, <1>5 DEF CopyIsNew
  <2>2. /\ XyzTypeOK' /\ StoredInOrder'
        /\ len' \in Nat /\ Reached' = Reached
        /\ Stored' <= start' /\ OnlyCtrlZ(Stored, start)'
        /\ Known' => start' = size'
        /\ pc' = IF len' = 0 THEN "read" ELSE "copy"
        /\ len' = 0 => retries' = MaxRetries
    BY <2>1, CopyParts
  <2>3. toHost = <<>> /\ Quiet
    BY <1>1, <2>1, LineShape DEF OneMessage
  <2>4. Quiet' /\ ~Arrives("eot")' /\ ~Arrives("block")'
    BY <1>1, <2>3, QuietNext DEF Quiet
  <2>5. OneMessage'
    BY <1>1, <2>3, <2>4, AnswerShape
  <2>6. HostInStep' /\ OpenInStep'
    BY <1>1, <2>1, <2>2, Numbers DEF HostInStep, OpenInStep, Active
  <2>8. Taken' = Taken /\ Wanted' = Wanted /\ Acked' = Acked /\ Acked'
    BY <1>1, <2>1, <2>2, PlaceKept DEF Acked
  <2>9. ReadInStep'
    BY <1>1, <2>4, <2>8 DEF ReadInStep
  <2>10. CopyIsNew'
    BY <1>1, <2>1, <2>2 DEF CopyIsNew
  <2>11. RetriesPaid'
    <3>1. Charge' = 0
      BY <2>8 DEF Charge
    <3>2. pc' = "read" => retries' = MaxRetries
      BY <2>2
    <3> QED BY <3>1, <3>2, Numbers DEF RetriesPaid
  <2> QED BY <1>2, <1>3, <2>2, <2>5, <2>6, <2>9, <2>10, <2>11
<1> QED BY <1>4, <1>5

\* EOT comes when everything has been sent and taken.
LEMMA EndOfFileKeepsInv ==
    ASSUME XyzInv, EndOfFile, UNCHANGED <<hostVars, faults>>
    PROVE  XyzInv'
<1> USE DEF XyzInv, EndOfFile, load, hostVars
<1>1. pc = "read" /\ Active /\ at_eof # "yes"
  BY DEF Waiting, Active, CopyIsNew
<1>2. UnderWay(Head(toBoard)) /\ host # "off"
  BY <1>1, QuietLine, LineShape
<1>3. hpos >= flen /\ Wanted
  BY <1>1, <1>2 DEF UnderWay, Arrives, ReadInStep
<1>4. Whole
  <2>1. Fits(Stored, hpos)
    BY <1>1, <1>3, ReachedWaiting DEF Wanted
  <2>2. /\ OnlyCtrlZ(Stored, hpos)
        /\ IF Known THEN Stored = Least(hpos, flen) ELSE Stored <= flen + 2
    BY <2>1 DEF Fits
  <2>3. flen \in Nat /\ hpos \in Nat /\ Stored \in Nat
    BY Numbers, StoredNat
  <2>4. OnlyCtrlZ(Stored, flen)
    <3>1. \A o \in Stored..(flen - 1) : o \in Stored..(hpos - 1)
      BY ONLY <1>3, <2>3
    <3> QED BY <2>2, <3>1 DEF OnlyCtrlZ
  <2>5. Known => size = flen
    BY <1>3, <2>2, <2>3, KnownStored DEF Least
  <2> QED BY <2>2, <2>4, <2>5 DEF Whole
<1>5. XyzTypeOK'
  BY DEF XyzTypeOK, Receiving, Finish
<1>6. HostTypeOK' /\ StoredInOrder' /\ CompleteAtEof'
  BY <1>4, HostKept, StoreKept, WholeKept DEF CompleteAtEof
<1>7. pc' = "final" => Whole' /\ host' # "off"
  BY <1>2, <1>4, WholeKept
<1>8. pc' \in {"prompt", "final"} /\ (at_eof' = "yes" => pc' = "prompt")
  BY <1>1 DEF Finish
<1> QED BY <1>2, <1>5, <1>6, <1>7, <1>8, PromptKeepsInv

LEMMA FinalHeaderKeepsInv ==
    ASSUME XyzInv, FinalHeader, UNCHANGED <<hostVars, faults>>
    PROVE  XyzInv'
<1> USE DEF XyzInv, FinalHeader, Finish, load, hostVars
<1>1. Whole /\ host # "off"
  BY DEF Waiting, CopyIsNew
<1>2. XyzTypeOK'
  BY DEF XyzTypeOK, Receiving
<1>3. HostTypeOK' /\ StoredInOrder' /\ CompleteAtEof'
  BY <1>1, HostKept, StoreKept, WholeKept DEF CompleteAtEof
<1> QED BY <1>2, <1>3, PromptKeepsInv

-----------------------------------------------------------------------------
(***************************************************************************)
(* The commands, the sender and the line.                                  *)
(***************************************************************************)

\* A board that has nothing of a file fits one of which nothing was sent.
LEMMA NothingFits ==
    HostTypeOK /\ Reached = 0 /\ hpos = 0 /\ hlen = 0 => Fits(Reached, hpos + hlen)
BY DEF HostTypeOK, Fits, OnlyCtrlZ, Least

LEMMA NothingFitsNext ==
    HostTypeOK' /\ (Reached = 0)' /\ (hpos = 0)' /\ (hlen = 0)' => Fits(Reached, hpos + hlen)'
BY NothingFits, PTL

\* load starts with an empty line and a sender that is off.
LEMMA LoadCommandKeepsInv ==
    ASSUME XyzInv, LoadCommand
    PROVE  XyzInv'
<1> USE DEF XyzInv, LoadCommand, LoadSerial, hostVars
<1>1. /\ toBoard' = <<>> /\ toHost' = <<"C">> /\ host' = "off"
      /\ hnum' = 0 /\ hpos' = 0 /\ hlen' = 0
  BY ShortLines DEF OneMessage, HostTypeOK
<1>2. Quiet' /\ ~Arrives("eot")' /\ ~Arrives("block")'
  BY <1>1, QuietNext DEF Quiet
<1>3. XyzTypeOK'
  <2>1. 0 \in -1..Stx /\ 1 \in 0..(BlkMod - 1) /\ Stx \in 1..Stx
        /\ MaxRetries \in 0..MaxRetries /\ MaxCrcRetries \in 0..MaxCrcRetries
    BY XyzAssumption
  <2>2. mem' \in [0..(size' - 1) -> Nat]
    BY DEF NoBytes
  <2> QED BY <2>1, <2>2 DEF XyzTypeOK, Receiving
<1>4. HostTypeOK' /\ StoredInOrder' /\ CompleteAtEof'
  <2>1. StoredInOrder'
    BY XyzAssumption DEF StoredInOrder
  <2> QED BY <2>1, HostKept DEF CompleteAtEof
<1>5. ~Acked' /\ OneMessage'
  BY <1>1, <1>2, AnswerShape, ShortLines DEF Acked, Answers
<1>6. HostInStep' /\ OpenInStep'
  BY <1>1, <1>5 DEF HostInStep, OpenInStep
<1>7. ReadInStep'
  <2> SUFFICES ASSUME pc' = "read", mode' = "xmodem" PROVE Taken'
    BY <1>1, <1>2, <1>5 DEF ReadInStep
  <2>1. Reached' = 0
    BY DEF Reached, Stored, Behind
  <2>3. Fits(Reached, hpos + hlen)'
    BY <1>1, <1>4, <2>1, NothingFitsNext
  <2>4. next_blk' = Num(hnum + 1)'
    BY <1>1, FirstNums DEF Num
  <2> QED BY <2>3, <2>4 DEF Taken, Known
<1>8. CopyIsNew' /\ RetriesPaid'
  BY <1>1, <1>2 DEF CopyIsNew, RetriesPaid
<1> QED BY <1>3, <1>4, <1>5, <1>6, <1>7, <1>8

LEMMA ResetKeepsInv ==
    ASSUME XyzInv, Reset
    PROVE  XyzInv'
<1> USE DEF XyzInv, Reset, xyz, load, hostVars
<1>1. XyzTypeOK'
  BY DEF XyzTypeOK
<1>2. HostTypeOK' /\ StoredInOrder' /\ CompleteAtEof'
  BY HostKept, StoreKept, EofKept
<1> QED BY <1>1, <1>2, PromptKeepsInv

\* A step of the sender or of the line changes nothing on the board.
LEMMA BoardKept ==
    ASSUME XyzInv, UNCHANGED recvVars, faults' \in 0..MaxFaults
    PROVE  /\ XyzTypeOK' /\ Reached' = Reached
           /\ UNCHANGED <<flen, ctrlz, tells>> => StoredInOrder'
<1> USE DEF recvVars, xyz, load
<1>1. XyzTypeOK'
  BY DEF XyzInv, XyzTypeOK
<1> QED BY <1>1, ReachedKept, StoreKept DEF XyzInv

\* The user starts the sender: nothing has been sent, and the board has nothing.
LEMMA HostStartsKeepsInv ==
    ASSUME XyzInv, HostStarts
    PROVE  XyzInv'
<1> USE DEF XyzInv, HostStarts
<1>1. /\ toBoard = <<>> /\ hnum = 0 /\ hpos = 0 /\ hlen = 0
      /\ flen' \in Nat /\ tells' \in {0, flen'}
  BY LoadAssumption DEF OneMessage, HostTypeOK
<1>2. /\ Quiet' /\ ~Arrives("eot")' /\ ~Arrives("block")'
      /\ UNCHANGED <<toBoard, toHost>>
  BY <1>1, QuietNext DEF Quiet, line
<1>3. XyzTypeOK' /\ StoredInOrder' /\ Reached' = Reached
  <2>1. size = 0 /\ size' = size
    BY DEF HostInStep, recvVars, load
  <2>2. StoredInOrder'
    BY <2>1 DEF StoredInOrder
  <2> QED BY <2>2, BoardKept DEF XyzTypeOK
<1> USE DEF recvVars, xyz, load
<1>4. at_eof' = at_eof /\ at_eof # "yes"
  BY DEF CopyIsNew
<1>5. HostTypeOK' /\ CompleteAtEof'
  <2>1. {flen', tells', 0} \subseteq Nat /\ 0 \in 0..Stx
    BY <1>1, XyzAssumption
  <2> QED BY <1>1, <1>4, <2>1 DEF HostTypeOK, CompleteAtEof
<1>6. CASE ~Active
  <2>1. pc # "final"
    BY DEF CopyIsNew
  <2> QED BY <1>3, <1>4, <1>5, <1>6, <2>1, PromptKeepsInv DEF Active
<1>7. CASE Active
  <2>1. OneMessage'
    BY <1>2, <1>7, AnswerShape DEF OneMessage
  <2>2. HostInStep' /\ OpenInStep'
    BY <1>1, <1>2, <1>7 DEF HostInStep, OpenInStep, Active, Acked
  <2>3. ReadInStep'
    <3> SUFFICES ASSUME pc \in {"read", "copy"} PROVE Taken' /\ mode # "ymodem"
      BY <1>2 DEF ReadInStep
    <3>1. mode # "ymodem" /\ Taken
      BY <1>1 DEF ReadInStep, Wanted
    <3>2. Reached' = 0
      <4>1. size = 0
        BY <1>1, <1>7 DEF HostInStep
      <4> QED BY <1>1, <1>3, <4>1 DEF Reached, Stored, Behind, CopyIsNew
    <3>3. Fits(Reached, hpos + hlen)'
      BY <1>1, <1>5, <3>2, NothingFitsNext
    <3>4. (next_blk = Num(hnum + 1))'
      BY <1>1, <3>1 DEF Taken, Num
    <3> QED BY <3>1, <3>3, <3>4 DEF Taken, Known
  <2>4. CopyIsNew' /\ RetriesPaid'
    <3>1. pc = "copy" => len = -1
      BY <1>1 DEF CopyIsNew
    <3> QED BY <1>1, <1>2, <1>4, <1>7, <3>1 DEF CopyIsNew, RetriesPaid, Active
  <2> QED BY <1>3, <1>5, <2>1, <2>2, <2>3, <2>4
<1> QED BY <1>6, <1>7

\* A message that has been sent is alone on the line.
LEMMA SentShape ==
    ASSUME toBoard' = <<Head(toBoard')>>, UnderWay(Head(toBoard))',
           host' \in {"hdr", "data", "eot"}, tx_ack' = "no", toHost' = <<>>
    PROVE  OneMessage'
BY DEF OneMessage

\* Send on an empty line.
LEMMA SendOnEmpty ==
    ASSUME toBoard = <<>>, NEW m, toBoard' = Append(toBoard, m)
    PROVE  toBoard' = <<m>> /\ toBoard' # <<>> /\ Head(toBoard') = m
           /\ toBoard' = <<Head(toBoard')>>
BY ShortLines

\* The block sizes of the sender.
LEMMA SizeRange == \A n \in Sizes : n \in 1..Stx
BY LoadAssumption, XyzAssumption

\* The sender goes on with the next block or with EOT, and the board waits for
\* that one: it has the block before.
LEMMA SendFromKeepsInv ==
    ASSUME XyzInv, pc \in {"read", "copy"}, Taken, toBoard = <<>>, tx_ack = "no",
           SendFrom(hpos + hlen, hnum + 1), toHost' = <<>>, hcheck' \in {"crc", "cksum"},
           UNCHANGED <<recvVars, flen, ctrlz, tells, faults>>
    PROVE  XyzInv'
<1> USE DEF recvVars, xyz, load
<1>1. XyzTypeOK' /\ StoredInOrder' /\ Reached' = Reached
  BY BoardKept DEF XyzInv, XyzTypeOK
<1>2. /\ hpos' = hpos + hlen /\ hnum' = hnum + 1
      /\ hpos' \in Nat /\ hnum' \in Nat /\ hnum' > 0
      /\ flen \in Nat /\ Stx \in Nat
      /\ host' \in {"data", "eot"} /\ (host' = "data" <=> hpos' < flen)
      /\ hlen' \in 0..Stx /\ (host' = "data" => hlen' \in 1..Stx)
  <2>1. hpos \in Nat /\ hlen \in Nat /\ hnum \in Nat /\ flen \in Nat /\ Stx \in Nat
    BY Numbers
  <2>2. hpos' = hpos + hlen /\ hnum' = hnum + 1
    BY DEF SendFrom
  <2>3. \/ hpos + hlen < flen /\ hlen' \in Sizes /\ host' = "data"
        \/ hpos + hlen >= flen /\ hlen' = 0 /\ host' = "eot"
    BY DEF SendFrom
  <2> QED BY ONLY <2>1, <2>2, <2>3, SizeRange
<1> DEFINE m == Head(toBoard')
<1>3. /\ toBoard' = <<m>>
      /\ host' = "data" => m = Block(hnum', hpos', hlen')
      /\ host' = "eot" => m = Plain("eot")
  BY <1>2, SendOnEmpty DEF SendFrom, Send
<1>4. UnderWay(Head(toBoard))'
  <2>1. CASE host' = "data"
    <3>1. /\ m.type = "block" /\ m.blk = Num(hnum') /\ m.check = hcheck'
          /\ m.start = hpos' /\ m.len = hlen'
          /\ m.eofs = {i \in 0..(hlen' - 1) : IsCtrlZ(hpos' + i)}
      BY <1>3, <2>1 DEF Block, Num
    <3> HIDE DEF m
    <3>2. (Head(toBoard).eofs = {i \in 0..(hlen - 1) : IsCtrlZ(hpos + i)})'
      BY <3>1 DEF m, IsCtrlZ
    <3>3. flen' = flen
      OBVIOUS
    <3>4. (hnum' = 0) = FALSE
      BY <1>2
    <3> QED BY <1>2, <2>1, <3>1, <3>2, <3>3, <3>4 DEF UnderWay, Current, Num, m
  <2>2. CASE host' = "eot"
    <3>1. m.type = "eot"
      BY <1>3, <2>2 DEF Plain
    <3> QED BY <1>2, <2>2, <3>1 DEF UnderWay
  <2> QED BY <1>2, <2>1, <2>2
<1>5. OneMessage'
  BY <1>2, <1>3, <1>4, SentShape
<1>6. Wanted' /\ ~Taken' /\ ~Acked'
  <2>1. next_blk' = Num(hnum') /\ next_blk' # Num(hnum' + 1)
    BY <1>2, NumFacts DEF Taken
  <2>2. Fits(Reached, hpos)'
    BY <1>1, <1>2 DEF Taken, Fits, OnlyCtrlZ, IsCtrlZ, Known
  <2>3. (Known => read_length = hpos)'
    BY <1>2 DEF Taken, Known
  <2> QED BY <1>2, <2>1, <2>2, <2>3 DEF Wanted, Taken, Acked, Num
<1>7. HostTypeOK' /\ CompleteAtEof'
  <2>1. at_eof # "yes"
    BY DEF XyzInv, CopyIsNew
  <2>2. {flen, tells} \subseteq Nat /\ tells \in {0, flen}
    BY DEF XyzInv, HostTypeOK
  <2> QED BY <1>2, <2>1, <2>2 DEF HostTypeOK, CompleteAtEof
<1>8. HostInStep' /\ OpenInStep'
  BY <1>2 DEF HostInStep, OpenInStep
<1>9. ReadInStep'
  BY <1>2, <1>6 DEF ReadInStep, XyzInv
<1>10. CopyIsNew'
  <2>1. pc = "copy" => len = -1
    BY DEF XyzInv, CopyIsNew
  <2> QED BY <2>1 DEF XyzInv, CopyIsNew
<1>11. RetriesPaid'
  BY <1>6 DEF RetriesPaid
<1> QED BY <1>1, <1>5, <1>7, <1>8, <1>9, <1>10, <1>11 DEF XyzInv

\* While the loader works, an answer under way is the only thing on the line,
\* and an ACK is for the block the sender is at.
LEMMA AnswerArrives ==
    ASSUME XyzInv, Active, toHost # <<>>
    PROVE  /\ Quiet /\ tx_ack = "no" /\ Tail(toHost) = <<>>
           /\ host # "done" => toBoard = <<>>
           /\ ~Requested => Acked /\ Taken /\ pc \in {"read", "copy"}
           /\ Requested => ~Acked
           /\ host = "eot" => Requested
<1> USE DEF XyzInv
<1>1. Quiet /\ tx_ack = "no"
  BY LineShape
<1>2. PICK c \in Answers : toHost = <<c>>
  BY LineShape
<1>3. Tail(toHost) = <<>> /\ Head(toHost) = c
  BY <1>2, ShortLines
<1>4. c = "ACK" <=> ~Requested
  BY <1>3 DEF Requested, Answers
<1>5. Acked <=> c = "ACK"
  BY <1>1, <1>2, ShortLines DEF Acked
<1>6. Acked => Taken /\ pc \in {"read", "copy"}
  BY DEF Active, OpenInStep, ReadInStep
<1>7. host = "eot" => ~Acked
  <2>1. host = "eot" => hnum > 0 /\ (pc \in {"read", "copy"} => Wanted)
    BY DEF HostInStep, ReadInStep
  <2> QED BY <1>6, <2>1, Numbers DEF Wanted, Taken
<1> QED BY <1>1, <1>3, <1>4, <1>5, <1>6, <1>7 DEF Quiet

\* A request makes the sender send its current block or EOT again.
LEMMA SendAgainKeepsInv ==
    ASSUME XyzInv, Active, host \in {"hdr", "data", "eot"}, toBoard = <<>>, tx_ack = "no",
           toHost # <<>>, ~Acked, SendAgain, toHost' = <<>>,
           UNCHANGED <<recvVars, flen, ctrlz, tells, hcheck, faults>>
    PROVE  XyzInv'
<1> USE DEF recvVars, xyz, load
<1>1. XyzTypeOK' /\ StoredInOrder' /\ Reached' = Reached
  BY BoardKept DEF XyzInv, XyzTypeOK
<1>2. UNCHANGED <<host, hpos, hlen, hnum>> /\ hostVars' = hostVars
  BY DEF SendAgain, hostVars
<1>3. HostTypeOK' /\ CompleteAtEof'
  BY <1>2, HostKept, EofKept DEF XyzInv
<1> DEFINE m == Head(toBoard')
<1>4. /\ toBoard' = <<m>> /\ toBoard' # <<>>
      /\ host = "hdr" => m = Header(tells)
      /\ host = "data" => m = Block(hnum, hpos, hlen)
      /\ host = "eot" => m = Plain("eot")
  BY SendOnEmpty DEF SendAgain, Send
<1>5. /\ flen \in Nat /\ hpos \in Nat /\ hnum \in Nat /\ hlen \in 0..Stx
      /\ Stx \in Nat /\ Soh \in 1..Stx
  BY Numbers DEF XyzInv, HostTypeOK
<1>6. UnderWay(Head(toBoard))' /\ (m.type = "block" <=> host # "eot")
      /\ (m.type = "eot" <=> host = "eot")
  <2>1. CASE host = "hdr"
    <3>1. hnum = 0 /\ mode = "ymodem"
      BY <2>1 DEF XyzInv, HostInStep
    <3>2. /\ m.type = "block" /\ m.blk = Num(0) /\ m.check = hcheck'
          /\ m.start = 0 /\ m.len = Soh /\ m.length = tells
      BY <1>4, <2>1, FirstNums DEF Header
    <3> HIDE DEF m
    <3> QED BY <1>2, <1>5, <2>1, <3>1, <3>2 DEF UnderWay, Current, Num, m
  <2>2. CASE host = "data"
    <3>1. hpos < flen /\ hnum > 0 /\ hlen \in 1..Stx
      BY <1>5, <2>2 DEF XyzInv, HostInStep
    <3>2. /\ m.type = "block" /\ m.blk = Num(hnum) /\ m.check = hcheck'
          /\ m.start = hpos /\ m.len = hlen
          /\ m.eofs = {i \in 0..(hlen - 1) : IsCtrlZ(hpos + i)}
      BY <1>4, <2>2 DEF Block, Num
    <3>3. (Head(toBoard).eofs = {i \in 0..(hlen - 1) : IsCtrlZ(hpos + i)})'
      BY <1>2, <3>2 DEF IsCtrlZ
    <3>4. (hnum' = 0) = FALSE
      BY <1>2, <1>5, <3>1
    <3> HIDE DEF m
    <3> QED BY <1>2, <1>5, <2>2, <3>1, <3>2, <3>3, <3>4 DEF UnderWay, Current, Num, m
  <2>3. CASE host = "eot"
    <3>1. hpos >= flen /\ hnum > 0
      BY <1>5, <2>3 DEF XyzInv, HostInStep
    <3>2. m.type = "eot"
      BY <1>4, <2>3 DEF Plain
    <3> QED BY <1>2, <1>5, <2>3, <3>1, <3>2 DEF UnderWay
  <2> QED BY <2>1, <2>2, <2>3
<1>7. OneMessage'
  BY <1>2, <1>4, <1>6, SentShape
<1>8. (Arrives("block")' <=> host # "eot") /\ (Arrives("eot")' <=> host = "eot")
  BY <1>4, <1>6 DEF Arrives
<1>9. HostInStep' /\ OpenInStep'
  BY <1>2 DEF XyzInv, HostInStep, OpenInStep, Active, Acked
<1>10. Taken' = Taken /\ Wanted' = Wanted /\ ~Acked'
  BY <1>1, <1>2, PlaceKept DEF Acked
<1>11. ReadInStep'
  BY <1>2, <1>8, <1>10 DEF ReadInStep, XyzInv
<1>12. CopyIsNew'
  BY <1>2, CopyIsNewKept DEF XyzInv
<1>13. RetriesPaid'
  <2> SUFFICES ASSUME pc = "read", Taken, hcheck = crc_mode, host \in {"hdr", "data"}
               PROVE  (MaxRetries - retries + Charge)' <= 2 * faults
    BY <1>2, <1>8, <1>10 DEF RetriesPaid
  <2>1. Charge = 1 /\ Charge' = 1
    BY <1>8, <1>10 DEF Charge
  <2>2. MaxRetries - retries + Charge <= 2 * faults
    BY DEF XyzInv, RetriesPaid
  <2> QED BY <2>1, <2>2
<1> QED BY <1>1, <1>3, <1>7, <1>9, <1>11, <1>12, <1>13 DEF XyzInv

\* The first request for a YMODEM file gets the header.
LEMMA SendHeaderKeepsInv ==
    ASSUME XyzInv, Active, host = "idle", mode = "ymodem", toBoard = <<>>, tx_ack = "no",
           SendHeader, toHost' = <<>>, hcheck' \in {"crc", "cksum"},
           UNCHANGED <<recvVars, flen, ctrlz, tells, faults>>
    PROVE  XyzInv'
<1> USE DEF recvVars, xyz, load
<1>1. XyzTypeOK' /\ StoredInOrder' /\ Reached' = Reached
  BY BoardKept DEF XyzInv, XyzTypeOK
<1>2. pc = "open" /\ at_eof # "yes"
  BY DEF XyzInv, Active, ReadInStep, CopyIsNew
<1>3. UNCHANGED <<hpos, hlen, hnum>> /\ host' = "hdr" /\ hnum = 0
  BY <1>2 DEF SendHeader, XyzInv, OpenInStep
<1>4. HostTypeOK' /\ CompleteAtEof'
  BY <1>2, <1>3 DEF XyzInv, HostTypeOK, CompleteAtEof
<1> DEFINE m == Head(toBoard')
<1>5. toBoard' = <<m>> /\ m = Header(tells)
  BY SendOnEmpty DEF SendHeader, Send
<1>6. UnderWay(Head(toBoard))'
  <2>1. /\ m.type = "block" /\ m.blk = Num(0) /\ m.check = hcheck'
        /\ m.start = 0 /\ m.len = Soh /\ m.length = tells
    BY <1>5, FirstNums DEF Header
  <2>2. Soh \in 1..Stx
    BY Numbers
  <2> HIDE DEF m
  <2> QED BY <1>3, <2>1, <2>2 DEF UnderWay, Current, Num, m
<1>7. OneMessage'
  BY <1>3, <1>5, <1>6, SentShape
<1>8. HostInStep' /\ OpenInStep'
  BY <1>2, <1>3 DEF XyzInv, HostInStep, OpenInStep, Active, Acked
<1>9. ReadInStep' /\ CopyIsNew' /\ RetriesPaid'
  BY <1>2 DEF ReadInStep, CopyIsNew, RetriesPaid
<1> QED BY <1>1, <1>4, <1>7, <1>8, <1>9 DEF XyzInv

\* An answer to which the sender sends nothing.
LEMMA NoMessageKeepsInv ==
    ASSUME XyzInv, Active, Quiet, tx_ack = "no", toHost' = <<>>,
           \/ host' = host /\ host \notin {"hdr", "data", "eot"}
           \/ host = "hdr" /\ host' = "start" /\ pc # "open" /\ Taken,
           UNCHANGED <<recvVars, toBoard, hpos, hlen, hnum, hcheck, flen, ctrlz, tells,
                       faults>>
    PROVE  XyzInv'
<1> USE DEF recvVars, xyz, load
<1>1. XyzTypeOK' /\ StoredInOrder' /\ Reached' = Reached
  BY BoardKept DEF XyzInv, XyzTypeOK
<1>2. Quiet' /\ ~Arrives("eot")' /\ ~Arrives("block")'
  BY QuietNext DEF Quiet
<1>3. HostTypeOK' /\ CompleteAtEof'
  BY WholeKept DEF XyzInv, HostTypeOK, CompleteAtEof
<1>4. OneMessage'
  BY <1>2, AnswerShape
<1>5. HostInStep' /\ OpenInStep'
  BY DEF XyzInv, HostInStep, OpenInStep, Active, Acked
<1>6. Taken' = Taken /\ Wanted' = Wanted /\ ~Acked'
  BY <1>1, PlaceKept DEF Acked
<1>7. ReadInStep'
  BY <1>2, <1>6 DEF ReadInStep, XyzInv
<1>8. CopyIsNew'
  BY CopyIsNewKept DEF XyzInv
<1>9. RetriesPaid'
  BY <1>2 DEF RetriesPaid
<1> QED BY <1>1, <1>3, <1>4, <1>5, <1>7, <1>8, <1>9 DEF XyzInv

\* The sender's answers keep the types; one that is off stays off.
LEMMA AnswerTypes ==
    ASSUME XyzInv, HostAnswers
    PROVE  HostTypeOK' /\ (host' = "off" <=> host = "off")
           /\ (host = "off" => UNCHANGED toBoard)
<1> USE DEF HostAnswers
<1>1. HostTypeOK /\ Stx \in Nat
  BY Numbers DEF XyzInv
<1>2. UNCHANGED <<flen, tells>> /\ hcheck' \in {"crc", "cksum"}
  BY <1>1 DEF HostTypeOK
<1>3. ASSUME NEW p \in Nat, NEW n \in Nat, SendFrom(p, n)
      PROVE  hpos' \in Nat /\ hnum' \in Nat /\ hlen' \in 0..Stx
             /\ host' \in {"data", "eot"}
  <2>1. \A k \in Sizes : k \in 0..Stx
    BY SizeRange
  <2>2. 0 \in 0..Stx
    BY <1>1
  <2> QED BY <1>3, <2>1, <2>2 DEF SendFrom
<1>4. CASE host = "idle" /\ Requested
  BY <1>1, <1>2, <1>3, <1>4 DEF SendHeader, HostTypeOK
<1>5. CASE host = "start" /\ Requested
  BY <1>1, <1>2, <1>3, <1>5 DEF HostTypeOK
<1>6. CASE host = "hdr" /\ ~Requested
  BY <1>1, <1>2, <1>3, <1>6 DEF HostTypeOK
<1>7. CASE host = "data" /\ ~Requested
  <2>1. hpos + hlen \in Nat /\ hnum + 1 \in Nat
    <3>1. hpos \in Nat /\ hlen \in Nat /\ hnum \in Nat
      BY Numbers
    <3> QED BY ONLY <3>1
  <2>2. SendFrom(hpos + hlen, hnum + 1)
    BY <1>7
  <2>3. hpos' \in Nat /\ hnum' \in Nat /\ hlen' \in 0..Stx /\ host' \in {"data", "eot"}
    BY ONLY <1>3, <2>1, <2>2
  <2> QED BY <1>1, <1>2, <1>7, <2>3 DEF HostTypeOK
<1>8. CASE (host \in {"eot", "null"} /\ ~Requested) \/ host = "fin"
  BY <1>1, <1>2, <1>8 DEF HostTypeOK
<1>9. CASE host \in {"hdr", "data", "eot", "null"} /\ Requested
  BY <1>1, <1>2, <1>9 DEF HostTypeOK, SendAgain
<1>10. CASE host \in {"off", "done"} \/ (host \in {"idle", "start", "fin"} /\ ~Requested)
  BY <1>1, <1>2, <1>10 DEF HostTypeOK
<1> QED BY <1>1, <1>4, <1>5, <1>6, <1>7, <1>8, <1>9, <1>10 DEF HostTypeOK

\* The sender's answer to a character from the board.
LEMMA HostAnswersKeepsInv ==
    ASSUME XyzInv, HostAnswers
    PROVE  XyzInv'
<1> USE DEF HostAnswers
<1>1. /\ HostTypeOK' /\ (host' = "off" <=> host = "off")
      /\ host = "off" => UNCHANGED toBoard
  BY AnswerTypes
<1>2. UNCHANGED <<recvVars, flen, ctrlz, tells, faults>> /\ toHost # <<>> /\ toHost' = Tail(toHost)
  OBVIOUS
<1>3. CASE ~Active
  <2>1. XyzTypeOK' /\ StoredInOrder'
    BY BoardKept DEF XyzInv, XyzTypeOK
  <2>2. CompleteAtEof'
    BY <1>1, <1>2, WholeKept DEF XyzInv, CompleteAtEof, recvVars, xyz, load
  <2>3. pc' = "final" => Whole' /\ host' # "off"
    BY <1>1, <1>2, WholeKept DEF XyzInv, CopyIsNew, recvVars, xyz, load
  <2>4. at_eof' = "yes" => pc' = "prompt"
    BY <1>2 DEF XyzInv, CopyIsNew, recvVars, xyz
  <2>5. host' = "off" => toBoard' = <<>> /\ (pc' # "prompt" => size' = 0)
    BY <1>1, <1>2 DEF XyzInv, OneMessage, HostInStep, recvVars, load
  <2>6. pc' \notin {"open", "read", "copy"}
    BY <1>2, <1>3 DEF Active, recvVars
  <2> QED BY <1>1, <2>1, <2>2, <2>3, <2>4, <2>5, <2>6, PromptKeepsInv
<1>4. CASE Active
  <2>1. /\ Quiet /\ tx_ack = "no" /\ toHost' = <<>>
        /\ host # "done" => toBoard = <<>>
        /\ ~Requested => Acked /\ Taken /\ pc \in {"read", "copy"}
        /\ Requested => ~Acked
        /\ host = "eot" => Requested
    BY <1>2, <1>4, AnswerArrives
  <2>2. /\ host \in {"idle", "hdr", "start"} => hnum = 0
        /\ hnum = 0 => hpos = 0 /\ hlen = 0
        /\ host \notin {"fin", "null"}
    BY <1>4 DEF XyzInv, HostInStep
  <2>3. hcheck' \in {"crc", "cksum"} /\ (host # "idle" => hcheck' = hcheck)
    BY <1>1 DEF HostTypeOK
  <2>4. pc # "open" /\ hnum = 0 => Taken /\ pc \in {"read", "copy"}
    BY <1>4 DEF Active, XyzInv, ReadInStep, Wanted
  <2>5. /\ host = "start" => pc # "open"
        /\ host = "idle" /\ mode # "ymodem" => pc # "open"
    BY DEF XyzInv, OpenInStep
  <2>6. ASSUME SendFrom(0, 1), hnum = 0, pc # "open", host # "done" PROVE XyzInv'
    <3>1. SendFrom(hpos + hlen, hnum + 1)
      <4>1. hpos + hlen = 0 /\ hnum + 1 = 1
        BY <2>2, <2>6
      <4> QED BY <2>6, <4>1
    <3> QED BY <1>2, <2>1, <2>3, <2>4, <2>6, <3>1, SendFromKeepsInv
  <2>7. CASE host = "idle" /\ Requested
    <3>1. CASE mode = "ymodem"
      BY <1>2, <1>4, <2>1, <2>3, <2>7, <3>1, SendHeaderKeepsInv
    <3>2. CASE mode # "ymodem"
      BY <2>2, <2>5, <2>6, <2>7, <3>2
    <3> QED BY <3>1, <3>2
  <2>8. CASE host = "start" /\ Requested
    BY <2>2, <2>5, <2>6, <2>8
  <2>9. CASE host = "hdr" /\ ~Requested
    <3>1. CASE SendFrom(0, 1)
      BY <2>1, <2>2, <2>6, <2>9, <3>1
    <3>2. CASE host' = "start" /\ UNCHANGED <<hpos, hlen, hnum, toBoard>>
      <4>1. hcheck' = hcheck /\ pc # "open"
        BY <2>1, <2>3, <2>9
      <4> QED BY <1>2, <1>4, <2>1, <2>9, <3>2, <4>1, NoMessageKeepsInv
    <3> QED BY <2>9, <3>1, <3>2
  <2>10. CASE host = "data" /\ ~Requested
    <3>1. SendFrom(hpos + hlen, hnum + 1)
      BY <2>10
    <3> QED BY <1>2, <2>1, <2>3, <2>10, <3>1, SendFromKeepsInv
  <2>11. CASE host \in {"hdr", "data", "eot"} /\ Requested
    <3>1. SendAgain /\ hcheck' = hcheck
      BY <2>3, <2>11
    <3> QED BY <1>2, <1>4, <2>1, <2>11, <3>1, SendAgainKeepsInv
  <2>12. CASE host \in {"off", "done"} \/ (host \in {"idle", "start"} /\ ~Requested)
    <3>1. UNCHANGED <<host, hpos, hlen, hnum, toBoard>>
      BY <2>12
    <3>2. hcheck' = hcheck
      BY <2>12
    <3> QED BY <1>2, <1>4, <2>1, <2>12, <3>1, <3>2, NoMessageKeepsInv
  <2>13. host \in {"off", "idle", "hdr", "start", "data", "eot", "done"}
    BY <2>2 DEF XyzInv, HostTypeOK
  <2> QED BY <2>1, <2>7, <2>8, <2>9, <2>10, <2>11, <2>12, <2>13
<1> QED BY <1>3, <1>4

LEMMA HostEndsKeepsInv ==
    ASSUME XyzInv, HostEnds
    PROVE  XyzInv'
<1> USE DEF HostEnds
<1>1. XyzTypeOK'
  <2>1. 0 \in 0..MaxFaults
    BY LoadAssumption
  <2> QED BY <2>1, BoardKept
<1>3. StoredInOrder'
  <2>1. UNCHANGED <<size, mem>> /\ flen' = 0 /\ tells' = 0
    BY DEF recvVars, load
  <2> SUFFICES ASSUME NEW a \in 0..(size - 1)
               PROVE  Behind(a)' <= mem'[a] /\ OnlyCtrlZ(Behind(a), mem[a])'
    BY <2>1 DEF StoredInOrder, Known
  <2>2. Behind(a)' = Behind(a) /\ Behind(a) <= mem[a]
    BY <2>1 DEF Behind, XyzInv, StoredInOrder
  <2>3. Behind(a) \in Nat /\ mem[a] \in Nat
    <3>1. size \in Nat /\ mem \in [0..(size - 1) -> Nat]
      BY Numbers DEF XyzInv, XyzTypeOK
    <3>2. a > 0 => a - 1 \in 0..(size - 1)
      BY <3>1
    <3> QED BY <3>1, <3>2 DEF Behind
  <2> QED BY <2>1, <2>2, <2>3 DEF OnlyCtrlZ, IsCtrlZ
<1>2. HostTypeOK' /\ CompleteAtEof'
  <2>1. 0 \in 0..Stx
    BY XyzAssumption
  <2> QED BY <2>1 DEF HostTypeOK, CompleteAtEof
<1> QED BY <1>1, <1>2, <1>3, PromptKeepsInv DEF recvVars

\* The sender goes away, with a cancellation behind what is on the line or not.
LEMMA HostCancelsKeepsInv ==
    ASSUME XyzInv, HostCancels
    PROVE  XyzInv'
<1> USE DEF HostCancels, Send, recvVars, xyz, load
<1>1. XyzTypeOK' /\ StoredInOrder' /\ Reached' = Reached
  BY BoardKept DEF XyzInv, XyzTypeOK
<1>2. HostTypeOK' /\ CompleteAtEof'
  BY WholeKept DEF XyzInv, HostTypeOK, CompleteAtEof
<1>3. toBoard' = toBoard \/ toBoard' = Append(toBoard, Can)
  BY DEF Can
<1>4. CASE ~Active
  <2>1. pc' = "final" => Whole' /\ host' # "off"
    BY WholeKept DEF XyzInv, CopyIsNew
  <2>2. at_eof' = "yes" => pc' = "prompt"
    BY DEF XyzInv, CopyIsNew
  <2> QED BY <1>1, <1>2, <1>4, <2>1, <2>2, PromptKeepsInv DEF Active
<1>5. CASE Active
  <2>1. Taken' = Taken /\ Wanted' = Wanted /\ Acked' = Acked
    BY <1>1, PlaceKept DEF Acked
  <2>2. HostInStep' /\ OpenInStep'
    BY <1>5, <2>1 DEF XyzInv, HostInStep, OpenInStep, Active
  <2>3. CopyIsNew'
    BY CopyIsNewKept DEF XyzInv
  <2>4. CASE toBoard = <<>>
    <3>1. Quiet' /\ ~Arrives("eot")' /\ ~Arrives("block")'
      <4>1. toBoard' = <<>> \/ toBoard' = <<Can>>
        BY <1>3, <2>4, ShortLines
      <4> QED BY <4>1, QuietNext DEF Quiet
    <3>2. OneMessage'
      BY <1>5, <3>1, AnswerShape DEF XyzInv, OneMessage
    <3>3. ReadInStep'
      BY <2>1, <3>1 DEF XyzInv, ReadInStep
    <3>4. RetriesPaid'
      BY <3>1 DEF RetriesPaid
    <3> QED BY <1>1, <1>2, <2>2, <2>3, <3>2, <3>3, <3>4 DEF XyzInv
  <2>5. CASE toBoard # <<>>
    <3> DEFINE h == Head(toBoard)
    <3>1. /\ toBoard = <<h>> /\ UnderWay(h) /\ tx_ack = "no" /\ toHost = <<>>
      BY <1>5, <2>5, LineShape DEF XyzInv, Quiet
    <3>2. /\ toBoard' = <<h>> \/ toBoard' = <<h, Can>>
          /\ Head(toBoard') = h /\ toBoard' # <<>>
      <4> HIDE DEF h
      <4>1. Append(<<h>>, Can) = <<h, Can>> /\ Head(<<h>>) = h /\ Head(<<h, Can>>) = h
            /\ <<h>> # <<>> /\ <<h, Can>> # <<>>
        BY ONLY ShortLines
      <4> QED BY <1>3, <3>1, <4>1
    <3>3. UnderWay(Head(toBoard))'
      <4>1. UnderWay(h)' = UnderWay(h)
        BY <3>2 DEF UnderWay, Current, IsCtrlZ
      <4> QED BY <3>1, <3>2, <4>1
    <3>4. OneMessage'
      <4> HIDE DEF h
      <4> QED BY <3>1, <3>2, <3>3 DEF OneMessage
    <3>5. Arrives("eot")' = Arrives("eot") /\ Arrives("block")' = Arrives("block")
      BY <2>5, <3>2 DEF Arrives
    <3>6. ReadInStep'
      BY <2>1, <3>5 DEF XyzInv, ReadInStep
    <3>7. RetriesPaid'
      BY <2>1, <3>5 DEF XyzInv, RetriesPaid, Charge
    <3> QED BY <1>1, <1>2, <2>2, <2>3, <3>4, <3>6, <3>7 DEF XyzInv
  <2> QED BY <2>4, <2>5
<1> QED BY <1>4, <1>5

\* A lost or damaged message: the fault pays for the two retries it may cost.
LEMMA LineFaultKeepsInv ==
    ASSUME XyzInv, LineFault
    PROVE  XyzInv'
<1> USE DEF LineFault, recvVars, xyz, load, hostVars
<1>1. faults \in Nat /\ MaxFaults \in Nat /\ faults' = faults + 1 /\ faults' \in 0..MaxFaults
  <2>1. faults \in Nat /\ MaxFaults \in Nat
    BY Numbers, LoadAssumption
  <2>2. faults < MaxFaults /\ faults' = faults + 1
    OBVIOUS
  <2> QED BY ONLY <2>1, <2>2
<1>2. XyzTypeOK' /\ StoredInOrder' /\ Reached' = Reached
  BY <1>1, BoardKept
<1>3. HostTypeOK' /\ CompleteAtEof'
  BY HostKept, EofKept DEF XyzInv
<1>4. CASE ~Active
  <2>1. pc' = "final" => Whole' /\ host' # "off"
    BY WholeKept DEF XyzInv, CopyIsNew
  <2>2. at_eof' = "yes" => pc' = "prompt"
    BY DEF XyzInv, CopyIsNew
  <2>3. host' = "off" => toBoard' = <<>> /\ (pc' # "prompt" => size' = 0)
    BY DEF XyzInv, OneMessage, HostInStep
  <2> QED BY <1>2, <1>3, <1>4, <2>1, <2>2, <2>3, PromptKeepsInv DEF Active
<1>5. CASE Active
  <2>1. /\ Taken' = Taken /\ Wanted' = Wanted
    BY <1>2, PlaceKept
  <2>2. CopyIsNew'
    BY CopyIsNewKept DEF XyzInv
  <2>3. OneMessage' /\ ~Arrives("eot")' /\ ~Arrives("block")' /\ (Acked' => Acked)
    <3>1. CASE toHost # <<>> /\ toHost' = Tail(toHost) /\ UNCHANGED toBoard
      <4>1. Quiet' /\ toHost' = <<>>
        BY <1>5, <3>1, AnswerArrives DEF Quiet
      <4> QED BY <4>1, AnswerShape, QuietNext DEF Acked
    <3>2. CASE toBoard # <<>> /\ toBoard' = Tail(toBoard) /\ UNCHANGED toHost
      <4>1. Quiet'
        <5>1. CASE Quiet
          <6>1. Tail(<<Can>>) = <<>>
            BY ShortLines
          <6>2. toBoard' = <<>>
            BY <3>2, <5>1, <6>1 DEF Quiet
          <6> QED BY <6>2 DEF Quiet
        <5>2. CASE ~Quiet
          <6>1. Tail(toBoard) = <<>> \/ (Tail(toBoard) = <<Can>> /\ host = "done")
            BY <1>5, <5>2, LineShape DEF XyzInv
          <6> QED BY <3>2, <6>1 DEF Quiet
        <5> QED BY <5>1, <5>2
      <4> QED BY <1>5, <3>2, <4>1, AnswerShape, QuietNext DEF Acked, XyzInv, OneMessage
    <3>3. ASSUME NEW type \in {"cut", "frame", "cksum"}, Arrives("block"), UNCHANGED toHost,
                 toBoard' = <<Plain(type)>> \o Tail(toBoard)
          PROVE  OneMessage' /\ ~Arrives("eot")' /\ ~Arrives("block")' /\ (Acked' => Acked)
      <4> DEFINE d == Plain(type)
      <4>1. ~Quiet
        BY <3>3, QuietLine
      <4>2. /\ tx_ack = "no" /\ toHost = <<>> /\ host \in {"hdr", "data", "eot", "done"}
            /\ Tail(toBoard) = <<>> \/ (Tail(toBoard) = <<Can>> /\ host = "done")
        BY <1>5, <4>1, LineShape DEF XyzInv
      <4>3. d.type = type
        BY DEF Plain
      <4>4. toBoard' = <<d>> \o Tail(toBoard)
        BY <3>3
      <4> HIDE DEF d
      <4>5. /\ <<d>> \o <<>> = <<d>> /\ <<d>> \o <<Can>> = <<d, Can>>
            /\ Head(<<d>>) = d /\ Head(<<d, Can>>) = d
        BY ShortLines
      <4>6. /\ toBoard' = <<d>> \/ (toBoard' = <<d, Can>> /\ host = "done")
            /\ Head(toBoard') = d
        BY <4>2, <4>4, <4>5
      <4>7. UnderWay(Head(toBoard))'
        BY <4>3, <4>6 DEF UnderWay
      <4>8. OneMessage'
        BY <3>3, <4>2, <4>6, <4>7 DEF OneMessage
      <4> QED BY <3>3, <4>3, <4>6, <4>8 DEF Arrives, Acked
    <3> QED BY <3>1, <3>2, <3>3
  <2>4. HostInStep' /\ OpenInStep'
    BY <1>5, <2>3 DEF XyzInv, HostInStep, OpenInStep, Active
  <2>5. ReadInStep'
    BY <2>1, <2>3 DEF XyzInv, ReadInStep
  <2>6. RetriesPaid'
    <3> SUFFICES ASSUME pc = "read", Taken, hcheck = crc_mode, host \in {"hdr", "data"}
                 PROVE  MaxRetries - retries + Charge' <= 2 * (faults + 1)
      BY <1>1, <2>1, <2>3 DEF RetriesPaid
    <3>1. MaxRetries - retries + Charge <= 2 * faults
      BY DEF XyzInv, RetriesPaid
    <3>2. Charge \in 0..2 /\ Charge' \in 0..2
      BY DEF Charge
    <3>3. retries \in Nat /\ MaxRetries \in Nat
      BY Numbers
    <3> DEFINE c == Charge
               e == Charge'
    <3>4. c \in 0..2 /\ e \in 0..2 /\ MaxRetries - retries + c <= 2 * faults
      BY <3>1, <3>2
    <3> HIDE DEF c, e
    <3>5. MaxRetries - retries + e <= 2 * (faults + 1)
      BY ONLY <1>1, <3>3, <3>4
    <3> QED BY <3>5 DEF e
  <2> QED BY <1>2, <1>3, <2>2, <2>3, <2>4, <2>5, <2>6 DEF XyzInv
<1> QED BY <1>4, <1>5

-----------------------------------------------------------------------------
(***************************************************************************)
(* The theorems.                                                           *)
(***************************************************************************)

\* The invariant is inductive.
LEMMA XyzInvStep == FewFaults /\ XyzInv /\ [Next]_vars => XyzInv'
<1> SUFFICES ASSUME FewFaults, XyzInv, [Next]_vars PROVE XyzInv'
    OBVIOUS
<1>1. CASE LoadCommand \/ Reset
  BY <1>1, LoadCommandKeepsInv, ResetKeepsInv
<1>2. CASE Board
  <2>1. CASE SendAck \/ OpenHeader \/ OpenRetry \/ OpenFails
    BY <1>2, <2>1, SendAckKeepsInv, OpenHeaderKeepsInv, OpenRetryKeepsInv,
       OpenFailsKeepsInv DEF Board
  <2>2. CASE NextBlock \/ RepeatedBlock \/ ReadRetry \/ ReadFails
    BY <1>2, <2>2, NextBlockKeepsInv, RepeatedBlockKeepsInv, ReadRetryKeepsInv,
       ReadFailsKeepsInv DEF Board
  <2>3. CASE Copy \/ EndOfFile \/ FinalHeader
    BY <1>2, <2>3, CopyKeepsInv, EndOfFileKeepsInv, FinalHeaderKeepsInv DEF Board
  <2> QED BY <1>2, <2>1, <2>2, <2>3 DEF Board, Loader
<1>3. CASE HostStarts \/ HostAnswers \/ HostCancels \/ HostEnds
  BY <1>3, HostStartsKeepsInv, HostAnswersKeepsInv, HostCancelsKeepsInv,
     HostEndsKeepsInv
<1>4. CASE LineFault
  BY <1>4, LineFaultKeepsInv
<1>5. CASE UNCHANGED vars
  <2>1. UNCHANGED <<recvVars, line, hostVars, faults>>
    BY <1>5 DEF vars
  <2> USE <2>1 DEF XyzInv, recvVars, xyz, load, line, hostVars
  <2>2. XyzTypeOK' /\ HostTypeOK'
    BY DEF XyzTypeOK, HostTypeOK
  <2>3. Taken' = Taken /\ Wanted' = Wanted /\ Acked' = Acked
    BY ReachedKept, PlaceKept DEF Acked
  <2>4. OneMessage'
    <3>1. UnderWay(Head(toBoard))' = UnderWay(Head(toBoard))
      BY DEF UnderWay, Current, IsCtrlZ
    <3> QED BY <3>1 DEF OneMessage, Active, Quiet
  <2>5. HostInStep' /\ OpenInStep' /\ ReadInStep' /\ CopyIsNew'
    BY <2>3, CopyIsNewKept DEF HostInStep, OpenInStep, ReadInStep, Active, Arrives
  <2>6. RetriesPaid'
    BY <2>3 DEF RetriesPaid, Charge, Arrives
  <2>7. StoredInOrder' /\ CompleteAtEof'
    BY StoreKept, EofKept
  <2> QED BY <2>2, <2>4, <2>5, <2>6, <2>7
<1> QED BY <1>1, <1>2, <1>3, <1>4, <1>5 DEF Next

LEMMA XyzInvStart == Init => XyzInv
<1> SUFFICES ASSUME Init PROVE XyzInv
    OBVIOUS
<1> USE DEF Init, RecvInit
<1>1. XyzTypeOK
  <2>1. /\ 0 \in -1..Stx /\ 0 \in 0..(BlkMod - 1) /\ Stx \in 1..Stx
        /\ 0 \in 0..MaxRetries /\ 0 \in 0..MaxCrcRetries /\ 0 \in 0..MaxFaults
    BY XyzAssumption, LoadAssumption
  <2>2. mem \in [0..(size - 1) -> Nat]
    BY DEF NoBytes
  <2> QED BY <2>1, <2>2 DEF XyzTypeOK
<1>2. HostTypeOK
  BY XyzAssumption DEF HostTypeOK
<1>3. StoredInOrder /\ CompleteAtEof
  BY XyzAssumption DEF StoredInOrder, CompleteAtEof
<1> QED BY <1>1, <1>2, <1>3 DEF XyzInv, OneMessage, Active, HostInStep, OpenInStep,
           ReadInStep, CopyIsNew, RetriesPaid

LEMMA XyzInvHolds == FewFaults => (Spec => []XyzInv)
<1>1. FewFaults /\ XyzInv /\ [Next]_vars => XyzInv'
  BY XyzInvStep
<1> SUFFICES ASSUME FewFaults PROVE Spec => []XyzInv
    OBVIOUS
<1>2. XyzInv /\ [Next]_vars => XyzInv'
  BY <1>1
<1> QED BY <1>2, XyzInvStart, PTL DEF Spec

\* The variables of loader and sender keep their types, on a line whose faults
\* cannot use up the retries of a block.
THEOREM TransferTypes == ASSUME FewFaults PROVE Spec => []XyzTypeOK
<1>1. XyzInv => XyzTypeOK
  BY DEF XyzInv
<1> QED BY <1>1, XyzInvHolds, PTL

\* xyzModem_stream_read hands on the file in order, without a gap and without a
\* repetition: block numbers that wrap around tell a new block from a repeated one.
THEOREM TransferInOrder == ASSUME FewFaults PROVE Spec => []StoredInOrder
<1>1. XyzInv => StoredInOrder
  BY DEF XyzInv
<1> QED BY <1>1, XyzInvHolds, PTL

\* When the end of file is accepted the load command has the whole file, with the
\* padding cut off as far as it can be told from the file.
THEOREM TransferComplete == ASSUME FewFaults PROVE Spec => []CompleteAtEof
<1>1. XyzInv => CompleteAtEof
  BY DEF XyzInv
<1> QED BY <1>1, XyzInvHolds, PTL

\* What the sender has left behind is in memory or in the buffer: no ACK of
\* get_hdr is for a block that was not taken.
THEOREM TransferKept == ASSUME FewFaults PROVE Spec => []AckedIsKept
<1>1. XyzInv => AckedIsKept
  <2> SUFFICES ASSUME XyzInv, pc \in {"read", "copy"}, host \in {"data", "eot"}
               PROVE  OnlyCtrlZ(Reached, hpos) /\ (Known => Least(hpos, flen) <= Reached)
    BY DEF AckedIsKept
  <2>1. hpos \in Nat /\ hlen \in Nat /\ flen \in Nat
    BY Numbers
  <2>2. PICK p \in {hpos, hpos + hlen} : Fits(Reached, p)
    BY DEF XyzInv, ReadInStep, Taken, Wanted
  <2>3. p \in Nat /\ hpos <= p
    BY <2>1
  <2>4. Reached \in Int
    BY Numbers, StoredNat DEF XyzInv, XyzTypeOK, Reached
  <2>5. OnlyCtrlZ(Reached, hpos)
    <3>1. \A o \in Reached..(hpos - 1) : o \in Reached..(p - 1)
      BY ONLY <2>1, <2>3, <2>4
    <3> QED BY <2>2, <3>1 DEF Fits, OnlyCtrlZ
  <2>6. Known => Least(hpos, flen) <= Reached
    BY <2>1, <2>2, <2>3 DEF Fits, Least
  <2> QED BY <2>5, <2>6
<1> QED BY <1>1, XyzInvHolds, PTL

\* memcpy in stream_read gets the bytes behind those it has stored: a block that
\* comes again is acknowledged and dropped.
THEOREM TransferCopiesNew == ASSUME FewFaults PROVE Spec => []CopiesNewData
<1>1. XyzInv => CopiesNewData
  BY DEF XyzInv, CopyIsNew, CopiesNewData
<1> QED BY <1>1, XyzInvHolds, PTL

=============================================================================
