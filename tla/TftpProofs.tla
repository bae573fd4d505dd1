----------------------------- MODULE TftpProofs -----------------------------
(***************************************************************************)
(* Proofs about the TFTP download, for every file, block size, number of   *)
(* ports and sessions, on a wire that loses, delays and repeats packets.   *)
(***************************************************************************)
EXTENDS TftpInv, TLAPS

-----------------------------------------------------------------------------
(***************************************************************************)
(* The control part, for files of any length.                              *)
(***************************************************************************)

\* Every step of NetLoop and of the wire keeps handlers, timer and device
\* consistent.
LEMMA LoopInvStep == LoopInv /\ [Next]_vars => LoopInv'
<1> SUFFICES ASSUME LoopInv, [Next]_vars PROVE LoopInv'
    OBVIOUS
<1> USE DEF LoopInv, AlwaysATimer, HaltedOnReturn, loopVars, envVars, arpVars,
            tftpVars
<1>1. CASE NetPass /\ UNCHANGED <<tftpVars, mem, sess>>
  <2>1. CASE RxNothing \/ RxArpReply \/ RxWhileWaiting \/ ArpAnswer
    BY <1>1, <2>1 DEF RxNothing, RxArpReply, RxWhileWaiting, ArpAnswer
  <2>2. CASE CtrlC \/ ArpQuiet \/ TimerQuiet \/ SwitchContinue
    BY <1>1, <2>2 DEF CtrlC, ArpQuiet, TimerQuiet, SwitchContinue
  <2>3. CASE ArpTimeout
    BY <1>1, <2>3 DEF ArpTimeout, NetStartAgain
  <2>4. CASE StartAgainTimeout \/ SwitchSuccess \/ SwitchFail
    BY <1>1, <2>4 DEF StartAgainTimeout, SwitchSuccess, SwitchFail
  <2> QED BY <1>1, <2>1, <2>2, <2>3, <2>4 DEF NetPass
<1>2. CASE NetLoopCall \/ NetLoopCallFails \/ SwitchRestart
  BY <1>2, TftpAssumption
     DEF NetLoopCall, NetLoopCallFails, SwitchRestart, Restart, TftpStart
<1>3. CASE TftpTimeout
  BY <1>3, TftpAssumption DEF TftpTimeout, NetStartAgain
<1>4. CASE \E m \in toClient : TftpHandler(m)
  <2> PICK m \in toClient : TftpHandler(m)
    BY <1>4
  <2>1. CASE RxUnaccepted(m) \/ RxOack(m)
    BY <2>1 DEF RxUnaccepted, RxOack, Receive
  <2>2. CASE RxError(m)
    BY <2>2 DEF RxError, NetStartAgain, Receive
  <2>3. CASE RxFirstNotOne(m)
    BY <2>3 DEF RxFirstNotOne, NetStartAgain, DataHeader, Receive
  <2>4. CASE RxSameBlock(m) \/ RxBlock(m)
    BY <2>4 DEF RxSameBlock, RxBlock, DataHeader, Receive
  <2> QED BY <2>1, <2>2, <2>3, <2>4 DEF TftpHandler
<1>5. CASE ServerStep \/ \E p \in Ports : Expire(p)
  <2>1. UNCHANGED serverVars
    BY <1>5 DEF ServerStep, ServerOpen, ServerAck, ServerAbort, Expire
  <2> QED BY <2>1 DEF serverVars
<1>6. CASE UNCHANGED vars
  BY <1>6 DEF vars, netVars
<1> QED BY <1>1, <1>2, <1>3, <1>4, <1>5, <1>6 DEF Next, ClientStep

\* The loop never goes on waiting with no timeout armed, and NetLoop returns
\* with the device halted on every path.
THEOREM LoopSafety == Spec => [](AlwaysATimer /\ HaltedOnReturn)
<1>1. Init => LoopInv
  BY TftpAssumption DEF Init, LoopInv, AlwaysATimer, HaltedOnReturn
<1>2. LoopInv => AlwaysATimer /\ HaltedOnReturn
  BY DEF LoopInv
<1> QED BY <1>1, <1>2, LoopInvStep, PTL DEF Spec

\* NetLoop returns to the command only after eth_halt, on every way out: a load
\* that is complete, one that has failed, and the abort from the console.
THEOREM ReturnsHalted == Spec => []HaltedOnReturn
BY LoopSafety, PTL

-----------------------------------------------------------------------------
(***************************************************************************)
(* Blocks and the RAM they are stored in.                                  *)
(***************************************************************************)

\* Multiplication by a block size is monotonic.
LEMMA ProductMono ==
    ASSUME NEW a \in Int, NEW b \in Int, NEW z \in Nat, a <= b
    PROVE  a * z <= b * z /\ a * z \in Int /\ b * z \in Int
<1>1. (b - a) * z >= 0
  BY SMT
<1>2. (b - a) * z = b * z - a * z
  BY SMT
<1> QED BY <1>1, <1>2, SMT

\* Every file has at least one block, the empty one included.
LEMMA BlockCountNat ==
    ASSUME NEW z \in Nat \ {0}
    PROVE  BlockCount(z) \in Nat \ {0}
BY TftpAssumption, SMT DEF BlockCount

\* Block i of the file lies inside it, and a short block is the last one.
LEMMA BlockFacts ==
    ASSUME NEW z \in Nat \ {0}, NEW i \in Nat \ {0}, i <= BlockCount(z)
    PROVE  /\ BlockCount(z) \in Nat \ {0}
           /\ (i - 1) * z \in Nat
           /\ BlockLen(z, i) \in 0..z
           /\ (i - 1) * z + BlockLen(z, i) <= FileLen
           /\ BlockLen(z, i) < z => (i - 1) * z + BlockLen(z, i) = FileLen
           /\ BlockLen(z, i) = z => i * z = (i - 1) * z + BlockLen(z, i)
           /\ BlockLen(z, i) < z => FileLen <= i * z
<1> DEFINE q == FileLen \div z
<1>1. /\ FileLen \in Nat
      /\ q \in Nat
      /\ q * z <= FileLen
      /\ FileLen < q * z + z
  BY TftpAssumption, SMT
<1>2. BlockCount(z) = q + 1
  BY DEF BlockCount
<1> HIDE DEF q
<1>3. (i - 1) * z <= q * z /\ (i - 1) * z \in Int /\ q * z \in Int
  BY <1>1, <1>2, ProductMono
<1>4. (i - 1) * z >= 0
  BY SMT
<1>5. i * z = (i - 1) * z + z
  BY SMT
<1>6. CASE i < BlockCount(z)
  <2>1. BlockLen(z, i) = z
    BY <1>6 DEF BlockLen
  <2>2. i * z <= q * z
    BY <1>6, <1>1, <1>2, ProductMono
  <2> QED BY <2>1, <2>2, <1>1, <1>2, <1>3, <1>4, <1>5
<1>7. CASE i = BlockCount(z)
  <2>1. BlockLen(z, i) = FileLen - (i - 1) * z
    BY <1>7 DEF BlockLen
  <2>2. i - 1 = q
    BY <1>7, <1>1, <1>2
  <2>3. (i - 1) * z = q * z
    BY <2>2
  <2> QED BY <2>1, <2>3, <1>1, <1>2, <1>3, <1>4, <1>5
<1> QED BY <1>1, <1>2, <1>6, <1>7

\* A right beginning of RAM has only right beginnings;
LEMMA RightMono ==
    ASSUME NEW a \in Int, NEW b \in Int, a <= b, Right(b)
    PROVE  Right(a)
BY TftpAssumption DEF Right

\* past the end of the file there is nothing to be wrong;
LEMMA RightAll ==
    ASSUME NEW a \in Int, Right(FileLen)
    PROVE  Right(a)
BY TftpAssumption DEF Right

\* an empty beginning is right;
LEMMA RightNone ==
    ASSUME NEW a \in Int, a <= 0
    PROVE  Right(a)
BY TftpAssumption DEF Right

\* and what a step does not overwrite stays right.
LEMMA RightKept ==
    ASSUME NEW a \in Int, Right(a), UNCHANGED mem
    PROVE  Right(a)'
BY DEF Right

\* Block sizes are positive.
LEMMA BlkSizeFacts == BlkSizes \subseteq Nat \ {0} /\ TFTP_BLOCK_SIZE \in BlkSizes
BY TftpAssumption DEF BlkSizes

-----------------------------------------------------------------------------
(***************************************************************************)
(* Types, for files of any length.                                         *)
(***************************************************************************)

\* What NetSendUDPPacket does with packet p.
LEMMA SendFacts ==
    ASSUME NetTypeOK, NEW p \in UpPackets, NEW e, NEW up,
           NetSendUDPPacket(e, up, arpWire, p)
    PROVE  /\ toServer' \subseteq toServer \cup {p}
           /\ up # "up" => toServer' = toServer
           /\ NetArpWaitTxPacket' \in {NetArpWaitTxPacket, p}
           /\ toServer' \subseteq UpPackets
           /\ NetArpWaitTxPacket' \in UpPackets \cup {NoPacket}
           /\ NetArpWaitTry' \in 0..ARP_TIMEOUT_COUNT
           /\ arpWire' \subseteq {"request", "reply"}
<1>1. CASE e # "null"
  BY <1>1 DEF NetSendUDPPacket, EthSend, NetTypeOK
<1>2. CASE e = "null"
  <2>1. NetArpWaitTry' \in 0..ARP_TIMEOUT_COUNT
    BY <1>2, NetAssumption DEF NetSendUDPPacket
  <2> QED BY <1>2, <2>1 DEF NetSendUDPPacket, EthSend, NetTypeOK
<1> QED BY <1>1, <1>2

\* NetStartAgain disables the client or leaves it as it is.
LEMMA StartAgainFacts ==
    ASSUME NetTypeOK, NEW t \in {"none", "tftp", "startAgain"}, NetStartAgain(t)
    PROVE  /\ NetState' \in {"CONTINUE", "RESTART", "SUCCESS", "FAIL"}
           /\ packetHandler' \in {"none", "tftp", "startAgain"}
           /\ timeHandler' \in {"none", "tftp", "startAgain"}
           /\ eth' \in {"up", "down"}
           /\ ~Active'
           /\ eth' = "up" => eth = "up"
           /\ NetState' = "SUCCESS" => NetState = "SUCCESS"
<1>1. CASE netretry = "no"
  BY <1>1 DEF NetStartAgain, NetTypeOK, Active
<1>2. CASE netretry # "no"
  BY <1>2 DEF NetStartAgain, NetTypeOK, Active
<1> QED BY <1>1, <1>2

\* What every server sends has the type of a packet.
LEMMA DownTypes ==
    ASSUME NEW p \in Ports, NEW s \in Sessions
    PROVE  /\ \A z \in OackBlkSizes : Oack(p, s, z) \in DownPackets
           /\ \A z \in Nat, i \in Nat \ {0} : Data(p, s, z, i) \in DownPackets
           /\ Error(p, s) \in DownPackets
<1>1. ASSUME NEW z \in Nat, NEW i \in Nat \ {0}
      PROVE  Data(p, s, z, i) \in DownPackets
  <2>1. i % TFTP_SEQUENCE_SIZE \in Numbers
    BY TftpAssumption, SMT DEF Numbers
  <2>2. (i - 1) * z \in Int
    BY SMT
  <2>3. BlockLen(z, i) \in Int
    BY <2>2, TftpAssumption DEF BlockLen
  <2> QED BY <2>1, <2>2, <2>3 DEF Data, DownPackets
<1> QED BY <1>1 DEF Oack, Error, DownPackets

\* The passes of NetLoop keep the types.
LEMMA TypePass ==
    ASSUME TypeInv, NetPass, UNCHANGED <<tftpVars, mem, sess>>
    PROVE  TypeOK' /\ toClient' \subseteq toClient
<1> USE DEF loopVars, arpVars, envVars, tftpVars, Taken
<1>0. TftpTypeOK'
  BY DEF TypeInv, TypeOK, TftpTypeOK
<1> USE DEF TypeInv, TypeOK, NetTypeOK
<1>1. CASE RxNothing \/ ArpQuiet \/ TimerQuiet \/ SwitchContinue
  BY <1>0, <1>1 DEF RxNothing, ArpQuiet, TimerQuiet, SwitchContinue
<1>2. CASE RxWhileWaiting
  BY <1>0, <1>2 DEF RxWhileWaiting
<1>3. CASE CtrlC
  BY <1>0, <1>3 DEF CtrlC
<1>4. CASE ArpTimeout
  <2>1. NetArpWaitTry' \in 0..ARP_TIMEOUT_COUNT
    BY <1>4, NetAssumption DEF ArpTimeout
  <2>2. arpWire' \subseteq {"request", "reply"}
    BY <1>4 DEF ArpTimeout, EthSend
  <2>3. /\ NetState' \in {"CONTINUE", "RESTART", "SUCCESS", "FAIL"}
        /\ packetHandler' \in {"none", "tftp", "startAgain"}
        /\ timeHandler' \in {"none", "tftp", "startAgain"}
        /\ eth' \in {"up", "down"}
    BY <1>4 DEF ArpTimeout, NetStartAgain
  <2> QED BY <1>0, <1>4, <2>1, <2>2, <2>3 DEF ArpTimeout
<1>5. CASE StartAgainTimeout
  BY <1>0, <1>5 DEF StartAgainTimeout
<1>6. CASE SwitchSuccess
  <2>1. RoundToErase(NetBootFileXferSize) \in Int
    BY NetAssumption, SMT DEF RoundToErase
  <2> QED BY <1>0, <1>6, <2>1 DEF SwitchSuccess
<1>7. CASE ArpAnswer
  BY <1>0, <1>7 DEF ArpAnswer
<1>8. CASE RxArpReply
  <2>1. toServer' \subseteq UpPackets
    BY <1>8 DEF RxArpReply, EthSend
  <2> QED BY <1>0, <1>8, <2>1 DEF RxArpReply
<1>9. CASE SwitchFail
  BY <1>0, <1>9 DEF SwitchFail
<1> QED BY <1>1, <1>2, <1>3, <1>4, <1>5, <1>6, <1>7, <1>8, <1>9 DEF NetPass

\* A new attempt keeps the types.
LEMMA TypeRestart ==
    ASSUME TypeInv, Restart, eth' = "up", netretry' \in NetRetryValues,
           UNCHANGED envVars
    PROVE  TypeOK' /\ TftpOurPort' \in Ports
<1>1. PICK p \in Ports :
          /\ TftpOurPort' = p
          /\ NetSendUDPPacket("null", "up", arpWire, Rrq(p))
  BY DEF Restart, TftpStart, TftpPacket
<1>2. Rrq(p) \in UpPackets
  BY DEF Rrq, UpPackets
<1>3. /\ NetArpWaitTxPacket' \in UpPackets \cup {NoPacket}
      /\ NetArpWaitTry' \in 0..ARP_TIMEOUT_COUNT
      /\ arpWire' \subseteq {"request", "reply"}
      /\ toServer' \subseteq UpPackets
  BY <1>1, <1>2, SendFacts DEF TypeInv, TypeOK
<1>4. NetTypeOK'
  BY <1>3 DEF TypeInv, TypeOK, NetTypeOK, Restart, TftpStart, envVars
<1>5. TftpBlock' \in Numbers /\ TftpTimeoutCount' \in 0..(TIMEOUT_COUNT + 1)
  BY TftpAssumption DEF Restart, TftpStart, Numbers
<1>6. TftpTypeOK'
  BY <1>1, <1>5, BlkSizeFacts DEF TypeInv, TypeOK, TftpTypeOK, Restart, TftpStart
<1> QED BY <1>1, <1>4, <1>6 DEF TypeOK

\* What TftpSend builds has the type of a packet.
LEMMA PacketType ==
    ASSUME NEW st, NEW p \in Ports, NEW s, st = "RRQ" \/ s \in Sessions,
           NEW b \in Numbers
    PROVE  TftpPacket(st, p, s, b) \in UpPackets
<1>1. CASE st = "RRQ"
  BY <1>1 DEF TftpPacket, Rrq, UpPackets
<1>2. CASE st # "RRQ"
  BY <1>2 DEF TftpPacket, Ack, UpPackets
<1> QED BY <1>1, <1>2

\* A retransmission keeps the types.
LEMMA TypeTimeout ==
    ASSUME TypeInv, TftpTimeout
    PROVE  TypeOK'
<1>1. TftpTimeoutCount' \in 0..(TIMEOUT_COUNT + 1)
  BY TftpAssumption DEF TftpTimeout, TypeInv, LoopInv, TypeOK, TftpTypeOK
<1>2. TftpTypeOK'
  BY <1>1 DEF TypeInv, TypeOK, TftpTypeOK, TftpTimeout
<1>3. CASE TftpTimeoutCount + 1 > TIMEOUT_COUNT
  <2>1. NetStartAgain("none") /\ UNCHANGED <<NetArpWaitTxPacket, NetArpWaitTry, arpWire, toServer>>
    BY <1>3, TftpAssumption DEF TftpTimeout, TypeInv, TypeOK, TftpTypeOK
  <2>2. NetTypeOK'
    BY <2>1, StartAgainFacts DEF TypeInv, TypeOK, NetTypeOK, TftpTimeout, envVars
  <2> QED BY <2>2, <1>2 DEF TypeOK
<1>4. CASE TftpTimeoutCount + 1 <= TIMEOUT_COUNT
  <2> DEFINE p == TftpPacket(TftpState, TftpOurPort, TftpServerPort, TftpBlock)
  <2>1. /\ NetSendUDPPacket(NetServerEther, eth, arpWire, p)
        /\ UNCHANGED <<NetState, packetHandler, eth>>
        /\ timeHandler' = "tftp"
    BY <1>4, TftpAssumption DEF TftpTimeout, TftpSend, TypeInv, TypeOK, TftpTypeOK
  <2>2. TftpState # "none" /\ TftpOurPort \in Ports
    BY DEF TftpTimeout, TypeInv, LoopInv, TypeOK, TftpTypeOK
  <2>3. TftpState = "RRQ" \/ TftpServerPort \in Sessions
    BY <2>2 DEF TypeInv, TypeOK, TftpTypeOK, Locked
  <2>4. p \in UpPackets
    BY <2>2, <2>3, PacketType DEF TypeInv, TypeOK, TftpTypeOK
  <2> HIDE DEF p
  <2>5. /\ toServer' \subseteq UpPackets
        /\ NetArpWaitTxPacket' \in UpPackets \cup {NoPacket}
        /\ NetArpWaitTry' \in 0..ARP_TIMEOUT_COUNT
        /\ arpWire' \subseteq {"request", "reply"}
    BY <2>1, <2>4, SendFacts DEF TypeInv, TypeOK
  <2>6. NetTypeOK'
    BY <2>1, <2>5 DEF TypeInv, TypeOK, NetTypeOK, TftpTimeout, envVars
  <2> QED BY <2>6, <1>2 DEF TypeOK
<1> QED BY <1>3, <1>4, TftpAssumption DEF TypeInv, TypeOK, TftpTypeOK

\* What a received packet's fields are.
LEMMA DownFields ==
    ASSUME TypeInv, NEW m \in toClient
    PROVE  /\ m.sid \in Sessions /\ m.port \in Ports
           /\ m.type = "OACK" => m.blk \in OackBlkSizes
           /\ m.type = "DATA" => /\ m.seq \in Numbers /\ m.seq \in Nat
                                 /\ m.from \in Int /\ m.len \in Int
BY TftpAssumption DEF TypeInv, DownPackets, Numbers

\* What TftpHandler leaves alone keeps its type.
LEMMA TypeReceive ==
    ASSUME TypeInv, NEW m \in toClient, Receive(m),
           NetState' \in {"CONTINUE", "RESTART", "SUCCESS", "FAIL"},
           packetHandler' \in {"none", "tftp", "startAgain"},
           timeHandler' \in {"none", "tftp", "startAgain"},
           eth' \in {"up", "down"},
           NetArpWaitTxPacket' \in UpPackets \cup {NoPacket},
           NetArpWaitTry' \in 0..ARP_TIMEOUT_COUNT,
           arpWire' \subseteq {"request", "reply"},
           toServer' \subseteq UpPackets,
           NetBootFileXferSize' \in Nat
    PROVE  NetTypeOK'
BY DEF TypeInv, TypeOK, NetTypeOK, Receive, envVars

\* The values a DATA packet gives the variables of the transfer.
LEMMA TypeData ==
    ASSUME TypeInv, NEW m \in toClient, DataHeader(m)
    PROVE  /\ m.sid \in Sessions /\ m.seq \in Numbers
           /\ TftpBlock' \in Numbers
           /\ WrapOffset(m.seq) \in Nat /\ TftpBlockWrapOffset' \in Nat
           /\ UNCHANGED <<sess, TftpOurPort, TftpTimeoutCount, TftpBlkSize>>
           /\ StoreOffset(m.seq) \in Int
           /\ m.from \in Int /\ m.len \in Int
           /\ TftpOurPort \in Ports
           /\ TftpState' = "DATA" /\ TftpServerPort' = m.sid
<1>1. /\ m.sid \in Sessions /\ m.port \in Ports
      /\ m.seq \in Numbers /\ m.seq \in Nat /\ m.from \in Int /\ m.len \in Int
  BY DownFields DEF DataHeader
<1>2. TftpBlkSize \in Nat /\ TftpBlockWrapOffset \in Nat
  BY BlkSizeFacts DEF TypeInv, TypeOK, TftpTypeOK
<1>3. WrapOffset(m.seq) \in Nat
  <2>1. TftpBlkSize * TFTP_SEQUENCE_SIZE \in Nat
    BY <1>2, TftpAssumption, SMT
  <2> QED BY <2>1, <1>2 DEF WrapOffset
<1>4. StoreOffset(m.seq) \in Int
  <2>1. (m.seq - 1) * TftpBlkSize \in Int
    BY <1>1, <1>2, SMT
  <2> QED BY <2>1, <1>3 DEF StoreOffset
<1>5. /\ TftpBlock' = m.seq /\ TftpBlockWrapOffset' = WrapOffset(m.seq)
      /\ UNCHANGED <<sess, TftpOurPort, TftpTimeoutCount, TftpBlkSize>>
      /\ TftpOurPort = m.port
      /\ TftpState' = "DATA" /\ TftpServerPort' = m.sid
  BY DEF DataHeader, Receive, TftpAccepts
<1> QED BY <1>1, <1>3, <1>4, <1>5

\* TftpHandler keeps the types.
LEMMA TypeHandler ==
    ASSUME TypeInv, NEW m \in toClient, TftpHandler(m)
    PROVE  /\ TypeOK' /\ toClient' \subseteq toClient
           /\ UNCHANGED TftpOurPort
           /\ \/ UNCHANGED <<TftpState, TftpServerPort>>
              \/ /\ Locked' /\ TftpServerPort' \in Sessions /\ TftpOurPort \in Ports
<1>1. Receive(m)
  BY DEF TftpHandler, RxUnaccepted, RxOack, RxError, RxFirstNotOne, RxSameBlock,
         RxBlock, DataHeader
<1>2. toClient' \subseteq toClient /\ UNCHANGED <<sess, TftpOurPort, TftpTimeoutCount>>
  BY <1>1 DEF Receive, Taken
<1>3. /\ NetState \in {"CONTINUE", "RESTART", "SUCCESS", "FAIL"}
      /\ packetHandler \in {"none", "tftp", "startAgain"}
      /\ timeHandler \in {"none", "tftp", "startAgain"}
      /\ eth \in {"up", "down"}
      /\ NetArpWaitTxPacket \in UpPackets \cup {NoPacket}
      /\ NetArpWaitTry \in 0..ARP_TIMEOUT_COUNT
      /\ arpWire \subseteq {"request", "reply"}
      /\ toServer \subseteq UpPackets
      /\ NetBootFileXferSize \in Nat
  BY DEF TypeInv, TypeOK, NetTypeOK
<1>4. CASE RxUnaccepted(m) \/ RxError(m)
  <2>1. /\ UNCHANGED <<NetArpWaitTxPacket, NetArpWaitTry, arpWire, toServer,
                       NetBootFileXferSize>>
        /\ UNCHANGED <<TftpState, TftpServerPort, TftpBlock, TftpLastBlock,
                       TftpBlockWrapOffset, TftpBlkSize, mem>>
    BY <1>4 DEF RxUnaccepted, RxError
  <2>2. /\ NetState' \in {"CONTINUE", "RESTART", "SUCCESS", "FAIL"}
        /\ packetHandler' \in {"none", "tftp", "startAgain"}
        /\ timeHandler' \in {"none", "tftp", "startAgain"}
        /\ eth' \in {"up", "down"}
    <3>1. CASE RxUnaccepted(m)
      BY <3>1, <1>3 DEF RxUnaccepted, loopVars
    <3>2. CASE RxError(m)
      BY <3>2, <1>3, StartAgainFacts DEF RxError, TypeInv, TypeOK
    <3> QED BY <3>1, <3>2, <1>4
  <2>3. NetTypeOK'
    BY <1>1, <1>3, <2>1, <2>2, TypeReceive
  <2>4. TftpTypeOK'
    BY <1>2, <2>1 DEF TypeInv, TypeOK, TftpTypeOK
  <2> QED BY <1>2, <2>1, <2>3, <2>4 DEF TypeOK
<1>5. CASE RxOack(m)
  <2>1. m.sid \in Sessions /\ m.port \in Ports /\ m.blk \in OackBlkSizes
    BY <1>5, DownFields DEF RxOack
  <2>2. /\ TftpState' = "OACK" /\ TftpServerPort' = m.sid /\ m.port = TftpOurPort
        /\ TftpBlkSize' = IF m.blk = NoOption THEN TftpBlkSize ELSE m.blk
        /\ UNCHANGED <<loopVars, NetBootFileXferSize, TftpBlock, TftpLastBlock,
                       TftpBlockWrapOffset, mem>>
        /\ NetSendUDPPacket(NetServerEther, eth, arpWire,
                            TftpPacket("OACK", TftpOurPort, m.sid, TftpBlock))
    BY <1>5 DEF RxOack, TftpAccepts, TftpSend
  <2>3. TftpTypeOK'
    BY <1>2, <2>1, <2>2 DEF TypeInv, TypeOK, TftpTypeOK, BlkSizes
  <2>4. TftpPacket("OACK", TftpOurPort, m.sid, TftpBlock) \in UpPackets
    BY <2>1, <2>2, PacketType DEF TypeInv, TypeOK, TftpTypeOK
  <2>5. /\ NetArpWaitTxPacket' \in UpPackets \cup {NoPacket}
        /\ NetArpWaitTry' \in 0..ARP_TIMEOUT_COUNT
        /\ arpWire' \subseteq {"request", "reply"}
        /\ toServer' \subseteq UpPackets
    BY <2>2, <2>4, SendFacts DEF TypeInv, TypeOK
  <2>6. NetTypeOK'
    BY <1>1, <1>3, <2>2, <2>5, TypeReceive DEF loopVars
  <2> QED BY <1>2, <2>1, <2>2, <2>3, <2>6 DEF TypeOK, Locked
<1>6. CASE RxFirstNotOne(m) \/ RxSameBlock(m)
  <2>1. DataHeader(m) /\ UNCHANGED <<NetArpWaitTxPacket, NetArpWaitTry, arpWire,
                                     toServer, NetBootFileXferSize, mem>>
    BY <1>6 DEF RxFirstNotOne, RxSameBlock
  <2>2. TftpLastBlock' \in Numbers
    <3>1. 0 \in Numbers
      BY TftpAssumption DEF Numbers
    <3> QED BY <3>1, <2>1, <1>6, TypeData DEF RxFirstNotOne, RxSameBlock
  <2>3. /\ NetState' \in {"CONTINUE", "RESTART", "SUCCESS", "FAIL"}
        /\ packetHandler' \in {"none", "tftp", "startAgain"}
        /\ timeHandler' \in {"none", "tftp", "startAgain"}
        /\ eth' \in {"up", "down"}
    <3>1. CASE RxFirstNotOne(m)
      BY <3>1, <1>3, StartAgainFacts DEF RxFirstNotOne, TypeInv, TypeOK
    <3>2. CASE RxSameBlock(m)
      BY <3>2, <1>3 DEF RxSameBlock, loopVars
    <3> QED BY <3>1, <3>2, <1>6
  <2>4. NetTypeOK'
    BY <1>1, <1>3, <2>1, <2>3, TypeReceive
  <2>5. TftpTypeOK'
    BY <2>1, <2>2, TypeData DEF TypeInv, TypeOK, TftpTypeOK
  <2> QED BY <1>2, <2>1, <2>4, <2>5, TypeData DEF TypeOK, Locked
<1>7. CASE RxBlock(m)
  <2>1. /\ DataHeader(m)
        /\ TftpLastBlock' = m.seq
        /\ timeHandler' = "tftp"
        /\ StoreBlock(m)
        /\ NetSendUDPPacket(NetServerEther, eth, arpWire,
                            TftpPacket("DATA", TftpOurPort, m.sid, m.seq))
        /\ NetState' = IF m.len < TftpBlkSize THEN "SUCCESS" ELSE NetState
        /\ UNCHANGED <<packetHandler, eth>>
    BY <1>7 DEF RxBlock, TftpSend
  <2>2. TftpPacket("DATA", TftpOurPort, m.sid, m.seq) \in UpPackets
    BY <2>1, TypeData, PacketType
  <2>3. /\ NetArpWaitTxPacket' \in UpPackets \cup {NoPacket}
        /\ NetArpWaitTry' \in 0..ARP_TIMEOUT_COUNT
        /\ arpWire' \subseteq {"request", "reply"}
        /\ toServer' \subseteq UpPackets
    BY <2>1, <2>2, SendFacts DEF TypeInv, TypeOK
  <2>4. StoreOffset(m.seq) \in Int /\ m.from \in Int /\ m.len \in Int
    BY <2>1, TypeData
  <2>5. NetBootFileXferSize' \in Nat
    BY <1>3, <2>1, <2>4 DEF StoreBlock
  <2>6. mem' \in [0..(FileLen - 1) -> Int]
    <3>1. mem \in [0..(FileLen - 1) -> Int]
      BY DEF TypeInv, TypeOK, TftpTypeOK
    <3> QED BY <3>1, <2>1, <2>4 DEF StoreBlock
  <2>7. NetTypeOK'
    BY <1>1, <1>3, <2>1, <2>3, <2>5, TypeReceive
  <2>8. TftpTypeOK'
    BY <2>1, <2>6, TypeData DEF TypeInv, TypeOK, TftpTypeOK
  <2> QED BY <1>2, <2>1, <2>7, <2>8, TypeData DEF TypeOK, Locked
<1> QED BY <1>4, <1>5, <1>6, <1>7 DEF TftpHandler

\* The servers and the wire keep the types.
LEMMA TypeServers ==
    ASSUME TypeInv, ServerStep \/ \E p \in Ports : Expire(p)
    PROVE  TypeOK' /\ toClient' \subseteq DownPackets /\ UNCHANGED serverVars
<1> DEFINE Types == /\ toServer' \subseteq UpPackets
                    /\ toClient' \subseteq DownPackets
                    /\ sess' \in [Sessions -> SessionRecords \cup {NoSession}]
<1>1. /\ toServer \subseteq UpPackets
      /\ toClient \subseteq DownPackets
      /\ sess \in [Sessions -> SessionRecords \cup {NoSession}]
  BY DEF TypeInv, TypeOK, NetTypeOK, TftpTypeOK
<1>2. \A m \in toServer : m.port \in Ports
  BY <1>1 DEF UpPackets
<1>3. ASSUME NEW s \in Sessions, sess[s].st # "free"
      PROVE  /\ sess[s] \in SessionRecords
             /\ sess[s].port \in Ports /\ sess[s].blk \in BlkSizes
             /\ sess[s].blk \in Nat /\ sess[s].sent \in Nat
  <2>1. sess[s] \in SessionRecords
    BY <1>1, <1>3 DEF NoSession
  <2> QED BY <2>1, BlkSizeFacts DEF SessionRecords
<1>4. ASSUME NEW s \in Sessions, NEW m \in toServer, ServerOpen(s, m)
      PROVE  Types
  <2>1. m.port \in Ports /\ toServer' \subseteq UpPackets
    BY <1>1, <1>2, <1>4 DEF ServerOpen, Taken
  <2>2. CASE \E z \in OackBlkSizes :
             /\ sess' = [sess EXCEPT ![s] =
                   [st |-> "oack", port |-> m.port, sent |-> 0,
                    blk |-> IF z = NoOption THEN TFTP_BLOCK_SIZE ELSE z]]
             /\ toClient' = toClient \cup {Oack(m.port, s, z)}
    <3> PICK z \in OackBlkSizes :
             /\ sess' = [sess EXCEPT ![s] =
                   [st |-> "oack", port |-> m.port, sent |-> 0,
                    blk |-> IF z = NoOption THEN TFTP_BLOCK_SIZE ELSE z]]
             /\ toClient' = toClient \cup {Oack(m.port, s, z)}
      BY <2>2
    <3>1. [st |-> "oack", port |-> m.port, sent |-> 0,
           blk |-> IF z = NoOption THEN TFTP_BLOCK_SIZE ELSE z] \in SessionRecords
      BY <2>1 DEF SessionRecords, BlkSizes
    <3> QED BY <2>1, <3>1, <1>1, DownTypes
  <2>3. CASE /\ sess' = [sess EXCEPT ![s] =
                   [st |-> "data", port |-> m.port, blk |-> TFTP_BLOCK_SIZE,
                    sent |-> 1]]
             /\ toClient' = toClient \cup {Data(m.port, s, TFTP_BLOCK_SIZE, 1)}
    <3>1. [st |-> "data", port |-> m.port, blk |-> TFTP_BLOCK_SIZE, sent |-> 1]
             \in SessionRecords
      BY <2>1 DEF SessionRecords, BlkSizes
    <3>2. Data(m.port, s, TFTP_BLOCK_SIZE, 1) \in DownPackets
      BY <2>1, DownTypes, TftpAssumption
    <3> QED BY <2>1, <2>3, <3>1, <3>2, <1>1
  <2>4. CASE /\ sess' = [sess EXCEPT ![s] =
                   [st |-> "dead", port |-> m.port, blk |-> TFTP_BLOCK_SIZE,
                    sent |-> 0]]
             /\ toClient' = toClient \cup {Error(m.port, s)}
    <3>1. [st |-> "dead", port |-> m.port, blk |-> TFTP_BLOCK_SIZE, sent |-> 0]
             \in SessionRecords
      BY <2>1 DEF SessionRecords, BlkSizes
    <3> QED BY <2>1, <2>4, <3>1, <1>1, DownTypes
  <2> QED BY <1>4, <2>2, <2>3, <2>4 DEF ServerOpen
<1>5. ASSUME NEW s \in Sessions, NEW m \in toServer, ServerAck(s, m)
      PROVE  Types
  <2>1. /\ m.port \in Ports /\ toServer' \subseteq UpPackets
        /\ sess[s].st # "free"
        /\ sess' = [sess EXCEPT ![s] =
              [st |-> "data", port |-> m.port, blk |-> sess[s].blk,
               sent |-> sess[s].sent + 1]]
        /\ toClient' = toClient \cup {Data(m.port, s, sess[s].blk, sess[s].sent + 1)}
    BY <1>1, <1>2, <1>5 DEF ServerAck, Taken
  <2>2. [st |-> "data", port |-> m.port, blk |-> sess[s].blk,
         sent |-> sess[s].sent + 1] \in SessionRecords
    BY <2>1, <1>3 DEF SessionRecords
  <2>3. Data(m.port, s, sess[s].blk, sess[s].sent + 1) \in DownPackets
    BY <2>1, <1>3, DownTypes
  <2> QED BY <2>1, <2>2, <2>3, <1>1
<1>6. ASSUME NEW s \in Sessions, ServerAbort(s)
      PROVE  Types
  <2>1. /\ sess[s].st # "free"
        /\ sess' = [sess EXCEPT ![s].st = "dead"]
        /\ toClient' = toClient \cup {Error(sess[s].port, s)}
        /\ UNCHANGED toServer
    BY <1>6 DEF ServerAbort
  <2>2. [sess[s] EXCEPT !.st = "dead"] \in SessionRecords
    BY <2>1, <1>3 DEF SessionRecords
  <2> QED BY <2>1, <2>2, <1>1, <1>3, DownTypes
<1>7. ASSUME NEW p \in Ports, Expire(p)
      PROVE  Types
  BY <1>1, <1>7 DEF Expire
<1>8. Types /\ UNCHANGED serverVars
  <2>1. Types
    BY <1>4, <1>5, <1>6, <1>7 DEF ServerStep
  <2>2. UNCHANGED serverVars
    BY DEF ServerStep, ServerOpen, ServerAck, ServerAbort, Expire
  <2> QED BY <2>1, <2>2
<1> QED BY <1>8 DEF TypeInv, TypeOK, NetTypeOK, TftpTypeOK, serverVars, loopVars,
                    arpVars, envVars, tftpVars

\* Every step keeps the types.
LEMMA TypeInvStep == TypeInv /\ [Next]_vars => TypeInv'
<1> SUFFICES ASSUME TypeInv, [Next]_vars
             PROVE  /\ TypeOK'
                    /\ toClient' \subseteq DownPackets
                    /\ (TftpState = "none" <=> TftpOurPort = NoPort)'
                    /\ (Locked => TftpServerPort \in Sessions)'
  BY LoopInvStep DEF TypeInv
<1>0. NoPort \notin Ports
  BY TftpAssumption DEF NoPort
<1>1. CASE NetPass /\ UNCHANGED <<tftpVars, mem, sess>>
  <2>1. UNCHANGED <<TftpState, TftpOurPort, TftpServerPort>>
    BY <1>1 DEF tftpVars
  <2> QED BY <2>1, <1>1, TypePass DEF TypeInv, Locked
<1>2. CASE NetLoopCall \/ SwitchRestart
  <2>1. /\ Restart /\ eth' = "up" /\ netretry' \in NetRetryValues
        /\ UNCHANGED envVars
    BY <1>2 DEF NetLoopCall, SwitchRestart, TypeInv, LoopInv, TypeOK, NetTypeOK
  <2>2. TftpState' = "RRQ" /\ UNCHANGED toClient
    BY <2>1 DEF Restart, TftpStart
  <2> QED BY <2>1, <2>2, <1>0, TypeRestart DEF TypeInv, Locked
<1>3. CASE NetLoopCallFails
  <2>1. NetTypeOK'
    BY <1>3 DEF TypeInv, TypeOK, NetTypeOK, NetLoopCallFails
  <2>2. TftpTypeOK'
    BY <1>3 DEF TypeInv, TypeOK, TftpTypeOK, NetLoopCallFails, tftpVars
  <2>3. UNCHANGED <<TftpState, TftpOurPort, TftpServerPort, toClient>>
    BY <1>3 DEF NetLoopCallFails, tftpVars
  <2> QED BY <2>1, <2>2, <2>3 DEF TypeInv, TypeOK, Locked
<1>4. CASE TftpTimeout
  <2>1. UNCHANGED <<TftpState, TftpOurPort, TftpServerPort, toClient>>
    BY <1>4 DEF TftpTimeout
  <2> QED BY <2>1, <1>4, TypeTimeout DEF TypeInv, Locked
<1>5. CASE \E m \in toClient : TftpHandler(m)
  <2>1. /\ TypeOK' /\ toClient' \subseteq toClient
        /\ UNCHANGED TftpOurPort
        /\ \/ UNCHANGED <<TftpState, TftpServerPort>>
           \/ Locked' /\ TftpServerPort' \in Sessions /\ TftpOurPort \in Ports
    BY <1>5, TypeHandler
  <2> QED BY <2>1, <1>0 DEF TypeInv, Locked
<1>6. CASE ServerStep \/ \E p \in Ports : Expire(p)
  <2>1. UNCHANGED <<TftpState, TftpOurPort, TftpServerPort>>
    BY <1>6, TypeServers DEF serverVars, tftpVars
  <2> QED BY <2>1, <1>6, TypeServers DEF TypeInv, Locked
<1>7. CASE UNCHANGED vars
  <2>1. UNCHANGED <<serverVars, toServer, toClient, sess>>
    BY <1>7 DEF vars, netVars, serverVars
  <2>2. NetTypeOK' /\ TftpTypeOK'
    BY <2>1 DEF TypeInv, TypeOK, NetTypeOK, TftpTypeOK, serverVars, loopVars,
                arpVars, envVars, tftpVars
  <2> QED BY <2>1, <2>2 DEF TypeInv, TypeOK, Locked, serverVars, tftpVars
<1> QED BY <1>1, <1>2, <1>3, <1>4, <1>5, <1>6, <1>7 DEF Next, ClientStep

\* The types hold when U-Boot starts.
LEMMA TypeInvInit == Init => TypeInv
<1> SUFFICES ASSUME Init PROVE TypeInv
  OBVIOUS
<1>1. NetTypeOK
  BY NetAssumption DEF Init, NetTypeOK, Unset
<1>2. TftpTypeOK
  BY TftpAssumption, BlkSizeFacts DEF Init, TftpTypeOK, Numbers, Unset
<1>3. LoopInv
  BY TftpAssumption DEF Init, LoopInv, AlwaysATimer, HaltedOnReturn
<1> QED BY <1>1, <1>2, <1>3 DEF Init, TypeInv, TypeOK, Locked

\* Types hold throughout, for files of any length.
THEOREM TypeCorrect == Spec => []TypeOK
<1>1. TypeInv => TypeOK
  BY DEF TypeInv
<1> QED BY <1>1, TypeInvInit, TypeInvStep, PTL DEF Spec

-----------------------------------------------------------------------------
(***************************************************************************)
(* What the invariant says of a DATA packet.                               *)
(***************************************************************************)

\* What the invariant says of an open session.
LEMMA OpenedFacts ==
    ASSUME IInv, NEW s \in Sessions, Opened(s)
    PROVE  /\ sess[s] \in SessionRecords
           /\ sess[s].port \in Ports
           /\ sess[s].port # NoPort
           /\ sess[s].blk \in BlkSizes
           /\ sess[s].blk \in Nat \ {0}
           /\ sess[s].sent \in Nat
           /\ sess[s].sent <= BlockCount(sess[s].blk)
<1>1. sess[s] \in SessionRecords /\ sess[s].sent <= BlockCount(sess[s].blk)
  BY DEF IInv, DataInv, SessionOK, Opened, NoSession
<1>2. /\ sess[s].port \in Ports
      /\ sess[s].blk \in BlkSizes
      /\ sess[s].sent \in Nat
  BY <1>1 DEF SessionRecords
<1> QED BY <1>1, <1>2, BlkSizeFacts, TftpAssumption DEF NoPort

\* A DATA packet on the wire is a block of its session, numbered by its
\* position in the file.
LEMMA DataPacket ==
    ASSUME IInv, NoWrap, NEW m \in toClient, m.type = "DATA"
    PROVE  /\ m.sid \in Sessions
           /\ m.port \in Ports
           /\ Opened(m.sid)
           /\ m.port = sess[m.sid].port
           /\ sess[m.sid] \in SessionRecords
           /\ \E z \in BlkSizes, i \in Nat \ {0} :
                 /\ z = sess[m.sid].blk
                 /\ i <= sess[m.sid].sent
                 /\ i <= BlockCount(z)
                 /\ i < TFTP_SEQUENCE_SIZE
                 /\ m.seq = i
                 /\ m.from = (i - 1) * z
                 /\ m.len = BlockLen(z, i)
<1>1. DownOK(m)
  BY DEF IInv, DataInv
<1>2. /\ m.sid \in Sessions
      /\ Opened(m.sid)
      /\ m.port = sess[m.sid].port
  BY <1>1 DEF DownOK
<1>3. /\ sess[m.sid] \in SessionRecords
      /\ sess[m.sid].sent <= BlockCount(sess[m.sid].blk)
  BY <1>2, OpenedFacts
<1>4. PICK i \in 1..sess[m.sid].sent :
           m = Data(m.port, m.sid, sess[m.sid].blk, i)
  BY <1>1 DEF DownOK, Oack, Error
<1> DEFINE z == sess[m.sid].blk
<1>5. z \in BlkSizes /\ sess[m.sid].sent \in Nat
  BY <1>3 DEF SessionRecords
<1>6. BlockCount(z) < TFTP_SEQUENCE_SIZE
  BY <1>5 DEF NoWrap
<1>7. BlockCount(z) \in Int
  <2>1. z \in Nat \ {0}
    BY <1>5, BlkSizeFacts
  <2> QED BY <2>1, BlockCountNat
<1>8. i \in Nat \ {0} /\ i <= BlockCount(z) /\ i < TFTP_SEQUENCE_SIZE
  BY <1>3, <1>4, <1>5, <1>6, <1>7, TftpAssumption
<1>9. i % TFTP_SEQUENCE_SIZE = i
  BY <1>8, TftpAssumption, SMT
<1>10. m.seq = i /\ m.from = (i - 1) * z /\ m.len = BlockLen(z, i)
  BY <1>4, <1>9 DEF Data
<1> QED BY <1>2, <1>3, <1>4, <1>5, <1>8, <1>10 DEF SessionRecords

\* A DATA packet the client accepts has the client's block size, belongs
\* where the client is going to store it, and everything before it is there.
LEMMA AcceptedData ==
    ASSUME IInv, NoWrap, NEW m \in toClient, m.type = "DATA", TftpAccepts(m)
    PROVE  /\ sess[m.sid].blk = TftpBlkSize
           /\ WrapOffset(m.seq) = 0
           /\ StoreOffset(m.seq) = m.from
           /\ Right(m.from)
           /\ Right((sess[m.sid].sent - 1) * TftpBlkSize)
<1>1. PICK z \in BlkSizes, i \in Nat \ {0} :
                 /\ z = sess[m.sid].blk
                 /\ i <= sess[m.sid].sent
                 /\ i <= BlockCount(z)
                 /\ i < TFTP_SEQUENCE_SIZE
                 /\ m.seq = i
                 /\ m.from = (i - 1) * z
                 /\ m.len = BlockLen(z, i)
  BY DataPacket
<1>2. /\ m.sid \in Sessions
      /\ m.port \in Ports
      /\ Opened(m.sid)
      /\ m.port = sess[m.sid].port
      /\ sess[m.sid].sent \in Nat
  BY DataPacket DEF SessionRecords
<1>3. m.port = TftpOurPort /\ TftpState # "none"
  BY <1>2, TftpAssumption DEF TftpAccepts, IInv, DataInv, StartOK, NoPort
<1>4. TftpState \in {"RRQ", "OACK", "DATA"}
  BY <1>3 DEF IInv, TypeOK, NetTypeOK, TftpTypeOK
<1>5. CASE TftpState = "RRQ"
  <2>1. UnlockedOK(m.sid) /\ ~Locked
    BY <1>2, <1>5 DEF IInv, DataInv, Locked
  <2>2. sess[m.sid].sent <= 1 /\ (sess[m.sid].sent = 1 => sess[m.sid].blk = TFTP_BLOCK_SIZE)
    BY <2>1, <1>2, <1>3 DEF UnlockedOK
  <2>3. i = 1 /\ z = TftpBlkSize
    BY <2>2, <1>1, <1>2, <1>5 DEF IInv, DataInv, StartOK
  <2>4. m.from = 0 /\ WrapOffset(m.seq) = 0
    BY <2>3, <1>1, <1>5, BlkSizeFacts, SMT DEF WrapOffset, FirstData
  <2>5. StoreOffset(m.seq) = 0
    BY <2>3, <2>4, <1>1, BlkSizeFacts, SMT DEF StoreOffset
  <2>6. (sess[m.sid].sent - 1) * TftpBlkSize = 0
    BY <2>2, <2>3, <1>1, <1>2, BlkSizeFacts, SMT
  <2> QED BY <2>3, <2>4, <2>5, <2>6, <1>1, RightNone
<1>6. CASE TftpState \in {"OACK", "DATA"}
  <2>1. m.sid = TftpServerPort
    BY <1>6 DEF TftpAccepts
  <2>2. /\ z = TftpBlkSize
        /\ Right((sess[m.sid].sent - 1) * z)
        /\ TftpState = "DATA" => TftpBlockWrapOffset = 0
    BY <2>1, <1>1, <1>6 DEF IInv, DataInv, LockedOK, Locked
  <2>3. WrapOffset(m.seq) = 0
    BY <2>2, <1>1, <1>6 DEF WrapOffset, FirstData
  <2>4. /\ (i - 1) * z <= (sess[m.sid].sent - 1) * z
        /\ (i - 1) * z \in Int
        /\ (sess[m.sid].sent - 1) * z \in Int
    BY <1>1, <1>2, BlkSizeFacts, ProductMono
  <2>5. Right(m.from)
    BY <2>2, <2>4, <1>1, RightMono
  <2>6. StoreOffset(m.seq) = m.from
    BY <2>2, <2>3, <2>4, <1>1 DEF StoreOffset
  <2> QED BY <2>2, <2>3, <2>5, <2>6, <1>1
<1> QED BY <1>4, <1>5, <1>6

-----------------------------------------------------------------------------
(***************************************************************************)
(* Steps that leave the transfer alone: packets may get lost, but nothing  *)
(* is stored, sent or learnt.                                              *)
(***************************************************************************)
transfer == <<sess, mem, NetBootFileXferSize, TftpState, TftpServerPort,
              TftpOurPort, TftpBlock, TftpLastBlock, TftpBlockWrapOffset,
              TftpBlkSize>>

\* A step that leaves the transfer itself alone keeps the data invariant, if
\* what it sends or parks may be sent.
LEMMA DataFrame ==
    ASSUME IInv,
           UNCHANGED transfer,
           toClient' \subseteq toClient,
           NEW up, toServer' = up, \A m \in up : UpOK(m),
           NEW p, NetArpWaitTxPacket' = p, eth' = "up" => UpOK(p),
           Active' => Active,
           NetState' = "SUCCESS" => NetState = "SUCCESS"
    PROVE  DataInv'
<1> USE DEF transfer
<1>1. \A m \in toClient' : DownOK(m)'
  BY DEF IInv, DataInv, DownOK, Opened
<1>2. \A s \in Sessions : SessionOK(s)' /\ UnlockedOK(s)'
  BY DEF IInv, DataInv, SessionOK, UnlockedOK, Opened, Locked
<1>3. \A m : UpOK(m) => UpOK(m)'
  BY DEF UpOK, Locked, Right
<1>4. (eth = "up" => UpOK(NetArpWaitTxPacket))'
  BY DEF UpOK, Locked, Right
<1>5. LockedOK'
  BY DEF IInv, DataInv, LockedOK, Locked, Right, Opened
<1>6. StartOK' /\ ImageOK' /\ SuccessMeansWholeFile'
  BY DEF IInv, DataInv, StartOK, ImageOK, SuccessMeansWholeFile, Right
<1> QED BY <1>1, <1>2, <1>3, <1>4, <1>5, <1>6 DEF DataInv

\* The passes of NetLoop that involve no datagram of the transfer.
LEMMA QuietSteps ==
    ASSUME IInv, NetPass, UNCHANGED <<tftpVars, mem, sess>>, ~RxArpReply
    PROVE  DataInv'
<1> USE DEF loopVars, arpVars, envVars, tftpVars, Taken
<1>2. /\ UNCHANGED transfer
      /\ UNCHANGED <<toServer, NetArpWaitTxPacket>>
      /\ toClient' \subseteq toClient
      /\ packetHandler' = "tftp" => packetHandler = "tftp"
      /\ eth' = "up" => eth = "up"
      /\ NetState' = "SUCCESS" => NetState = "SUCCESS"
  BY DEF NetPass, RxNothing, RxWhileWaiting, CtrlC, ArpQuiet, TimerQuiet,
         ArpTimeout, NetStartAgain, StartAgainTimeout, SwitchContinue,
         SwitchFail, SwitchSuccess, ArpAnswer, transfer
<1>3. (\A m \in toServer : UpOK(m)) /\ (eth = "up" => UpOK(NetArpWaitTxPacket))
  BY DEF IInv, DataInv
<1>4. DataInv'
  BY <1>2, <1>3, DataFrame DEF Active
<1> QED BY <1>4

\* The ARP reply: the parked packet goes out.
LEMMA ArpReplyStep ==
    ASSUME IInv, RxArpReply, UNCHANGED <<tftpVars, mem, sess>>
    PROVE  DataInv'
<1> USE DEF loopVars, arpVars, envVars, tftpVars
<1>1. eth = "up" /\ UNCHANGED <<eth, packetHandler, NetState>>
  BY DEF IInv, LoopInv, RxArpReply
<1>2. toServer' \subseteq toServer \cup {NetArpWaitTxPacket}
  BY DEF RxArpReply, EthSend
<1>4. UpOK(NetArpWaitTxPacket) /\ UpOK(NoPacket)
  BY <1>1 DEF IInv, DataInv, UpOK, NoPacket
<1>5. UNCHANGED transfer /\ UNCHANGED toClient
  BY DEF RxArpReply, transfer
<1>6. NetArpWaitTxPacket' \in {NetArpWaitTxPacket, NoPacket}
  BY DEF RxArpReply
<1>7. \A m \in toServer \cup {NetArpWaitTxPacket} : UpOK(m)
  BY <1>4 DEF IInv, DataInv
<1>8. DataInv'
  <2> DEFINE up == toServer'
             p == NetArpWaitTxPacket'
  <2>1. \A m \in up : UpOK(m)
    BY <1>2, <1>7
  <2>2. UpOK(p)
    BY <1>4, <1>6
  <2> HIDE DEF up, p
  <2> QED BY <2>1, <2>2, <1>1, <1>5, DataFrame DEF Active, up, p
<1> QED BY <1>8

\* A new attempt: the network holds nothing for its port.
LEMMA RestartStep ==
    ASSUME IInv, Restart, eth' = "up", netretry' \in NetRetryValues,
           UNCHANGED envVars
    PROVE  DataInv'
<1>1. PICK p \in Ports :
          /\ PortIdle(p)
          /\ TftpOurPort' = p
          /\ NetSendUDPPacket("null", "up", arpWire, Rrq(p))
  BY DEF Restart, TftpStart, TftpPacket
<1>2. Rrq(p) \in UpPackets
  BY DEF Rrq, UpPackets
<1>3. /\ NetArpWaitTxPacket' = Rrq(p)
      /\ UNCHANGED toServer
  BY <1>1 DEF NetSendUDPPacket
<1>5. UNCHANGED <<toClient, sess, mem>> /\ ~Locked'
  BY DEF Restart, TftpStart, Locked
<1>6. \A m \in toClient' : DownOK(m)'
  BY <1>5 DEF IInv, DataInv, DownOK, Opened
<1>7. \A s \in Sessions : SessionOK(s)' /\ UnlockedOK(s)'
  BY <1>1, <1>5 DEF IInv, DataInv, SessionOK, UnlockedOK, Opened, PortIdle
<1>8. \A m \in toServer' : UpOK(m)'
  BY <1>1, <1>3 DEF UpOK, PortIdle
<1>9. UpOK(NetArpWaitTxPacket)'
  BY <1>3 DEF UpOK, Rrq
<1>10. LockedOK' /\ StartOK' /\ ImageOK' /\ SuccessMeansWholeFile'
  BY <1>1, <1>5, TftpAssumption
     DEF LockedOK, StartOK, ImageOK, SuccessMeansWholeFile, Right, Restart, TftpStart,
         NoPort
<1> QED BY <1>6, <1>7, <1>8, <1>9, <1>10 DEF DataInv

\* A retransmission: TftpSend repeats what was sent before.
LEMMA TimeoutStep ==
    ASSUME IInv, TftpTimeout
    PROVE  DataInv'
<1> DEFINE p == TftpPacket(TftpState, TftpOurPort, TftpServerPort, TftpBlock)
<1>0. UNCHANGED transfer /\ UNCHANGED toClient
  BY DEF TftpTimeout, transfer
<1>1. CASE TftpTimeoutCount + 1 > TIMEOUT_COUNT
  <2>1. NetStartAgain("none") /\ UNCHANGED <<NetArpWaitTxPacket, NetArpWaitTry, arpWire, toServer>>
    BY <1>1, TftpAssumption DEF TftpTimeout, IInv, TypeOK, TftpTypeOK
  <2>2. DataInv'
    <3>1. (\A m \in toServer : UpOK(m)) /\ (eth = "up" => UpOK(NetArpWaitTxPacket))
      BY DEF IInv, DataInv
    <3> QED BY <2>1, <3>1, <1>0, StartAgainFacts, DataFrame DEF IInv, TypeOK
  <2> QED BY <2>2
<1>2. CASE TftpTimeoutCount + 1 <= TIMEOUT_COUNT
  <2>1. /\ NetSendUDPPacket(NetServerEther, eth, arpWire, p)
        /\ UNCHANGED <<NetState, packetHandler, eth>>
        /\ timeHandler' = "tftp"
    BY <1>2, TftpAssumption DEF TftpTimeout, TftpSend, IInv, TypeOK, TftpTypeOK
  <2>2. packetHandler = "tftp" /\ TftpState # "none" /\ TftpOurPort \in Ports
    BY DEF TftpTimeout, IInv, LoopInv, DataInv, StartOK, TypeOK, TftpTypeOK
  <2>3. p \in UpPackets /\ (eth = "up" => UpOK(p))
    <3>1. CASE TftpState = "RRQ"
      BY <3>1, <2>2 DEF TftpPacket, Rrq, UpPackets, UpOK
    <3>2. CASE TftpState # "RRQ"
      <4>1. Locked /\ p = Ack(TftpOurPort, TftpServerPort, TftpBlock)
        BY <3>2, <2>2 DEF Locked, IInv, TypeOK, TftpTypeOK, TftpPacket
      <4>2. p \in UpPackets
        BY <4>1, <2>2 DEF Ack, UpPackets, IInv, TypeOK, TftpTypeOK, DataInv, LockedOK
      <4>3. eth = "up" => UpOK(p)
        BY <4>1, <2>2 DEF UpOK, Ack, IInv, DataInv, LockedOK, Active
      <4> QED BY <4>2, <4>3
    <3> QED BY <3>1, <3>2
  <2> HIDE DEF p
  <2>4. /\ toServer' \subseteq toServer \cup {p}
        /\ eth # "up" => toServer' = toServer
        /\ NetArpWaitTxPacket' \in {NetArpWaitTxPacket, p}
    BY <2>1, <2>3, SendFacts DEF IInv, TypeOK
  <2>6. DataInv'
    <3> DEFINE up == toServer'
               q == NetArpWaitTxPacket'
    <3>1. \A m \in up : UpOK(m)
      BY <2>3, <2>4 DEF IInv, DataInv
    <3>2. eth = "up" => UpOK(q)
      BY <2>3, <2>4 DEF IInv, DataInv
    <3> HIDE DEF up, q
    <3> QED BY <3>1, <3>2, <2>1, <1>0, DataFrame DEF Active, up, q
  <2> QED BY <2>6
<1> QED BY <1>1, <1>2, TftpAssumption DEF IInv, TypeOK, TftpTypeOK

-----------------------------------------------------------------------------
(***************************************************************************)
(* Received packets.                                                       *)
(***************************************************************************)

\* What is known when TftpHandler is entered.
LEMMA ReceiveFacts ==
    ASSUME IInv, NEW m \in toClient, Receive(m)
    PROVE  /\ toClient' \subseteq toClient
           /\ UNCHANGED <<sess, TftpOurPort>>
           /\ Active
           /\ NetState = "CONTINUE"
           /\ pc = "rx"
           /\ DownOK(m)
           /\ \A x \in toServer : UpOK(x)
           /\ UpOK(NetArpWaitTxPacket)
BY DEF Receive, Taken, IInv, LoopInv, DataInv, Active

\* A packet that is not accepted, and an ERROR.
LEMMA UnacceptedStep ==
    ASSUME IInv, NEW m \in toClient, RxUnaccepted(m) \/ RxError(m)
    PROVE  DataInv'
<1>1. Receive(m)
  BY DEF RxUnaccepted, RxError
<1>2. UNCHANGED transfer /\ UNCHANGED <<toServer, NetArpWaitTxPacket, NetArpWaitTry, arpWire>>
  BY <1>1 DEF RxUnaccepted, RxError, transfer, Receive
<1>3. /\ Active' => Active
      /\ NetState' = "SUCCESS" => NetState = "SUCCESS"
  <2>1. CASE RxUnaccepted(m)
    BY <2>1 DEF RxUnaccepted, loopVars, IInv, TypeOK, NetTypeOK, Active
  <2>2. CASE RxError(m)
    BY <2>2, StartAgainFacts DEF RxError, IInv, TypeOK, NetTypeOK
  <2> QED BY <2>1, <2>2
<1>4. DataInv'
  BY <1>1, <1>2, <1>3, ReceiveFacts, DataFrame
<1> QED BY <1>4

\* Accepting a packet settles the client on its session: what remains to be
\* shown of the step for the data invariant to hold after it.
LEMMA SettleStep ==
    ASSUME IInv, NEW m \in toClient, Receive(m), TftpAccepts(m),
           TftpState' \in {"OACK", "DATA"},
           TftpServerPort' = m.sid,
           TftpBlkSize' = sess[m.sid].blk,
           \A a \in Int : Right(a) => Right(a)',
           TftpState = "RRQ" \/ TftpBlkSize' = TftpBlkSize,
           Right((sess[m.sid].sent - 1) * sess[m.sid].blk)',
           TftpState' = "DATA" => /\ TftpBlockWrapOffset' = 0
                                  /\ Right(TftpLastBlock * TftpBlkSize)',
           Active' => /\ TftpBlock' <= sess[m.sid].sent
                      /\ Right(TftpBlock * TftpBlkSize)',
           \A x \in toServer' : x \in toServer \/ UpOK(x)',
           eth' = "up" => \/ UNCHANGED NetArpWaitTxPacket
                          \/ UpOK(NetArpWaitTxPacket)',
           ImageOK', SuccessMeansWholeFile'
    PROVE  DataInv'
<1>1. /\ toClient' \subseteq toClient
      /\ UNCHANGED <<sess, TftpOurPort>>
      /\ Active
      /\ DownOK(m)
      /\ \A x \in toServer : UpOK(x)
      /\ UpOK(NetArpWaitTxPacket)
  BY ReceiveFacts
<1>2. /\ m.sid \in Sessions
      /\ Opened(m.sid)
      /\ m.port = sess[m.sid].port
      /\ m.port = TftpOurPort
      /\ TftpState = "RRQ" \/ m.sid = TftpServerPort
  BY <1>1 DEF DownOK, TftpAccepts
<1>3. Locked'
  BY DEF Locked
<1>4. \A x \in toClient' : DownOK(x)'
  BY <1>1 DEF IInv, DataInv, DownOK, Opened
<1>5. \A s \in Sessions : SessionOK(s)' /\ UnlockedOK(s)'
  BY <1>1, <1>3 DEF IInv, DataInv, SessionOK, UnlockedOK, Opened
<1>6. ASSUME NEW x \in UpPackets \cup {NoPacket}, UpOK(x)
      PROVE  UpOK(x)'
  <2> SUFFICES ASSUME x.type = "ACK", x.port = TftpOurPort
               PROVE  UpOK(x)'
    BY <1>1 DEF UpOK
  <2>1. /\ Locked
        /\ x.sid = TftpServerPort
        /\ x.seq <= sess[TftpServerPort].sent
        /\ Right(x.seq * TftpBlkSize)
    BY <1>6 DEF UpOK
  <2>2. m.sid = TftpServerPort /\ TftpBlkSize' = TftpBlkSize
    BY <2>1, <1>2 DEF Locked
  <2>3. x.seq * TftpBlkSize \in Int
    <3>1. x.seq \in Int
      BY TftpAssumption DEF UpPackets, NoPacket, Numbers
    <3>2. TftpBlkSize \in Int
      BY BlkSizeFacts DEF IInv, TypeOK, TftpTypeOK
    <3> QED BY <3>1, <3>2
  <2>4. Right(x.seq * TftpBlkSize)'
    BY <2>1, <2>2, <2>3 DEF Right
  <2> QED BY <2>1, <2>2, <2>4, <1>1, <1>3 DEF UpOK
<1>7. \A x \in toServer' : UpOK(x)'
  BY <1>1, <1>6 DEF IInv, TypeOK, NetTypeOK
<1>8. (eth = "up" => UpOK(NetArpWaitTxPacket))'
  <2>1. CASE UNCHANGED NetArpWaitTxPacket
    <3>1. PICK x \in UpPackets \cup {NoPacket} : x = NetArpWaitTxPacket
      BY DEF IInv, TypeOK, NetTypeOK
    <3>2. UpOK(x)'
      BY <3>1, <1>1, <1>6
    <3> QED BY <3>1, <3>2, <2>1 DEF UpOK
  <2> QED BY <2>1
<1>9. LockedOK'
  BY <1>1, <1>2 DEF LockedOK, Opened
<1>10. StartOK'
  <2>1. TftpOurPort # NoPort
    BY <1>2, OpenedFacts
  <2> QED BY <2>1, <1>1 DEF StartOK
<1> QED BY <1>4, <1>5, <1>7, <1>8, <1>9, <1>10 DEF DataInv

\* An option acknowledgement fixes the block size; it may come late and find
\* the transfer under way.
LEMMA OackStep ==
    ASSUME IInv, NEW m \in toClient, RxOack(m)
    PROVE  DataInv'
<1> DEFINE s == m.sid
           p == Ack(TftpOurPort, m.sid, TftpBlock)
<1>1. Receive(m) /\ TftpAccepts(m)
  BY DEF RxOack
<1>2. /\ UNCHANGED <<sess, TftpOurPort>>
      /\ Active
      /\ DownOK(m)
      /\ UNCHANGED <<TftpBlock, TftpLastBlock, TftpBlockWrapOffset, mem,
                     NetBootFileXferSize>>
      /\ UNCHANGED loopVars
  BY <1>1, ReceiveFacts DEF RxOack
<1>3. s \in Sessions /\ Opened(s) /\ sess[s].port = TftpOurPort
  BY <1>1, <1>2 DEF DownOK, TftpAccepts
<1>4. /\ TftpState' = "OACK"
      /\ TftpServerPort' = s
      /\ TftpBlkSize' = IF m.blk = NoOption THEN TftpBlkSize ELSE m.blk
      /\ NetSendUDPPacket(NetServerEther, eth, arpWire, p)
  BY DEF RxOack, TftpSend, TftpPacket
<1>5. sess[s].blk = IF m.blk = NoOption THEN TFTP_BLOCK_SIZE ELSE m.blk
  BY <1>2 DEF RxOack, DownOK, Oack, Data, Error
<1>6. TftpState \in {"RRQ", "OACK", "DATA"}
  BY <1>3, OpenedFacts DEF IInv, DataInv, StartOK, TypeOK, TftpTypeOK
<1> DEFINE z == sess[s].blk
           n == sess[s].sent
<1>7. /\ z \in BlkSizes /\ z \in Nat /\ n \in Nat
      /\ TftpBlock \in Numbers /\ TftpBlock \in Nat
      /\ (n - 1) * z \in Int /\ TftpBlock * z \in Int
  <2>1. z \in BlkSizes /\ z \in Nat /\ n \in Nat
    BY <1>3, OpenedFacts
  <2>2. TftpBlock \in Numbers /\ TftpBlock \in Nat
    BY TftpAssumption DEF IInv, TypeOK, TftpTypeOK, Numbers
  <2> QED BY <2>1, <2>2, ProductMono
<1>8. /\ TftpBlkSize' = z
      /\ TftpState = "RRQ" \/ TftpBlkSize' = TftpBlkSize
      /\ Right((n - 1) * z)
      /\ TftpBlock <= n
      /\ Right(TftpBlock * z)
  <2>1. CASE TftpState = "RRQ"
    <3>1. TftpBlkSize' = z
      BY <1>4, <1>5, <2>1 DEF IInv, DataInv, StartOK
    <3>2. n <= 1 /\ TftpBlock = 0
      BY <1>3, <2>1 DEF IInv, DataInv, UnlockedOK, StartOK, Locked
    <3>3. TftpBlock * z <= 0 /\ (n - 1) * z <= 0
      <4>1. (n - 1) * z <= 0 * z
        BY <3>2, <1>7, ProductMono
      <4>2. 0 * z = 0
        BY <1>7
      <4> QED BY <4>1, <4>2, <3>2, <1>7
    <3> QED BY <3>1, <3>2, <3>3, <2>1, <1>7, RightNone
  <2>2. CASE TftpState \in {"OACK", "DATA"}
    <3>1. s = TftpServerPort /\ Locked
      BY <1>1, <2>2 DEF TftpAccepts, Locked
    <3>2. /\ TftpBlkSize = z
          /\ Right((n - 1) * z)
          /\ TftpBlock <= n
          /\ Right(TftpBlock * z)
      BY <3>1, <1>2 DEF IInv, DataInv, LockedOK
    <3> QED BY <3>2, <1>4, <1>5
  <2> QED BY <1>6, <2>1, <2>2
<1>9. p \in UpPackets
  BY <1>3, <1>7, OpenedFacts DEF Ack, UpPackets
<1>10. /\ toServer' \subseteq toServer \cup {p}
       /\ NetArpWaitTxPacket' \in {NetArpWaitTxPacket, p}
  BY <1>4, <1>9, SendFacts DEF IInv, TypeOK
<1>11. \A a \in Int : Right(a) => Right(a)'
  BY <1>2 DEF Right
<1>12. \A x : x = p => UpOK(x)'
  BY <1>2, <1>4, <1>8 DEF UpOK, Ack, Locked, Right
<1>13. ImageOK' /\ SuccessMeansWholeFile'
  BY <1>2 DEF IInv, DataInv, ImageOK, SuccessMeansWholeFile, Right, loopVars
<1>14. DataInv'
  <2>1. \A x \in toServer' : x \in toServer \/ UpOK(x)'
    BY <1>10, <1>12
  <2>2. UNCHANGED NetArpWaitTxPacket \/ UpOK(NetArpWaitTxPacket)'
    <3>1. CASE NetArpWaitTxPacket' = p
      BY <3>1, <1>12 DEF UpOK
    <3> QED BY <3>1, <1>10
  <2>3. /\ Right((n - 1) * z)'
        /\ Right(TftpBlock * TftpBlkSize)'
        /\ TftpBlock' <= n
    <3>1. n' = n /\ z' = z /\ TftpBlock' = TftpBlock /\ mem' = mem
      BY <1>2
    <3> HIDE DEF n, z
    <3>2. Right((n - 1) * z)'
      BY <3>1, <1>8 DEF Right
    <3>3. Right(TftpBlock * TftpBlkSize)'
      BY <3>1, <1>8 DEF Right
    <3> QED BY <3>1, <3>2, <3>3, <1>8
  <2>4. TftpState' # "DATA"
    BY <1>4
  <2> QED BY <2>1, <2>2, <2>3, <2>4, <1>1, <1>4, <1>8, <1>11, <1>13, SettleStep
<1> QED BY <1>14

\* "First block is not block 1": the client gives up on the session.
LEMMA FirstNotOneStep ==
    ASSUME IInv, NoWrap, NEW m \in toClient, RxFirstNotOne(m)
    PROVE  DataInv'
<1>1. /\ m.type = "DATA" /\ Receive(m) /\ TftpAccepts(m)
      /\ TftpState' = "DATA" /\ TftpServerPort' = m.sid
      /\ TftpBlock' = m.seq /\ TftpBlockWrapOffset' = WrapOffset(m.seq)
      /\ TftpBlkSize' = TftpBlkSize /\ TftpLastBlock' = 0
      /\ NetStartAgain(timeHandler)
      /\ UNCHANGED <<NetArpWaitTxPacket, NetArpWaitTry, arpWire, toServer,
                     NetBootFileXferSize, mem>>
  BY DEF RxFirstNotOne, DataHeader
<1>2. /\ UNCHANGED <<sess, TftpOurPort>>
      /\ NetState = "CONTINUE"
      /\ TftpBlkSize = sess[m.sid].blk
      /\ WrapOffset(m.seq) = 0
      /\ Right((sess[m.sid].sent - 1) * TftpBlkSize)
  BY <1>1, AcceptedData, ReceiveFacts
<1>3. /\ ~Active'
      /\ NetState' # "SUCCESS"
  BY <1>1, <1>2, StartAgainFacts DEF IInv, TypeOK, NetTypeOK
<1>4. DataInv'
  <2>1. TftpBlkSize \in Nat
    BY BlkSizeFacts DEF IInv, TypeOK, TftpTypeOK
  <2>2. Right(TftpLastBlock * TftpBlkSize)'
    BY <1>1, <2>1, TftpAssumption DEF Right
  <2>3. Right((sess[m.sid].sent - 1) * sess[m.sid].blk)'
    BY <1>1, <1>2 DEF Right
  <2>4. \A a \in Int : Right(a) => Right(a)'
    BY <1>1 DEF Right
  <2>5. ImageOK' /\ SuccessMeansWholeFile'
    BY <1>1, <1>3 DEF IInv, DataInv, ImageOK, SuccessMeansWholeFile, Right
  <2> QED BY <2>2, <2>3, <2>4, <2>5, <1>1, <1>2, <1>3, SettleStep
<1> QED BY <1>4

\* A repetition of the last block.
LEMMA SameBlockStep ==
    ASSUME IInv, NoWrap, NEW m \in toClient, RxSameBlock(m)
    PROVE  DataInv'
<1>1. /\ m.type = "DATA" /\ Receive(m) /\ TftpAccepts(m)
      /\ TftpState' = "DATA" /\ TftpServerPort' = m.sid
      /\ TftpBlock' = m.seq /\ TftpBlockWrapOffset' = WrapOffset(m.seq)
      /\ TftpBlkSize' = TftpBlkSize /\ TftpLastBlock' = m.seq
      /\ UNCHANGED loopVars
      /\ UNCHANGED <<NetArpWaitTxPacket, NetArpWaitTry, arpWire, toServer,
                     NetBootFileXferSize, mem>>
  BY DEF RxSameBlock, DataHeader
<1>2. /\ UNCHANGED <<sess, TftpOurPort>>
      /\ TftpBlkSize = sess[m.sid].blk
      /\ WrapOffset(m.seq) = 0
      /\ Right((sess[m.sid].sent - 1) * TftpBlkSize)
  BY <1>1, AcceptedData, ReceiveFacts
<1>3. /\ m.sid \in Sessions
      /\ m.seq \in Numbers
      /\ m.seq \in Nat
      /\ m.seq <= sess[m.sid].sent
      /\ m.seq # 0
  BY <1>1, DataPacket, TftpAssumption DEF Numbers
<1>4. TftpState = "DATA" /\ m.seq = TftpLastBlock
  <2>1. ~FirstData /\ m.seq = TftpLastBlock
    BY <1>3 DEF RxSameBlock, SameBlock
  <2>2. TftpState # "none"
    BY <1>1, DataPacket, TftpAssumption DEF TftpAccepts, IInv, DataInv, StartOK, NoPort
  <2> QED BY <2>1, <2>2 DEF FirstData, IInv, TypeOK, TftpTypeOK
<1>5. Right(m.seq * TftpBlkSize)
  BY <1>4 DEF IInv, DataInv, LockedOK, Locked
<1>6. DataInv'
  <2>1. Right(TftpLastBlock * TftpBlkSize)' /\ Right(TftpBlock * TftpBlkSize)'
    BY <1>1, <1>5 DEF Right
  <2>2. Right((sess[m.sid].sent - 1) * sess[m.sid].blk)'
    BY <1>1, <1>2 DEF Right
  <2>3. \A a \in Int : Right(a) => Right(a)'
    BY <1>1 DEF Right
  <2>4. ImageOK' /\ SuccessMeansWholeFile'
    BY <1>1 DEF IInv, DataInv, ImageOK, SuccessMeansWholeFile, Right, loopVars
  <2> QED BY <2>1, <2>2, <2>3, <2>4, <1>1, <1>2, <1>3, SettleStep
<1> QED BY <1>6

\* A new block is stored where it belongs, acknowledged, and ends the
\* transfer if and only if it is the last one.
LEMMA BlockStep ==
    ASSUME IInv, NoWrap, NEW m \in toClient, RxBlock(m)
    PROVE  DataInv'
<1> DEFINE p == Ack(TftpOurPort, m.sid, m.seq)
           end == m.from + m.len
<1>1. /\ m.type = "DATA" /\ Receive(m) /\ TftpAccepts(m)
      /\ TftpState' = "DATA" /\ TftpServerPort' = m.sid
      /\ TftpBlock' = m.seq /\ TftpBlockWrapOffset' = WrapOffset(m.seq)
      /\ TftpBlkSize' = TftpBlkSize /\ TftpLastBlock' = m.seq
      /\ timeHandler' = "tftp"
      /\ StoreBlock(m)
      /\ NetSendUDPPacket(NetServerEther, eth, arpWire, p)
      /\ NetState' = IF m.len < TftpBlkSize THEN "SUCCESS" ELSE NetState
      /\ UNCHANGED <<packetHandler, eth>>
  BY DEF RxBlock, DataHeader, TftpSend, TftpPacket
<1>2. /\ UNCHANGED <<sess, TftpOurPort>>
      /\ NetState = "CONTINUE"
      /\ TftpBlkSize = sess[m.sid].blk
      /\ WrapOffset(m.seq) = 0
      /\ StoreOffset(m.seq) = m.from
      /\ Right(m.from)
      /\ Right((sess[m.sid].sent - 1) * TftpBlkSize)
  BY <1>1, AcceptedData, ReceiveFacts
<1>3. PICK z \in BlkSizes, i \in Nat \ {0} :
                 /\ z = sess[m.sid].blk
                 /\ i <= sess[m.sid].sent
                 /\ i <= BlockCount(z)
                 /\ i < TFTP_SEQUENCE_SIZE
                 /\ m.seq = i
                 /\ m.from = (i - 1) * z
                 /\ m.len = BlockLen(z, i)
  BY <1>1, DataPacket
<1>4. m.sid \in Sessions /\ m.seq \in Numbers /\ TftpOurPort \in Ports
  BY <1>1, <1>3, DataPacket, TftpAssumption DEF Numbers, TftpAccepts
<1>5. /\ z \in Nat \ {0}
      /\ TftpBlkSize = z
      /\ m.from \in Nat /\ m.len \in Nat /\ end \in Nat
      /\ end <= FileLen
      /\ m.len < z => end = FileLen /\ FileLen <= i * z
      /\ m.len >= z => i * z = end
      /\ i * z \in Int
      /\ FileLen \in Nat
  <2>1. z \in Nat \ {0}
    BY BlkSizeFacts
  <2>2. i * z \in Int
    BY <2>1, ProductMono
  <2>3. /\ (i - 1) * z \in Nat
        /\ BlockLen(z, i) \in 0..z
        /\ (i - 1) * z + BlockLen(z, i) <= FileLen
        /\ BlockLen(z, i) < z => (i - 1) * z + BlockLen(z, i) = FileLen
        /\ BlockLen(z, i) = z => i * z = (i - 1) * z + BlockLen(z, i)
        /\ BlockLen(z, i) < z => FileLen <= i * z
    BY <2>1, <1>3, BlockFacts
  <2> QED BY <2>1, <2>2, <2>3, <1>2, <1>3, TftpAssumption
<1>6. /\ DOMAIN mem' = 0..(FileLen - 1)
      /\ \A u \in 0..(FileLen - 1) :
            mem'[u] = IF m.from <= u /\ u < end THEN u ELSE mem[u]
  <2>1. mem' = [u \in DOMAIN mem |->
                  IF m.from <= u /\ u < m.from + m.len
                  THEN m.from + (u - m.from) ELSE mem[u]]
    BY <1>1, <1>2 DEF StoreBlock
  <2>2. DOMAIN mem = 0..(FileLen - 1)
    BY DEF IInv, TypeOK, TftpTypeOK
  <2>3. \A u \in 0..(FileLen - 1) : m.from + (u - m.from) = u
    BY <1>5
  <2> QED BY <2>1, <2>2, <2>3
<1>8. \A a \in Int : Right(a) => Right(a)'
  BY <1>6 DEF Right
<1>9. \A a \in Int : a <= end => Right(a)'
  <2> SUFFICES ASSUME NEW u \in 0..(FileLen - 1), u < end
               PROVE  mem'[u] = u
    BY <1>5 DEF Right
  <2>1. CASE m.from <= u
    BY <2>1, <1>6
  <2>2. CASE u < m.from
    BY <2>2, <1>2, <1>5, <1>6 DEF Right
  <2> QED BY <2>1, <2>2, <1>5
<1>10. Right(i * z)'
  <2>1. CASE m.len < z
    BY <2>1, <1>5, <1>9 DEF Right
  <2>2. CASE m.len >= z
    BY <2>2, <1>5, <1>9
  <2> QED BY <2>1, <2>2, <1>5
<1>11. /\ NetBootFileXferSize' = IF NetBootFileXferSize < end THEN end
                                 ELSE NetBootFileXferSize
       /\ NetBootFileXferSize \in Nat
       /\ NetBootFileXferSize <= FileLen
       /\ Right(NetBootFileXferSize)
  BY <1>1, <1>2 DEF StoreBlock, IInv, DataInv, ImageOK, TypeOK, NetTypeOK
<1>12. ImageOK' /\ SuccessMeansWholeFile' /\ NetBootFileXferSize' \in Nat
  <2>1. CASE NetBootFileXferSize < end
    <3>1. NetBootFileXferSize' = end
      BY <2>1, <1>11
    <3>2. Right(NetBootFileXferSize)'
      BY <3>1, <1>5, <1>9 DEF Right
    <3>3. NetState' = "SUCCESS" => end = FileLen
      BY <1>1, <1>2, <1>5
    <3> QED BY <3>1, <3>2, <3>3, <1>5 DEF ImageOK, SuccessMeansWholeFile, Right
  <2>2. CASE NetBootFileXferSize >= end
    <3>1. NetBootFileXferSize' = NetBootFileXferSize
      BY <2>2, <1>5, <1>11
    <3>2. Right(NetBootFileXferSize)'
      BY <3>1, <1>8, <1>11 DEF Right
    <3>3. NetState' = "SUCCESS" => NetBootFileXferSize = FileLen
      BY <2>2, <1>1, <1>2, <1>5, <1>11
    <3> QED BY <3>1, <3>2, <3>3, <1>11 DEF ImageOK, SuccessMeansWholeFile, Right
  <2> QED BY <2>1, <2>2, <1>5, <1>11
<1>13. p \in UpPackets
  BY <1>4 DEF Ack, UpPackets
<1>14. /\ toServer' \subseteq toServer \cup {p}
       /\ NetArpWaitTxPacket' \in {NetArpWaitTxPacket, p}
  BY <1>1, <1>13, SendFacts DEF IInv, TypeOK
<1>15. Right(TftpBlock * TftpBlkSize)' /\ Right(TftpLastBlock * TftpBlkSize)'
  BY <1>1, <1>3, <1>5, <1>10 DEF Right
<1>16. \A x : x = p => UpOK(x)'
  <2> SUFFICES ASSUME NEW x, x = p PROVE UpOK(x)'
    OBVIOUS
  <2>1. x.sid = m.sid /\ x.seq = i
    BY <1>3 DEF Ack
  <2>2. Right(x.seq * TftpBlkSize)'
    BY <2>1, <1>1, <1>5, <1>10 DEF Right
  <2> QED BY <2>1, <2>2, <1>1, <1>2, <1>3 DEF UpOK, Locked
<1>17. DataInv'
  <2>1. \A x \in toServer' : x \in toServer \/ UpOK(x)'
    BY <1>14, <1>16
  <2>2. UNCHANGED NetArpWaitTxPacket \/ UpOK(NetArpWaitTxPacket)'
    <3>1. CASE NetArpWaitTxPacket' = p
      BY <3>1, <1>16 DEF UpOK
    <3> QED BY <3>1, <1>14
  <2>3. Right((sess[m.sid].sent - 1) * sess[m.sid].blk)'
    <3>1. (sess[m.sid].sent - 1) * TftpBlkSize \in Int
      BY <1>1, <1>5, DataPacket DEF SessionRecords
    <3> QED BY <3>1, <1>2, <1>8 DEF Right
  <2> QED BY <2>1, <2>2, <2>3, <1>1, <1>2, <1>3, <1>8, <1>12, <1>15, SettleStep
<1> QED BY <1>17

-----------------------------------------------------------------------------
(***************************************************************************)
(* Steps of the servers and of the wire.                                   *)
(***************************************************************************)

\* What remains to be shown of a step that leaves the client alone.
LEMMA EnvironmentStep ==
    ASSUME IInv, UNCHANGED serverVars,
           toServer' \subseteq toServer,
           sess' \in [Sessions -> SessionRecords \cup {NoSession}],
           \A x \in toClient' : DownOK(x)',
           \A t \in Sessions : SessionOK(t)' /\ UnlockedOK(t)',
           Locked => /\ sess'[TftpServerPort].st # "free"
                     /\ sess'[TftpServerPort].port = sess[TftpServerPort].port
                     /\ sess'[TftpServerPort].blk = sess[TftpServerPort].blk
                     /\ sess[TftpServerPort].sent <= sess'[TftpServerPort].sent
                     /\ sess'[TftpServerPort].sent \in Nat
                     /\ Right((sess'[TftpServerPort].sent - 1) * TftpBlkSize)
    PROVE  DataInv'
<1>1. /\ UNCHANGED <<TftpState, TftpServerPort, TftpOurPort, TftpTimeoutCount,
                     TftpBlock, TftpLastBlock, TftpBlockWrapOffset, TftpBlkSize,
                     mem, NetBootFileXferSize, NetArpWaitTxPacket>>
      /\ UNCHANGED <<pc, NetState, packetHandler, timeHandler, eth, netretry,
                     NetServerEther, NetArpWaitTry, result, filesize,
                     filesizeRounded, arpWire>>
  BY DEF serverVars, loopVars, arpVars, envVars, tftpVars
<1>4. ASSUME NEW x \in UpPackets \cup {NoPacket}, UpOK(x)
      PROVE  UpOK(x)'
  <2> SUFFICES ASSUME x.type = "ACK", x.port = TftpOurPort
               PROVE  UpOK(x)'
    BY <1>1 DEF UpOK
  <2>1. /\ Locked
        /\ x.sid = TftpServerPort
        /\ x.seq <= sess[TftpServerPort].sent
        /\ Right(x.seq * TftpBlkSize)
    BY <1>4 DEF UpOK
  <2>2. x.seq \in Int
    BY TftpAssumption DEF UpPackets, NoPacket, Numbers
  <2>3. sess[TftpServerPort].sent \in Nat
    BY <2>1, OpenedFacts DEF IInv, DataInv, LockedOK
  <2>4. x.seq <= sess'[TftpServerPort].sent
    BY <2>1, <2>2, <2>3
  <2> QED BY <2>1, <2>4, <1>1 DEF UpOK, Locked, Right
<1>5. \A x \in toServer' : UpOK(x)'
  BY <1>4 DEF IInv, TypeOK, NetTypeOK, DataInv
<1>6. (eth = "up" => UpOK(NetArpWaitTxPacket))'
  <2>1. PICK x \in UpPackets \cup {NoPacket} : x = NetArpWaitTxPacket
    BY DEF IInv, TypeOK, NetTypeOK
  <2>2. eth = "up" => UpOK(x)'
    BY <2>1, <1>4 DEF IInv, DataInv
  <2> QED BY <2>1, <2>2, <1>1 DEF UpOK
<1>7. LockedOK'
  <2> SUFFICES ASSUME Locked PROVE LockedOK'
    BY <1>1 DEF LockedOK, Locked
  <2>1. /\ TftpServerPort \in Sessions
        /\ Opened(TftpServerPort)
        /\ sess[TftpServerPort].port = TftpOurPort
        /\ TftpBlkSize = sess[TftpServerPort].blk
        /\ TftpState = "DATA" => /\ TftpBlockWrapOffset = 0
                                 /\ Right(TftpLastBlock * TftpBlkSize)
        /\ Active => /\ TftpBlock <= sess[TftpServerPort].sent
                     /\ Right(TftpBlock * TftpBlkSize)
    BY DEF IInv, DataInv, LockedOK
  <2>2. Active => TftpBlock <= sess'[TftpServerPort].sent
    <3>1. TftpBlock \in Int /\ sess[TftpServerPort].sent \in Nat
      BY <2>1, OpenedFacts, TftpAssumption DEF IInv, TypeOK, TftpTypeOK, Numbers
    <3> QED BY <3>1, <2>1
  <2> QED BY <2>1, <2>2, <1>1 DEF LockedOK, Opened, Active, Right
<1>8. StartOK' /\ ImageOK' /\ SuccessMeansWholeFile'
  BY <1>1 DEF IInv, DataInv, StartOK, ImageOK, SuccessMeansWholeFile, Right
<1> QED BY <1>5, <1>6, <1>7, <1>8 DEF DataInv

\* The session the client is settled on.
LEMMA LockedFacts ==
    ASSUME IInv, Locked
    PROVE  /\ TftpServerPort \in Sessions
           /\ Opened(TftpServerPort)
           /\ sess[TftpServerPort].port = TftpOurPort
           /\ sess[TftpServerPort].sent \in Nat
           /\ TftpBlkSize = sess[TftpServerPort].blk
           /\ Right((sess[TftpServerPort].sent - 1) * TftpBlkSize)
BY OpenedFacts DEF IInv, DataInv, LockedOK

\* A server answers a request: a new session.
LEMMA OpenStep ==
    ASSUME IInv, NEW s \in Sessions, NEW m \in toServer, ServerOpen(s, m)
    PROVE  DataInv'
<1>1. PICK r, x :
          /\ r \in SessionRecords
          /\ sess' = [sess EXCEPT ![s] = r]
          /\ toClient' = toClient \cup {x}
          /\ r.sent <= 1
          /\ r.sent = 1 => r.blk = TFTP_BLOCK_SIZE
          /\ x.sid = s /\ x.port = r.port
          /\ \/ \E z \in OackBlkSizes :
                   /\ x = Oack(r.port, s, z)
                   /\ r.blk = IF z = NoOption THEN TFTP_BLOCK_SIZE ELSE z
             \/ r.sent = 1 /\ x = Data(r.port, s, r.blk, 1)
             \/ x = Error(r.port, s)
  <2>1. m.port \in Ports
    BY DEF ServerOpen, IInv, TypeOK, NetTypeOK, UpPackets
  <2>2. TFTP_BLOCK_SIZE \in BlkSizes /\ \A z \in OackBlkSizes : z # NoOption => z \in BlkSizes
    BY DEF BlkSizes
  <2>3. CASE \E z \in OackBlkSizes :
             /\ sess' = [sess EXCEPT ![s] =
                   [st |-> "oack", port |-> m.port, sent |-> 0,
                    blk |-> IF z = NoOption THEN TFTP_BLOCK_SIZE ELSE z]]
             /\ toClient' = toClient \cup {Oack(m.port, s, z)}
    <3> PICK z \in OackBlkSizes :
             /\ sess' = [sess EXCEPT ![s] =
                   [st |-> "oack", port |-> m.port, sent |-> 0,
                    blk |-> IF z = NoOption THEN TFTP_BLOCK_SIZE ELSE z]]
             /\ toClient' = toClient \cup {Oack(m.port, s, z)}
      BY <2>3
    <3> DEFINE r == [st |-> "oack", port |-> m.port, sent |-> 0,
                     blk |-> IF z = NoOption THEN TFTP_BLOCK_SIZE ELSE z]
    <3> DEFINE x == Oack(m.port, s, z)
    <3>1. r \in SessionRecords
      BY <2>1, <2>2 DEF SessionRecords
    <3>2. /\ sess' = [sess EXCEPT ![s] = r]
          /\ toClient' = toClient \cup {x}
          /\ r.sent <= 1
          /\ r.sent = 1 => r.blk = TFTP_BLOCK_SIZE
          /\ x.sid = s /\ x.port = r.port
      BY DEF Oack
    <3>3. x = Oack(r.port, s, z) /\ r.blk = IF z = NoOption THEN TFTP_BLOCK_SIZE ELSE z
      OBVIOUS
    <3> HIDE DEF r, x
    <3> QED BY <3>1, <3>2, <3>3
  <2>4. CASE /\ sess' = [sess EXCEPT ![s] =
                   [st |-> "data", port |-> m.port, blk |-> TFTP_BLOCK_SIZE,
                    sent |-> 1]]
             /\ toClient' = toClient \cup {Data(m.port, s, TFTP_BLOCK_SIZE, 1)}
    <3> DEFINE r == [st |-> "data", port |-> m.port, blk |-> TFTP_BLOCK_SIZE,
                     sent |-> 1]
    <3> DEFINE x == Data(m.port, s, TFTP_BLOCK_SIZE, 1)
    <3>1. r \in SessionRecords
      BY <2>1, <2>2 DEF SessionRecords
    <3>2. /\ sess' = [sess EXCEPT ![s] = r]
          /\ toClient' = toClient \cup {x}
          /\ r.sent <= 1
          /\ r.sent = 1 => r.blk = TFTP_BLOCK_SIZE
          /\ x.sid = s /\ x.port = r.port
      BY <2>4 DEF Data
    <3>3. r.sent = 1 /\ x = Data(r.port, s, r.blk, 1)
      OBVIOUS
    <3> HIDE DEF r, x
    <3> QED BY <3>1, <3>2, <3>3
  <2>5. CASE /\ sess' = [sess EXCEPT ![s] =
                   [st |-> "dead", port |-> m.port, blk |-> TFTP_BLOCK_SIZE,
                    sent |-> 0]]
             /\ toClient' = toClient \cup {Error(m.port, s)}
    <3> DEFINE r == [st |-> "dead", port |-> m.port, blk |-> TFTP_BLOCK_SIZE,
                     sent |-> 0]
    <3> DEFINE x == Error(m.port, s)
    <3>1. r \in SessionRecords
      BY <2>1, <2>2 DEF SessionRecords
    <3>2. /\ sess' = [sess EXCEPT ![s] = r]
          /\ toClient' = toClient \cup {x}
          /\ r.sent <= 1
          /\ r.sent = 1 => r.blk = TFTP_BLOCK_SIZE
          /\ x.sid = s /\ x.port = r.port
      BY <2>5 DEF Error
    <3>3. x = Error(r.port, s)
      OBVIOUS
    <3> HIDE DEF r, x
    <3> QED BY <3>1, <3>2, <3>3
  <2> QED BY <2>3, <2>4, <2>5 DEF ServerOpen
<1>2. /\ sess[s].st = "free"
      /\ UNCHANGED serverVars
      /\ UNCHANGED <<TftpState, TftpOurPort>>
      /\ toServer' \subseteq toServer
  BY DEF ServerOpen, Taken, serverVars, tftpVars
<1>3. /\ sess' \in [Sessions -> SessionRecords \cup {NoSession}]
      /\ sess'[s] = r
      /\ \A t \in Sessions : t # s => sess'[t] = sess[t]
  BY <1>1 DEF IInv, TypeOK, TftpTypeOK
<1>4. \A y \in toClient' : DownOK(y)'
  <2>1. ASSUME NEW y \in toClient PROVE DownOK(y)'
    <3>1. DownOK(y) /\ y.sid # s
      BY <1>2 DEF IInv, DataInv, DownOK, Opened
    <3> QED BY <3>1, <1>3 DEF DownOK, Opened
  <2>2. DownOK(x)'
    <3>1. r.st # "free"
      BY <1>1 DEF SessionRecords
    <3> QED BY <3>1, <1>1, <1>3 DEF DownOK, Opened
  <2> QED BY <2>1, <2>2, <1>1
<1>5. \A t \in Sessions : SessionOK(t)' /\ UnlockedOK(t)'
  <2>1. 1 <= BlockCount(r.blk) /\ BlockCount(r.blk) \in Nat /\ r.sent \in Nat
    <3>1. r.blk \in Nat \ {0} /\ r.sent \in Nat
      BY <1>1, BlkSizeFacts DEF SessionRecords
    <3> QED BY <3>1, BlockCountNat
  <2>2. SessionOK(s)' /\ UnlockedOK(s)'
    BY <2>1, <1>1, <1>3 DEF SessionOK, UnlockedOK
  <2>3. ASSUME NEW t \in Sessions, t # s PROVE SessionOK(t)' /\ UnlockedOK(t)'
    BY <2>3, <1>2, <1>3 DEF IInv, DataInv, SessionOK, UnlockedOK, Opened, Locked
  <2> QED BY <2>2, <2>3
<1>6. Locked => /\ TftpServerPort \in Sessions
                /\ Opened(TftpServerPort)
                /\ sess'[TftpServerPort] = sess[TftpServerPort]
                /\ sess[TftpServerPort].sent \in Nat
                /\ Right((sess[TftpServerPort].sent - 1) * TftpBlkSize)
  BY <1>2, <1>3, LockedFacts DEF Opened
<1> QED BY <1>2, <1>3, <1>4, <1>5, <1>6, EnvironmentStep DEF Opened

\* A session goes on to its next block.  An acknowledgement of the current
\* attempt comes from a client that has stored all blocks before it.
LEMMA AckStep ==
    ASSUME IInv, NoWrap, NEW s \in Sessions, NEW m \in toServer, ServerAck(s, m)
    PROVE  DataInv'
<1>0. PICK r, x : /\ r = [st |-> "data", port |-> m.port, blk |-> sess[s].blk,
                             sent |-> sess[s].sent + 1]
                  /\ x = Data(m.port, s, sess[s].blk, sess[s].sent + 1)
  OBVIOUS
<1>1. /\ m.type = "ACK" /\ m.sid = s /\ m.port = sess[s].port
      /\ Opened(s)
      /\ m.seq = sess[s].sent % TFTP_SEQUENCE_SIZE
      /\ sess[s].sent < BlockCount(sess[s].blk)
      /\ toServer' \subseteq toServer
      /\ sess' = [sess EXCEPT ![s] = r]
      /\ toClient' = toClient \cup {x}
      /\ UNCHANGED serverVars
      /\ UNCHANGED <<TftpState, TftpOurPort>>
  BY <1>0 DEF ServerAck, Opened, Taken, serverVars, tftpVars
<1>2. /\ sess[s] \in SessionRecords
      /\ sess[s].blk \in BlkSizes
      /\ sess[s].sent \in Nat
      /\ BlockCount(sess[s].blk) \in Nat
  BY <1>1, OpenedFacts, BlockCountNat
<1>3. m.seq = sess[s].sent
  <2>1. BlockCount(sess[s].blk) < TFTP_SEQUENCE_SIZE
    BY <1>2 DEF NoWrap
  <2> QED BY <2>1, <1>1, <1>2, TftpAssumption, SMT
<1>4. /\ r \in SessionRecords
      /\ r.st = "data" /\ r.port = sess[s].port /\ r.blk = sess[s].blk
      /\ r.sent = sess[s].sent + 1
  BY <1>0, <1>1, <1>2, OpenedFacts DEF SessionRecords
<1>5. /\ sess' \in [Sessions -> SessionRecords \cup {NoSession}]
      /\ sess'[s] = r
      /\ \A t \in Sessions : t # s => sess'[t] = sess[t]
  BY <1>1, <1>4 DEF IInv, TypeOK, TftpTypeOK
<1>6. \A y \in toClient' : DownOK(y)'
  <2>1. ASSUME NEW y \in toClient, y.sid # s PROVE DownOK(y)'
    BY <2>1, <1>5 DEF IInv, DataInv, DownOK, Opened
  <2>2. ASSUME NEW y \in toClient, y.sid = s PROVE DownOK(y)'
    <3>1. DownOK(y)
      BY DEF IInv, DataInv
    <3>2. CASE \E i \in 1..sess[s].sent : y = Data(y.port, s, sess[s].blk, i)
      <4>1. PICK i \in 1..sess[s].sent : y = Data(y.port, s, sess[s].blk, i)
        BY <3>2
      <4>2. i \in 1..r.sent
        BY <1>2, <1>4
      <4> QED BY <2>2, <3>1, <4>1, <4>2, <1>4, <1>5 DEF DownOK, Opened
    <3> QED BY <2>2, <3>1, <3>2, <1>4, <1>5 DEF DownOK, Opened
  <2>3. DownOK(x)'
    <3>1. x.sid = s /\ x.port = m.port
      BY <1>0 DEF Data
    <3>2. x = Data(x.port, s, r.blk, r.sent) /\ r.sent \in 1..r.sent
      BY <3>1, <1>0, <1>2, <1>4
    <3> QED BY <3>1, <3>2, <1>1, <1>4, <1>5 DEF DownOK, Opened
  <2> QED BY <2>1, <2>2, <2>3, <1>1
<1>7. m.port = TftpOurPort => Locked /\ s = TftpServerPort /\ Right(sess[s].sent * TftpBlkSize)
  BY <1>1, <1>3 DEF IInv, DataInv, UpOK
<1>8. \A t \in Sessions : SessionOK(t)' /\ UnlockedOK(t)'
  <2>1. SessionOK(s)'
    BY <1>1, <1>2, <1>4, <1>5 DEF SessionOK
  <2>2. UnlockedOK(s)'
    BY <1>1, <1>4, <1>5, <1>7 DEF UnlockedOK, Locked
  <2>3. ASSUME NEW t \in Sessions, t # s PROVE SessionOK(t)' /\ UnlockedOK(t)'
    BY <2>3, <1>1, <1>5 DEF IInv, DataInv, SessionOK, UnlockedOK, Opened, Locked
  <2> QED BY <2>1, <2>2, <2>3
<1>9. ASSUME Locked
      PROVE  /\ sess'[TftpServerPort].st # "free"
             /\ sess'[TftpServerPort].port = sess[TftpServerPort].port
             /\ sess'[TftpServerPort].blk = sess[TftpServerPort].blk
             /\ sess[TftpServerPort].sent <= sess'[TftpServerPort].sent
             /\ sess'[TftpServerPort].sent \in Nat
             /\ Right((sess'[TftpServerPort].sent - 1) * TftpBlkSize)
  <2>1. CASE s = TftpServerPort
    <3>1. m.port = TftpOurPort
      BY <2>1, <1>1, <1>9, LockedFacts
    <3>2. sess'[TftpServerPort].sent - 1 = sess[s].sent
      BY <2>1, <1>2, <1>4, <1>5
    <3>3. Right(sess[s].sent * TftpBlkSize)
      BY <3>1, <1>7
    <3> QED BY <2>1, <3>2, <3>3, <1>2, <1>4, <1>5
  <2>2. CASE s # TftpServerPort
    BY <2>2, <1>5, <1>9, LockedFacts DEF Opened
  <2> QED BY <2>1, <2>2
<1> QED BY <1>1, <1>5, <1>6, <1>8, <1>9, EnvironmentStep

\* A server gives up.
LEMMA AbortStep ==
    ASSUME IInv, NEW s \in Sessions, ServerAbort(s)
    PROVE  DataInv'
<1>0. PICK r, x : /\ r = [st |-> "dead", port |-> sess[s].port,
                          blk |-> sess[s].blk, sent |-> sess[s].sent]
                  /\ x = Error(sess[s].port, s)
  OBVIOUS
<1>1. /\ Opened(s)
      /\ toClient' = toClient \cup {x}
      /\ UNCHANGED serverVars
      /\ UNCHANGED <<TftpState, TftpOurPort, toServer>>
  BY <1>0 DEF ServerAbort, Opened, serverVars, tftpVars
<1>2. sess[s] \in SessionRecords /\ r \in SessionRecords
  BY <1>0, <1>1, OpenedFacts DEF SessionRecords
<1>3. /\ sess' \in [Sessions -> SessionRecords \cup {NoSession}]
      /\ \A t \in Sessions : t # s => sess'[t] = sess[t]
      /\ sess'[s] = r
  <2>1. sess'[s] = r
    BY <1>0, <1>2 DEF ServerAbort, IInv, TypeOK, TftpTypeOK, SessionRecords
  <2>2. \A t \in Sessions : t # s => sess'[t] = sess[t]
    BY DEF ServerAbort, IInv, TypeOK, TftpTypeOK
  <2>3. sess' = [t \in Sessions |-> sess'[t]]
    BY DEF ServerAbort, IInv, TypeOK, TftpTypeOK
  <2> QED BY <2>1, <2>2, <2>3, <1>2 DEF IInv, TypeOK, TftpTypeOK
<1>4. /\ r.st = "dead" /\ r.port = sess[s].port /\ r.blk = sess[s].blk
      /\ r.sent = sess[s].sent
  BY <1>0
<1>5. \A y \in toClient' : DownOK(y)'
  <2>1. ASSUME NEW y \in toClient PROVE DownOK(y)'
    BY <1>3, <1>4 DEF IInv, DataInv, DownOK, Opened
  <2>2. DownOK(x)'
    BY <1>0, <1>3, <1>4 DEF DownOK, Opened, Error
  <2> QED BY <2>1, <2>2, <1>1
<1>6. \A t \in Sessions : SessionOK(t)' /\ UnlockedOK(t)'
  BY <1>1, <1>2, <1>3, <1>4 DEF IInv, DataInv, SessionOK, UnlockedOK, Opened, Locked,
                                NoSession
<1>7. ASSUME Locked
      PROVE  /\ sess'[TftpServerPort].st # "free"
             /\ sess'[TftpServerPort].port = sess[TftpServerPort].port
             /\ sess'[TftpServerPort].blk = sess[TftpServerPort].blk
             /\ sess[TftpServerPort].sent = sess'[TftpServerPort].sent
             /\ sess[TftpServerPort].sent \in Nat
             /\ Right((sess[TftpServerPort].sent - 1) * TftpBlkSize)
  BY <1>3, <1>4, <1>7, LockedFacts DEF Opened
<1> QED BY <1>1, <1>3, <1>5, <1>6, <1>7, EnvironmentStep

\* The packets and sessions of a finished attempt leave the network; the
\* current attempt has another port.
LEMMA ExpireStep ==
    ASSUME IInv, NEW p \in Ports, Expire(p)
    PROVE  DataInv'
<1>1. /\ p # TftpOurPort
      /\ toServer' \subseteq toServer
      /\ \A y \in toClient' : y \in toClient /\ y.port # p
      /\ UNCHANGED serverVars
      /\ UNCHANGED <<TftpState, TftpOurPort>>
      /\ \A t \in Sessions : sess[t].port = p => sess'[t] = NoSession
      /\ \A t \in Sessions : sess[t].port # p => sess'[t] = sess[t]
      /\ sess' \in [Sessions -> SessionRecords \cup {NoSession}]
  BY DEF Expire, serverVars, tftpVars, IInv, TypeOK, TftpTypeOK
<1>2. \A y \in toClient' : DownOK(y)'
  BY <1>1 DEF IInv, DataInv, DownOK, Opened
<1>3. \A t \in Sessions : SessionOK(t)' /\ UnlockedOK(t)'
  <2>1. ASSUME NEW t \in Sessions, sess[t].port = p PROVE SessionOK(t)' /\ UnlockedOK(t)'
    BY <2>1, <1>1 DEF SessionOK, UnlockedOK, Opened, NoSession
  <2>2. ASSUME NEW t \in Sessions, sess[t].port # p PROVE SessionOK(t)' /\ UnlockedOK(t)'
    BY <2>2, <1>1 DEF IInv, DataInv, SessionOK, UnlockedOK, Opened, Locked
  <2> QED BY <2>1, <2>2
<1>4. ASSUME Locked
      PROVE  /\ sess'[TftpServerPort].st # "free"
             /\ sess'[TftpServerPort] = sess[TftpServerPort]
             /\ sess[TftpServerPort].sent \in Nat
             /\ Right((sess[TftpServerPort].sent - 1) * TftpBlkSize)
  BY <1>1, <1>4, LockedFacts DEF Opened
<1> QED BY <1>1, <1>2, <1>3, <1>4, EnvironmentStep

\* NetLoop is called and gives up before the loop.
LEMMA CallFailsStep ==
    ASSUME IInv, NetLoopCallFails
    PROVE  DataInv'
<1>1. /\ UNCHANGED transfer
      /\ UNCHANGED <<toClient, toServer, packetHandler>>
      /\ NetState' \in {NetState, "CONTINUE"}
      /\ eth' = "down"
  BY DEF NetLoopCallFails, transfer, tftpVars
<1>4. DataInv'
  <2>1. \A m \in toServer : UpOK(m)
    BY DEF IInv, DataInv
  <2> QED BY <1>1, <2>1, DataFrame DEF Active
<1> QED BY <1>4

-----------------------------------------------------------------------------
(***************************************************************************)
(* The theorems.                                                           *)
(***************************************************************************)

\* Every step keeps the invariant.
LEMMA IInvStep == NoWrap /\ TypeInv /\ IInv /\ [Next]_vars => IInv'
<1> SUFFICES ASSUME NoWrap, IInv, [Next]_vars PROVE DataInv'
  BY TypeInvStep DEF IInv, TypeInv
<1>1. CASE NetPass /\ UNCHANGED <<tftpVars, mem, sess>>
  BY <1>1, QuietSteps, ArpReplyStep
<1>2. CASE NetLoopCall
  BY <1>2, RestartStep DEF NetLoopCall
<1>3. CASE SwitchRestart
  <2>1. eth' = "up" /\ netretry' \in NetRetryValues
    BY <1>3 DEF SwitchRestart, IInv, LoopInv, TypeOK, NetTypeOK
  <2> QED BY <2>1, <1>3, RestartStep DEF SwitchRestart
<1>4. CASE NetLoopCallFails \/ TftpTimeout
  BY <1>4, CallFailsStep, TimeoutStep
<1>5. CASE \E m \in toClient : TftpHandler(m)
  BY <1>5, UnacceptedStep, OackStep, FirstNotOneStep, SameBlockStep, BlockStep
     DEF TftpHandler
<1>6. CASE ServerStep
  BY <1>6, OpenStep, AckStep, AbortStep DEF ServerStep
<1>7. CASE \E p \in Ports : Expire(p)
  BY <1>7, ExpireStep
<1>8. CASE UNCHANGED vars
  <2>1. UNCHANGED <<serverVars, toServer, toClient, sess>>
    BY <1>8 DEF vars, netVars, serverVars
  <2>3. UNCHANGED <<transfer, NetState, packetHandler, eth, NetArpWaitTxPacket>>
    BY <2>1 DEF transfer, serverVars, loopVars, arpVars, tftpVars
  <2>4. /\ \A m \in toServer : UpOK(m)
        /\ eth = "up" => UpOK(NetArpWaitTxPacket)
    BY DEF IInv, DataInv
  <2>5. DataInv'
    BY <2>1, <2>3, <2>4, DataFrame DEF Active
  <2> QED BY <2>5
<1> QED BY <1>1, <1>2, <1>3, <1>4, <1>5, <1>6, <1>7, <1>8 DEF Next, ClientStep

\* The invariant holds when U-Boot starts.
LEMMA IInvInit == Init => IInv
<1> SUFFICES ASSUME Init PROVE IInv
  OBVIOUS
<1>4. DataInv
  BY TftpAssumption
     DEF Init, DataInv, SessionOK, UnlockedOK, Opened, NoSession, LockedOK, Locked,
         StartOK, ImageOK, Right, SuccessMeansWholeFile
<1> QED BY <1>4, TypeInvInit DEF IInv, TypeInv

\* However the wire loses, delays or repeats packets: when TftpHandler
\* reports success the whole file is in RAM and its length is right, as long
\* as the file has fewer blocks than there are block numbers.
THEOREM DownloadCorrect == ASSUME NoWrap PROVE Spec => []SuccessMeansWholeFile
<1>1. TypeInv /\ IInv /\ [Next]_vars => IInv'
  BY IInvStep
<1>2. IInv => SuccessMeansWholeFile
  BY DEF IInv, DataInv
<1> QED BY <1>1, <1>2, IInvInit, TypeInvInit, TypeInvStep, PTL DEF Spec

\* TftpSend never acknowledges a block that store_block has not stored.
THEOREM AcksHonest == ASSUME NoWrap PROVE Spec => []AckedIsStored
<1>1. TypeInv /\ IInv /\ [Next]_vars => IInv'
  BY IInvStep
<1>2. IInv => AckedIsStored
  BY DEF IInv, DataInv, UpOK, AckedIsStored
<1> QED BY <1>1, <1>2, IInvInit, TypeInvInit, TypeInvStep, PTL DEF Spec

-----------------------------------------------------------------------------
(***************************************************************************)
(* The sizes NetLoop exports.                                              *)
(***************************************************************************)

\* A product is a multiple: % in terms of \div.
LEMMA MultipleMod ==
    ASSUME NEW k \in Int, NEW z \in Nat \ {0}
    PROVE  (k * z) % z = 0
<1> DEFINE r == (k * z) % z
           q == (k * z) \div z
<1>1. k * z \in Int
  BY SMT
<1>2. r \in 0..(z - 1) /\ q \in Int /\ k * z = z * q + r
  BY <1>1, SMT
<1> HIDE DEF r, q
<1>3. r = (k - q) * z
  BY <1>2, SMT
<1>4. k - q = 0
  <2>1. ASSUME k - q >= 1 PROVE FALSE
    <3>1. 1 * z <= (k - q) * z
      BY <1>2, <2>1, ProductMono
    <3> QED BY <1>2, <1>3, <3>1
  <2>2. ASSUME k - q <= -1 PROVE FALSE
    <3>1. (k - q) * z <= (-1) * z
      BY <1>2, <2>2, ProductMono
    <3> QED BY <1>2, <1>3, <3>1
  <2> QED BY <1>2, <2>1, <2>2
<1>5. r = 0
  BY <1>3, <1>4
<1> QED BY <1>5 DEF r

\* RoundToErase is the least multiple of the erase size that holds n.
LEMMA RoundFacts ==
    ASSUME NEW n \in Nat
    PROVE  /\ RoundToErase(n) \in Int
           /\ RoundToErase(n) % EraseSize = 0
           /\ RoundToErase(n) - n \in 0..(EraseSize - 1)
<1> DEFINE q == n \div EraseSize
           r == n % EraseSize
<1>1. /\ q \in Nat
      /\ r \in 0..(EraseSize - 1)
      /\ n = q * EraseSize + r
  BY NetAssumption, SMT
<1>2. CASE r = 0
  BY <1>2, NetAssumption DEF RoundToErase
<1>3. CASE r # 0
  <2>1. RoundToErase(n) = (q + 1) * EraseSize
    BY <1>3 DEF RoundToErase
  <2> HIDE DEF q, r
  <2>2. ((q + 1) * EraseSize) % EraseSize = 0
    BY <1>1, NetAssumption, MultipleMod
  <2>3. (q + 1) * EraseSize = q * EraseSize + EraseSize /\ q * EraseSize \in Int
    BY <1>1, NetAssumption, SMT
  <2> QED BY <2>1, <2>2, <2>3, <1>1, <1>3, NetAssumption
<1> QED BY <1>2, <1>3

\* "filesize" is the size NetLoop returned and "filesize+1" the erase blocks
\* it needs.
THEOREM SizesCorrect == Spec => []ExportedSizes
<1>1. Init => ExportedSizes
  BY DEF Init, ExportedSizes
<1>2. TypeInv /\ ExportedSizes /\ [Next]_vars => ExportedSizes'
  <2> SUFFICES ASSUME TypeInv, ExportedSizes, [Next]_vars PROVE ExportedSizes'
    OBVIOUS
  <2>1. CASE SwitchSuccess
    <3>1. NetBootFileXferSize \in Nat
      BY DEF TypeInv, TypeOK, NetTypeOK
    <3>2. CASE NetBootFileXferSize > 0
      BY <2>1, <3>1, <3>2, RoundFacts DEF SwitchSuccess, ExportedSizes
    <3>3. CASE NetBootFileXferSize <= 0
      BY <2>1, <3>1, <3>3 DEF SwitchSuccess, ExportedSizes
    <3> QED BY <3>1, <3>2, <3>3
  <2>2. CASE ~SwitchSuccess
    <3>1. UNCHANGED <<filesize, filesizeRounded>> /\ result' \in {result, -1}
      <4> USE DEF envVars
      <4>1. CASE NetPass
        BY <4>1, <2>2 DEF NetPass, RxNothing, RxArpReply, RxWhileWaiting, ArpAnswer, CtrlC,
                 ArpQuiet, ArpTimeout, TimerQuiet, StartAgainTimeout, SwitchContinue,
                 SwitchFail
      <4>2. CASE NetLoopCall \/ NetLoopCallFails \/ SwitchRestart \/ TftpTimeout
        BY <4>2 DEF NetLoopCall, NetLoopCallFails, SwitchRestart, TftpTimeout
      <4>3. CASE \E m \in toClient : TftpHandler(m)
        BY <4>3 DEF TftpHandler, RxUnaccepted, RxOack, RxError, RxFirstNotOne,
                 RxSameBlock, RxBlock, DataHeader, Receive
      <4>4. CASE ServerStep \/ \E p \in Ports : Expire(p)
        BY <4>4 DEF ServerStep, ServerOpen, ServerAck, ServerAbort, Expire, serverVars
      <4>5. CASE UNCHANGED vars
        BY <4>5 DEF vars, netVars
      <4> QED BY <4>1, <4>2, <4>3, <4>4, <4>5 DEF Next, ClientStep
    <3> QED BY <3>1 DEF ExportedSizes
  <2> QED BY <2>1, <2>2
<1> QED BY <1>1, <1>2, TypeInvInit, TypeInvStep, PTL DEF Spec

-----------------------------------------------------------------------------
(***************************************************************************)
(* The packet parked for ARP.                                              *)
(***************************************************************************)

\* Every step keeps the parked packet the request of the current attempt.
LEMMA ParkedInvStep == ParkedInv /\ [Next]_vars => ParkedInv'
<1> SUFFICES ASSUME ParkedInv, [Next]_vars PROVE ParkedInv'
  OBVIOUS
<1> USE DEF ParkedInv, loopVars, arpVars, envVars, tftpVars
<1>1. CASE NetPass /\ UNCHANGED <<tftpVars, mem, sess>>
  <2>1. CASE RxNothing \/ ArpQuiet \/ TimerQuiet
    <3>1. /\ UNCHANGED <<packetHandler, NetServerEther, NetArpWaitTxPacket, TftpState,
                         TftpOurPort, toServer, toClient, sess>>
          /\ pc # "idle"
      BY <1>1, <2>1 DEF RxNothing, ArpQuiet, TimerQuiet
    <3> QED BY <3>1 DEF PortIdle
  <2>2. CASE ArpAnswer
    <3>1. UNCHANGED <<pc, packetHandler, NetServerEther, NetArpWaitTxPacket, TftpState,
                      TftpOurPort, toServer, toClient, sess>>
      BY <1>1, <2>2 DEF ArpAnswer
    <3> QED BY <3>1 DEF PortIdle
  <2>3. CASE RxWhileWaiting
    BY <1>1, <2>3 DEF RxWhileWaiting
  <2>4. CASE RxArpReply
    BY <1>1, <2>4 DEF RxArpReply, PortIdle
  <2>5. CASE ArpTimeout
    BY <1>1, <2>5 DEF ArpTimeout, NetStartAgain, PortIdle
  <2>6. CASE CtrlC \/ StartAgainTimeout \/ SwitchContinue \/ SwitchSuccess \/ SwitchFail
    BY <1>1, <2>6 DEF CtrlC, StartAgainTimeout, SwitchContinue, SwitchSuccess,
                      SwitchFail, PortIdle
  <2> QED BY <1>1, <2>1, <2>2, <2>3, <2>4, <2>5, <2>6 DEF NetPass
<1>2. CASE NetLoopCall \/ SwitchRestart
  BY <1>2 DEF NetLoopCall, SwitchRestart, Restart, TftpStart, NetSendUDPPacket,
              TftpPacket, PortIdle
<1>3. CASE NetLoopCallFails
  BY <1>3 DEF NetLoopCallFails
<1>4. CASE TftpTimeout
  BY <1>4 DEF TftpTimeout, NetStartAgain, TftpSend, NetSendUDPPacket, TftpPacket, PortIdle
<1>5. CASE \E m \in toClient : TftpHandler(m)
  <2> PICK m \in toClient : TftpHandler(m)
    BY <1>5
  <2>1. CASE TftpAccepts(m)
    <3>1. packetHandler = "tftp" /\ pc = "rx"
      BY DEF TftpHandler, RxUnaccepted, RxOack, RxError, RxFirstNotOne, RxSameBlock,
             RxBlock, DataHeader, Receive
    <3>2. NetServerEther = "known" /\ NetArpWaitTxPacket = NoPacket
      BY <2>1, <3>1 DEF TftpAccepts, PortIdle
    <3>3. NetServerEther' = "known" /\ NetArpWaitTxPacket' = NoPacket /\ UNCHANGED sess
      BY <2>1, <3>2 DEF TftpHandler, RxUnaccepted, RxOack, RxError, RxFirstNotOne,
             RxSameBlock, RxBlock, DataHeader, Receive, TftpSend, NetSendUDPPacket
    <3> QED BY <3>3
  <2>2. CASE RxUnaccepted(m)
    BY <2>2 DEF RxUnaccepted, Receive, Taken, PortIdle
  <2> QED BY <2>1, <2>2 DEF TftpHandler, RxOack, RxError, RxFirstNotOne, RxSameBlock,
                            RxBlock, DataHeader
<1>6. CASE ServerStep
  <2>1. UNCHANGED serverVars
    BY <1>6 DEF ServerStep, ServerOpen, ServerAck, ServerAbort
  <2>2. DOMAIN sess' = Sessions
    BY <1>6 DEF ServerStep, ServerOpen, ServerAck, ServerAbort
  <2>3. ASSUME PortIdle(TftpOurPort) PROVE PortIdle(TftpOurPort)'
    <3>1. ASSUME NEW s \in Sessions, NEW m \in toServer, ServerOpen(s, m)
          PROVE  PortIdle(TftpOurPort)'
      <4>1. /\ toServer' \subseteq toServer
            /\ \A x \in toClient' : x \in toClient \/ x.port = m.port
            /\ \A t \in Sessions : sess'[t] = sess[t] \/ sess'[t].port = m.port
        BY <3>1 DEF ServerOpen, Taken, Oack, Data, Error
      <4> QED BY <4>1, <2>1, <2>3 DEF PortIdle, serverVars
    <3>2. ASSUME NEW s \in Sessions, NEW m \in toServer, ServerAck(s, m)
          PROVE  PortIdle(TftpOurPort)'
      <4>1. /\ toServer' \subseteq toServer
            /\ \A x \in toClient' : x \in toClient \/ x.port = m.port
            /\ \A t \in Sessions : sess'[t] = sess[t] \/ sess'[t].port = m.port
        BY <3>2 DEF ServerAck, Taken, Data
      <4> QED BY <4>1, <2>1, <2>3 DEF PortIdle, serverVars
    <3>3. ASSUME NEW s \in Sessions, ServerAbort(s)
          PROVE  PortIdle(TftpOurPort)'
      <4>1. /\ UNCHANGED toServer
            /\ \A x \in toClient' : x \in toClient \/ x.port = sess[s].port
            /\ \A t \in Sessions : sess'[t].port = sess[t].port
        BY <3>3 DEF ServerAbort, Error
      <4> QED BY <4>1, <2>1, <2>3 DEF PortIdle, serverVars
    <3> QED BY <1>6, <3>1, <3>2, <3>3 DEF ServerStep
  <2> QED BY <2>1, <2>2, <2>3 DEF serverVars
<1>7. CASE \E p \in Ports : Expire(p)
  <2> PICK p \in Ports : Expire(p)
    BY <1>7
  <2>1. /\ toServer' \subseteq toServer
        /\ toClient' \subseteq toClient
        /\ DOMAIN sess' = Sessions
        /\ p # TftpOurPort
        /\ \A t \in Sessions : \/ sess'[t] = sess[t]
                               \/ sess'[t] = NoSession /\ sess[t].port = p
        /\ UNCHANGED serverVars
    BY DEF Expire
  <2>2. PortIdle(TftpOurPort) /\ TftpOurPort # NoPort => PortIdle(TftpOurPort)'
    BY <2>1 DEF PortIdle, NoSession, serverVars
  <2> QED BY <2>1, <2>2, TftpAssumption DEF serverVars, NoPort
<1>8. CASE UNCHANGED vars
  BY <1>8 DEF vars, netVars, PortIdle
<1> QED BY <1>1, <1>2, <1>3, <1>4, <1>5, <1>6, <1>7, <1>8 DEF Next, ClientStep

\* The packet ARP holds back is never one of an earlier attempt, nor an ACK.
THEOREM ParkedSafety == Spec => []ParkedIsCurrent
<1>1. Init => ParkedInv
  BY DEF Init, ParkedInv
<1>2. ParkedInv => ParkedIsCurrent
  BY DEF ParkedInv, ParkedIsCurrent
<1> QED BY <1>1, <1>2, ParkedInvStep, PTL DEF Spec

-----------------------------------------------------------------------------
(***************************************************************************)
(* The download implements module Download.                                *)
(***************************************************************************)

\* Intervals from 0 are nested.
LEMMA Subrange ==
    ASSUME NEW a \in Int, NEW b \in Int, a <= b
    PROVE  0..(a - 1) \subseteq 0..(b - 1)
OBVIOUS

\* A right beginning of RAM is a beginning of the file.
LEMMA PrefixOfFile ==
    ASSUME NEW n \in Nat, n <= FileLen,
           NEW f \in [0..(FileLen - 1) -> Int],
           \A u \in 0..(FileLen - 1) : u < n => f[u] = u
    PROVE  [u \in 0..(n - 1) |-> IF u \in DOMAIN f THEN f[u] ELSE Unset]
              = [u \in 0..(n - 1) |-> u]
<1>1. \A u \in 0..(n - 1) : u \in 0..(FileLen - 1) /\ f[u] = u
  BY TftpAssumption
<1> QED BY <1>1

\* The image is a beginning of the file.
LEMMA ImagePrefix ==
    ImageInv => /\ image = D!Prefix(NetBootFileXferSize)
                /\ NetBootFileXferSize \in Nat /\ NetBootFileXferSize <= FileLen
<1> SUFFICES ASSUME ImageInv
             PROVE  /\ image = D!Prefix(NetBootFileXferSize)
                    /\ NetBootFileXferSize \in Nat /\ NetBootFileXferSize <= FileLen
  OBVIOUS
<1>1. /\ NetBootFileXferSize \in Nat
      /\ NetBootFileXferSize <= FileLen
      /\ Right(NetBootFileXferSize)
      /\ mem \in [0..(FileLen - 1) -> Int]
  BY DEF ImageInv, TypeOK, NetTypeOK, TftpTypeOK, ImageOK
<1>2. \A u \in 0..(FileLen - 1) : u < NetBootFileXferSize => mem[u] = u
  BY <1>1 DEF Right
<1> QED BY <1>1, <1>2, PrefixOfFile DEF image, D!Prefix

\* The same after a step.
LEMMA ImagePrefixNext ==
    ImageInv' => /\ image' = D!Prefix(NetBootFileXferSize')
                 /\ NetBootFileXferSize' \in Nat /\ NetBootFileXferSize' <= FileLen
<1> SUFFICES ASSUME ImageInv'
             PROVE  /\ image' = D!Prefix(NetBootFileXferSize')
                    /\ NetBootFileXferSize' \in Nat /\ NetBootFileXferSize' <= FileLen
  OBVIOUS
<1>1. /\ NetBootFileXferSize' \in Nat
      /\ NetBootFileXferSize' <= FileLen
      /\ Right(NetBootFileXferSize)'
      /\ mem' \in [0..(FileLen - 1) -> Int]
  BY DEF ImageInv, TypeOK, NetTypeOK, TftpTypeOK, ImageOK
<1>2. \A u \in 0..(FileLen - 1) : u < NetBootFileXferSize' => mem'[u] = u
  BY <1>1 DEF Right
<1> QED BY <1>1, <1>2, PrefixOfFile DEF image, D!Prefix

\* Only a new block, a new attempt and a return from NetLoop are visible to
\* the caller of the download.
LEMMA DownloadStep ==
    ASSUME ImageInv, ImageInv', [Next]_vars
    PROVE  [D!Next]_<<status, image, result>>
<1>1. /\ image = D!Prefix(NetBootFileXferSize)
      /\ image' = D!Prefix(NetBootFileXferSize')
      /\ NetBootFileXferSize \in Nat /\ NetBootFileXferSize <= FileLen
      /\ NetBootFileXferSize' \in Nat /\ NetBootFileXferSize' <= FileLen
  BY ImagePrefix, ImagePrefixNext
<1> USE DEF loopVars, arpVars, envVars, tftpVars
<1>2. ASSUME UNCHANGED <<status, NetBootFileXferSize, result>>
      PROVE  UNCHANGED <<status, image, result>>
  BY <1>1, <1>2
<1>3. CASE NetPass
  <2>1. CASE RxNothing \/ RxArpReply \/ RxWhileWaiting \/ ArpAnswer
    <3>1. UNCHANGED <<status, NetBootFileXferSize, result>>
      BY <2>1 DEF RxNothing, RxArpReply, RxWhileWaiting, ArpAnswer, status
    <3> QED BY <3>1, <1>2
  <2>2. CASE ArpQuiet \/ TimerQuiet \/ SwitchContinue \/ ArpTimeout \/ StartAgainTimeout
    <3>1. UNCHANGED <<status, NetBootFileXferSize, result>>
      BY <2>2 DEF ArpQuiet, TimerQuiet, SwitchContinue, ArpTimeout, StartAgainTimeout,
                  status
    <3> QED BY <3>1, <1>2
  <2>3. CASE CtrlC \/ SwitchFail
    <3>1. status' = "idle" /\ result' = -1 /\ UNCHANGED NetBootFileXferSize
      BY <2>3 DEF CtrlC, SwitchFail, status
    <3> QED BY <3>1, <1>1 DEF D!Next, D!Fail
  <2>4. CASE SwitchSuccess
    <3>1. /\ status = "loading" /\ status' = "idle"
          /\ NetBootFileXferSize = FileLen
          /\ result' = FileLen /\ UNCHANGED NetBootFileXferSize
      BY <2>4 DEF SwitchSuccess, status, ImageInv, SuccessMeansWholeFile
    <3> QED BY <3>1, <1>1 DEF D!Next, D!Succeed
  <2> QED BY <1>3, <2>1, <2>2, <2>3, <2>4 DEF NetPass
<1>4. CASE NetLoopCall \/ SwitchRestart
  <2>1. status' = "loading" /\ UNCHANGED result /\ NetBootFileXferSize' = 0
    BY <1>4 DEF NetLoopCall, SwitchRestart, Restart, status
  <2> QED BY <2>1, <1>1 DEF D!Next, D!Begin
<1>5. CASE NetLoopCallFails
  <2>1. status' = "idle" /\ result' = -1 /\ UNCHANGED NetBootFileXferSize
    BY <1>5 DEF NetLoopCallFails, status
  <2> QED BY <2>1, <1>1 DEF D!Next, D!Fail
<1>6. CASE TftpTimeout
  <2>1. UNCHANGED <<status, NetBootFileXferSize, result>>
    BY <1>6 DEF TftpTimeout, status
  <2> QED BY <2>1, <1>2
<1>7. CASE \E m \in toClient : TftpHandler(m)
  <2> PICK m \in toClient : TftpHandler(m)
    BY <1>7
  <2>1. Receive(m)
    BY DEF TftpHandler, RxUnaccepted, RxOack, RxError, RxFirstNotOne, RxSameBlock,
           RxBlock, DataHeader
  <2>2. status = "loading" /\ UNCHANGED <<status, result>>
    BY <2>1 DEF Receive, status
  <2>3. CASE RxBlock(m)
    <3>1. NetBootFileXferSize <= NetBootFileXferSize'
      BY <2>3, <1>1 DEF RxBlock, StoreBlock
    <3>2. DOMAIN image \subseteq 0..(NetBootFileXferSize' - 1)
      <4>1. DOMAIN image = 0..(NetBootFileXferSize - 1)
        BY <1>1 DEF D!Prefix
      <4>2. 0..(NetBootFileXferSize - 1) \subseteq 0..(NetBootFileXferSize' - 1)
        <5>1. NetBootFileXferSize \in Int /\ NetBootFileXferSize' \in Int
          BY <1>1
        <5> QED BY <3>1, <5>1, Subrange, Zenon
      <4> QED BY <4>1, <4>2
    <3>3. NetBootFileXferSize' \in 0..FileLen
      BY <1>1, TftpAssumption
    <3> QED BY <2>2, <3>2, <3>3, <1>1 DEF D!Next, D!Extend
  <2>4. CASE ~RxBlock(m)
    <3>1. UNCHANGED NetBootFileXferSize
      BY <2>4 DEF TftpHandler, RxUnaccepted, RxOack, RxError, RxFirstNotOne, RxSameBlock
    <3> QED BY <2>2, <3>1, <1>2
  <2> QED BY <2>3, <2>4
<1>8. CASE ServerStep \/ \E p \in Ports : Expire(p)
  <2>1. UNCHANGED serverVars
    BY <1>8 DEF ServerStep, ServerOpen, ServerAck, ServerAbort, Expire
  <2> QED BY <2>1, <1>2 DEF serverVars, status
<1>9. CASE UNCHANGED vars
  BY <1>9, <1>2 DEF vars, netVars, status
<1> QED BY <1>3, <1>4, <1>5, <1>6, <1>7, <1>8, <1>9 DEF Next, ClientStep

\* The invariant holds all the caller relies on.
LEMMA IInvImage == IInv => ImageInv
BY DEF IInv, DataInv, ImageInv

\* Nothing is loaded when U-Boot starts.
LEMMA DownloadInit == Init => D!Init
<1> SUFFICES ASSUME Init PROVE D!Init
  OBVIOUS
<1>1. image = D!Prefix(NetBootFileXferSize) /\ NetBootFileXferSize = 0
  BY IInvInit, IInvImage, ImagePrefix DEF Init
<1> QED BY <1>1 DEF Init, D!Init, status

\* tftp over NetLoop implements Download for every file with fewer blocks than
\* there are block numbers.
THEOREM Refinement == ASSUME NoWrap PROVE Spec => ImplementsDownload
<1>1. TypeInv /\ IInv /\ [Next]_vars => IInv'
  BY IInvStep
<1>2. ImageInv /\ ImageInv' /\ [Next]_vars => [D!Next]_<<status, image, result>>
  BY DownloadStep
<1> QED BY <1>1, <1>2, DownloadInit, IInvInit, IInvImage, TypeInvInit, TypeInvStep, PTL
   DEF Spec, ImplementsDownload, D!Spec

-----------------------------------------------------------------------------
(***************************************************************************)
(* Files whose block numbers wrap, when no packet is there twice.          *)
(***************************************************************************)

\* Division with remainder is unique.
LEMMA Division ==
    ASSUME NEW b \in Nat, NEW q \in Int, NEW r \in 0..(b - 1),
           NEW p \in Int, NEW s \in 0..(b - 1), b * q + r = b * p + s
    PROVE  r = s /\ q = p
<1>1. ASSUME q < p PROVE FALSE
  <2>1. b * (q + 1) <= b * p
    BY <1>1
  <2>2. b * (q + 1) = b * q + b
    OBVIOUS
  <2> QED BY <2>1, <2>2
<1>2. ASSUME p < q PROVE FALSE
  <2>1. b * (p + 1) <= b * q
    BY <1>2
  <2>2. b * (p + 1) = b * p + b
    OBVIOUS
  <2> QED BY <2>1, <2>2
<1>3. q = p
  BY <1>1, <1>2
<1>4. b * q = b * p /\ b * q \in Int
  BY <1>3
<1> QED BY <1>3, <1>4

\* The block numbers start again from 0 after TFTP_SEQUENCE_SIZE blocks.
LEMMA NextNumber ==
    ASSUME NEW b \in Nat \ {0, 1}, NEW n \in Nat
    PROVE  /\ n \div b \in Nat /\ n % b \in 0..(b - 1)
           /\ n = b * (n \div b) + (n % b)
           /\ \/ /\ (n % b) + 1 < b
                 /\ (n + 1) % b = (n % b) + 1
                 /\ (n + 1) \div b = n \div b
              \/ /\ (n % b) + 1 = b
                 /\ (n + 1) % b = 0
                 /\ (n + 1) \div b = n \div b + 1
<1> DEFINE q == n \div b
           r == n % b
           p == (n + 1) \div b
           s == (n + 1) % b
<1>1. r \in 0..(b - 1) /\ q \in Nat /\ n = b * q + r
  OBVIOUS
<1>2. s \in 0..(b - 1) /\ p \in Nat /\ n + 1 = b * p + s
  OBVIOUS
<1> HIDE DEF r, q, s, p
<1>3. CASE r + 1 < b
  <2> DEFINE t == r + 1
  <2>1. t \in 0..(b - 1)
    BY <1>1, <1>3
  <2>2. b * q + t = b * p + s
    <3>1. b * q \in Int /\ b * p \in Int
      BY <1>1, <1>2
    <3> QED BY <1>1, <1>2, <3>1
  <2> HIDE DEF t
  <2>3. t = s /\ q = p
    BY <2>1, <2>2, <1>1, <1>2, Division
  <2> QED BY <2>3, <1>1, <1>3 DEF t, r, q, s, p
<1>4. CASE r + 1 = b
  <2> DEFINE t == q + 1
  <2>1. b * t = b * q + b /\ b * q \in Int /\ b * p \in Int /\ t \in Int
    BY <1>1, <1>2
  <2>2. b * t + 0 = b * p + s /\ 0 \in 0..(b - 1)
    BY <1>1, <1>2, <1>4, <2>1
  <2>3. b \in Nat /\ p \in Int
    BY <1>2
  <2> HIDE DEF t
  <2>4. 0 = s /\ t = p
    BY ONLY <2>1, <2>2, <2>3, <1>2, Division
  <2> QED BY <2>4, <1>1, <1>4 DEF t, r, q, s, p
<1> QED BY <1>1, <1>3, <1>4

\* Where a block belongs, from its number and the rounds before it.
LEMMA RoundOffset ==
    ASSUME NEW b \in Nat \ {0}, NEW z \in Nat \ {0}, NEW q \in Nat, NEW r \in Nat
    PROVE  /\ r * z + q * (z * b) = (b * q + r) * z
           /\ (0 - 1) * z + (q * (z * b) + z * b) = (b * q + (b - 1)) * z
           /\ (q + 1) * (z * b) = q * (z * b) + z * b
           /\ q * (z * b) \in Nat /\ z * b \in Nat
OBVIOUS

\* The last packet of the server, taken by a client that has the n blocks before
\* it: TftpHandler computes the place of the block from the rounds and the number.
LEMMA NextBlock ==
    ASSUME TypeInv, NEW s \in Sessions, NEW n \in Nat, HasBlocks(s, n),
           sess[s].blk \in BlkSizes, TftpState # "none",
           NEW m, m = Data(TftpOurPort, s, sess[s].blk, n + 1)
    PROVE  /\ m.seq = (n + 1) % TFTP_SEQUENCE_SIZE
           /\ m.from = n * sess[s].blk
           /\ WrapOffset(m.seq) = ((n + 1) \div TFTP_SEQUENCE_SIZE)
                                     * (sess[s].blk * TFTP_SEQUENCE_SIZE)
           /\ StoreOffset(m.seq) = n * sess[s].blk
           /\ ~(FirstData /\ m.seq # 1)
           /\ ~SameBlock(m.seq)
<1> DEFINE b == TFTP_SEQUENCE_SIZE
           z == sess[s].blk
           q == n \div b
           r == n % b
<1>1. b \in Nat \ {0, 1} /\ z \in Nat \ {0} /\ TftpBlkSize = z
  BY TftpAssumption, BlkSizeFacts DEF HasBlocks
<1>2. /\ q \in Nat /\ r \in 0..(b - 1) /\ n = b * q + r
      /\ \/ /\ r + 1 < b
            /\ (n + 1) % b = r + 1
            /\ (n + 1) \div b = q
         \/ /\ r + 1 = b
            /\ (n + 1) % b = 0
            /\ (n + 1) \div b = q + 1
  BY <1>1, NextNumber
<1>3. m.seq = (n + 1) % b /\ m.from = n * z
  BY DEF Data
<1>4. CASE n = 0
  <2>1. TftpState \in {"RRQ", "OACK"}
    BY <1>4 DEF HasBlocks
  <2>2. FirstData /\ m.seq = 1 /\ (n + 1) \div b = 0
    <3>1. 1 % b = 1 /\ 1 \div b = 0
      BY <1>1
    <3> QED BY <2>1, <3>1, <1>3, <1>4 DEF FirstData
  <2>3. WrapOffset(m.seq) = 0 /\ StoreOffset(m.seq) = 0
    BY <2>2, <1>1 DEF WrapOffset, StoreOffset
  <2>4. 0 * (z * b) = 0 /\ n * z = 0
    BY <1>1, <1>4
  <2> QED BY <2>2, <2>3, <2>4, <1>3 DEF SameBlock
<1>5. CASE n > 0
  <2>1. /\ TftpState = "DATA" /\ ~FirstData
        /\ TftpLastBlock = r
        /\ TftpBlockWrapOffset = q * (z * b)
    BY <1>5 DEF HasBlocks, FirstData
  <2> HIDE DEF q, r, z, b
  <2>2. r \in Nat /\ b \in Nat \ {0}
    BY <1>1, <1>2
  <2>3. /\ r * z + q * (z * b) = (b * q + r) * z
        /\ (0 - 1) * z + (q * (z * b) + z * b) = (b * q + (b - 1)) * z
        /\ (q + 1) * (z * b) = q * (z * b) + z * b
        /\ q * (z * b) \in Nat /\ z * b \in Nat
    BY <2>2, <1>1, <1>2, RoundOffset
  <2>4. CASE r + 1 < b
    <3>1. m.seq = r + 1 /\ m.seq # 0 /\ m.seq # r /\ m.seq - 1 = r
      BY <2>4, <1>2, <1>3
    <3>2. WrapOffset(m.seq) = q * (z * b)
      BY <2>1, <3>1 DEF WrapOffset
    <3>3. StoreOffset(m.seq) = r * z + q * (z * b)
      BY <3>1, <3>2, <1>1 DEF StoreOffset
    <3>4. StoreOffset(m.seq) = n * z
      BY <3>3, <2>3, <1>2
    <3>5. (n + 1) \div b = q
      BY <2>4, <1>2
    <3> QED BY <2>1, <3>1, <3>2, <3>4, <3>5, <1>3 DEF SameBlock, b, z
  <2>5. CASE r + 1 = b
    <3>1. m.seq = 0 /\ m.seq # r /\ r = b - 1
      BY <2>5, <1>1, <1>2, <1>3
    <3>2. WrapOffset(m.seq) = q * (z * b) + z * b
      BY <2>1, <3>1, <1>1 DEF WrapOffset, b
    <3>3. StoreOffset(m.seq) = (0 - 1) * z + (q * (z * b) + z * b)
      BY <3>1, <3>2, <1>1 DEF StoreOffset
    <3>4. StoreOffset(m.seq) = n * z
      BY <3>1, <3>3, <2>3, <1>2
    <3>5. (n + 1) \div b = q + 1
      BY <2>5, <1>2
    <3> QED BY <2>1, <2>3, <3>1, <3>2, <3>4, <3>5, <1>3 DEF SameBlock, b, z
  <2> QED BY <2>4, <2>5, <1>2
<1> QED BY <1>4, <1>5

clientVars == <<mem, NetBootFileXferSize, TftpState, TftpServerPort, TftpOurPort,
                TftpBlock, TftpLastBlock, TftpBlockWrapOffset, TftpBlkSize>>

\* What the client has does not change with the packets under way.
LEMMA HasBlocksKept ==
    ASSUME UNCHANGED clientVars, NEW s \in Sessions, NEW n \in Int, HasBlocks(s, n),
           sess'[s].blk = sess[s].blk
    PROVE  HasBlocks(s, n)'
BY DEF HasBlocks, clientVars, Right

\* A step that leaves client and session of the attempt alone, and at most takes
\* packets of the attempt away.
LEMMA WrapFrame ==
    ASSUME TypeInv, WrapInv, UNCHANGED clientVars,
           \A x \in toServer' : x.port = TftpOurPort => x \in toServer,
           \A x \in toClient' : x.port = TftpOurPort => x \in toClient,
           \A t \in Sessions : SessionOK(t)',
           \A t \in Sessions :
              \/ sess'[t] = sess[t]
              \/ /\ ~OurSession(t) /\ ~OurSession(t)'
                 /\ TftpOurPort \in Ports => sess'[t].port # TftpOurPort,
           NetArpWaitTxPacket' \in {NetArpWaitTxPacket, NoPacket},
           NetState' = "SUCCESS" => NetState = "SUCCESS"
    PROVE  WrapInv'
<1> USE DEF clientVars
<1>1. NetArpWaitTxPacket = Rrq(TftpOurPort) => TftpOurPort \in Ports
  BY DEF TypeInv, TypeOK, NetTypeOK, Rrq, NoPacket, UpPackets
<1>2. \A t \in Sessions : OurSession(t)' => OurSession(t) /\ sess'[t] = sess[t]
  BY DEF OurSession, Opened
<1>3. CASE NoSessionYet /\ \A s \in Sessions : ~OurSession(s)
  <2>1. NoSessionYet' /\ \A s \in Sessions : ~OurSession(s)'
    BY <1>2, <1>3 DEF NoSessionYet
  <2> QED BY <2>1, <1>1 DEF WrapInv, PortIdle, SuccessMeansWholeFile, Right, NoPacket, Rrq
<1>4. ASSUME NEW s \in Sessions, OurSession(s),
             \A t \in Sessions : OurSession(t) => t = s,
             ServerToSend(s) \/ ClientToTake(s)
      PROVE  WrapInv'
  <2>1. /\ sess'[s] = sess[s]
        /\ OurSession(s)'
        /\ \A t \in Sessions : OurSession(t)' => t = s
    BY <1>2, <1>4 DEF OurSession, Opened
  <2>2. \A n \in Int : HasBlocks(s, n) => HasBlocks(s, n)'
    BY <2>1, HasBlocksKept
  <2>3. sess[s].sent \in Nat
    BY <1>4 DEF TypeInv, TypeOK, TftpTypeOK, SessionRecords, NoSession
  <2>4. ASSUME ServerToSend(s) PROVE ServerToSend(s)'
    <3>1. HasBlocks(s, sess[s].sent)'
      <4>1. \A n \in Int : n = sess[s].sent => HasBlocks(s, n)'
        BY <2>2, <2>4 DEF ServerToSend
      <4> QED BY <4>1, <2>1, <2>3
    <3> QED BY <2>1, <2>4, <3>1 DEF ServerToSend
  <2>5. ASSUME ClientToTake(s) PROVE ClientToTake(s)'
    <3>1. HasBlocks(s, sess[s].sent - 1) => HasBlocks(s, sess[s].sent - 1)'
      <4>1. \A n \in Int : n = sess[s].sent - 1 /\ HasBlocks(s, n) => HasBlocks(s, n)'
        BY <2>2
      <4> QED BY <4>1, <2>1, <2>3
    <3> QED BY <2>1, <2>5, <3>1 DEF ClientToTake
  <2>6. ServerToSend(s)' \/ ClientToTake(s)'
    BY <1>4, <2>4, <2>5
  <2>7. NetArpWaitTxPacket' = NoPacket
    BY <1>4 DEF WrapInv, OurSession, PortIdle
  <2> QED BY <2>1, <2>6, <2>7 DEF WrapInv, SuccessMeansWholeFile, Right, NoPacket, Rrq
<1> QED BY <1>3, <1>4 DEF WrapInv

\* Steps of the client that neither send nor store.
LEMMA WrapSilent ==
    ASSUME TypeInv, WrapInv, UNCHANGED clientVars, UNCHANGED sess,
           toServer' \subseteq toServer, toClient' \subseteq toClient,
           NetArpWaitTxPacket' \in {NetArpWaitTxPacket, NoPacket},
           NetState' = "SUCCESS" => NetState = "SUCCESS"
    PROVE  WrapInv'
<1>1. \A t \in Sessions : SessionOK(t)'
  BY DEF WrapInv, SessionOK
<1> QED BY <1>1, WrapFrame

\* The passes of NetLoop but the one that takes an ARP reply.
LEMMA WrapPass ==
    ASSUME TypeInv, WrapInv, NetPass, UNCHANGED <<tftpVars, mem, sess>>, ~RxArpReply
    PROVE  WrapInv'
<1>1. /\ UNCHANGED clientVars
      /\ UNCHANGED <<toServer, NetArpWaitTxPacket>>
      /\ toClient' \subseteq toClient
      /\ NetState' = "SUCCESS" => NetState = "SUCCESS"
  BY DEF NetPass, RxNothing, RxWhileWaiting, CtrlC, ArpQuiet, TimerQuiet,
         ArpTimeout, NetStartAgain, StartAgainTimeout, SwitchContinue,
         SwitchFail, SwitchSuccess, ArpAnswer, clientVars, loopVars, arpVars,
         tftpVars, Taken
<1> QED BY <1>1, WrapSilent

\* The parked request goes out.
LEMMA WrapArpReply ==
    ASSUME TypeInv, WrapInv, RxArpReply, UNCHANGED <<tftpVars, mem, sess>>
    PROVE  WrapInv'
<1>1. /\ UNCHANGED clientVars /\ UNCHANGED <<sess, toClient, NetState>>
  BY DEF RxArpReply, clientVars, loopVars, tftpVars
<1>2. CASE NetArpWaitTxPacket = NoPacket
  <2>1. UNCHANGED <<toServer, NetArpWaitTxPacket>>
    BY <1>2 DEF RxArpReply
  <2> QED BY <2>1, <1>1, WrapSilent
<1>3. CASE NetArpWaitTxPacket # NoPacket
  <2>1. /\ NetArpWaitTxPacket = Rrq(TftpOurPort)
        /\ PortIdle(TftpOurPort)
    BY <1>3 DEF WrapInv
  <2>2. /\ toServer' \subseteq toServer \cup {Rrq(TftpOurPort)}
        /\ NetArpWaitTxPacket' = NoPacket
    BY <1>3, <2>1 DEF RxArpReply, EthSend
  <2>3. \A s \in Sessions : ~OurSession(s) /\ ~OurSession(s)'
    BY <2>1, <1>1 DEF PortIdle, OurSession, Opened, clientVars
  <2>4. NoSessionYet'
    <3>1. NoSessionYet
      BY <2>3 DEF WrapInv
    <3> QED BY <3>1, <2>2, <1>1 DEF NoSessionYet, clientVars
  <2>5. \A t \in Sessions : SessionOK(t)'
    BY <1>1 DEF WrapInv, SessionOK
  <2> QED BY <2>2, <2>3, <2>4, <2>5, <1>1
          DEF WrapInv, SuccessMeansWholeFile, Right, NoPacket, Rrq, clientVars
<1> QED BY <1>2, <1>3

\* A new attempt, with a port the network holds nothing for.
LEMMA WrapRestart ==
    ASSUME TypeInv, WrapInv, Restart
    PROVE  WrapInv'
<1>1. PICK p \in Ports :
          /\ PortIdle(p)
          /\ TftpOurPort' = p
          /\ NetSendUDPPacket("null", "up", arpWire, Rrq(p))
  BY DEF Restart, TftpStart, TftpPacket
<1>2. /\ NetArpWaitTxPacket' = Rrq(p)
      /\ UNCHANGED <<toServer, toClient, sess, mem>>
      /\ TftpState' = "RRQ" /\ TftpBlock' = 0 /\ TftpBlkSize' = TFTP_BLOCK_SIZE
      /\ NetBootFileXferSize' = 0
      /\ NetState' = "CONTINUE"
  BY <1>1 DEF NetSendUDPPacket, Restart, TftpStart
<1>3. NoSessionYet' /\ (\A s \in Sessions : ~OurSession(s)') /\ PortIdle(TftpOurPort)'
  BY <1>1, <1>2 DEF NoSessionYet, PortIdle, OurSession
<1>4. \A t \in Sessions : SessionOK(t)'
  BY <1>2 DEF WrapInv, SessionOK
<1> QED BY <1>1, <1>2, <1>3, <1>4 DEF WrapInv, SuccessMeansWholeFile

\* A packet the client accepts comes from the session of the attempt, and the
\* server's MAC address is known by then.
LEMMA WrapAccepts ==
    ASSUME TypeInv, ParkedInv, WrapInv, NEW m \in toClient, Receive(m), TftpAccepts(m)
    PROVE  /\ NetServerEther = "known" /\ eth = "up" /\ NetArpWaitTxPacket = NoPacket
           /\ m.port = TftpOurPort /\ TftpState # "none" /\ TftpOurPort \in Ports
           /\ NetState = "CONTINUE"
           /\ \E s \in Sessions :
                 /\ OurSession(s)
                 /\ \A t \in Sessions : OurSession(t) => t = s
                 /\ ServerToSend(s) \/ ClientToTake(s)
<1>1. pc = "rx" /\ packetHandler = "tftp" /\ m.port = TftpOurPort
  BY DEF Receive, TftpAccepts
<1>2. ~PortIdle(TftpOurPort) /\ ~NoSessionYet
  BY <1>1 DEF PortIdle, NoSessionYet
<1>3. NetServerEther = "known" /\ NetArpWaitTxPacket = NoPacket
  BY <1>1, <1>2 DEF ParkedInv
<1>4. eth = "up" /\ NetState = "CONTINUE"
  BY <1>1 DEF TypeInv, LoopInv
<1>5. TftpState # "none" /\ TftpOurPort \in Ports
  BY <1>1, DownFields, TftpAssumption DEF TypeInv, NoPort
<1> QED BY <1>1, <1>2, <1>3, <1>4, <1>5 DEF WrapInv

\* What is known of the session of the attempt.
LEMMA WrapSession ==
    ASSUME TypeInv, WrapInv, NEW s \in Sessions, Opened(s)
    PROVE  /\ sess[s] \in SessionRecords
           /\ sess[s].port \in Ports
           /\ sess[s].blk \in BlkSizes /\ sess[s].blk \in Nat \ {0}
           /\ sess[s].sent \in Nat
           /\ sess[s].sent <= BlockCount(sess[s].blk)
<1>1. sess[s] \in SessionRecords /\ sess[s].sent <= BlockCount(sess[s].blk)
  BY DEF WrapInv, SessionOK, Opened, NoSession
<1> QED BY <1>1, BlkSizeFacts DEF SessionRecords

\* What remains to be shown when the client acknowledges the server's last packet.
LEMMA WrapTurn ==
    ASSUME TypeInv, WrapInv, Reliable,
           NEW s \in Sessions, OurSession(s), NEW m \in toClient,
           \A t \in Sessions : OurSession(t) => t = s,
           \A x \in toServer : x.port # TftpOurPort,
           \A x \in toClient : x.port = TftpOurPort => x.type = "ERROR" \/ x = m,
           toClient' = Taken(toClient, m),
           toServer' = toServer \cup
              {Ack(TftpOurPort, s, sess[s].sent % TFTP_SEQUENCE_SIZE)},
           UNCHANGED <<sess, TftpOurPort, NetArpWaitTxPacket>>,
           NetArpWaitTxPacket = NoPacket,
           TftpState' \notin {"none", "RRQ"},
           HasBlocks(s, sess[s].sent)',
           SuccessMeansWholeFile'
    PROVE  WrapInv'
<1>1. OurSession(s)' /\ \A t \in Sessions : OurSession(t)' => t = s
  BY DEF OurSession, Opened
<1>2. ServerToSend(s)'
  BY DEF ServerToSend, Taken
<1>3. \A t \in Sessions : SessionOK(t)'
  BY DEF WrapInv, SessionOK
<1> QED BY <1>1, <1>2, <1>3 DEF WrapInv, NoPacket, Rrq

\* The OACK opens the session, once.
LEMMA WrapOack ==
    ASSUME TypeInv, ParkedInv, WrapInv, Reliable, NEW m \in toClient, RxOack(m)
    PROVE  WrapInv'
<1>1. m.type = "OACK" /\ Receive(m) /\ TftpAccepts(m)
  BY DEF RxOack
<1>2. /\ NetServerEther = "known" /\ eth = "up" /\ NetArpWaitTxPacket = NoPacket
      /\ m.port = TftpOurPort /\ NetState = "CONTINUE"
  BY <1>1, WrapAccepts
<1>3. PICK s \in Sessions :
          /\ OurSession(s)
          /\ \A t \in Sessions : OurSession(t) => t = s
          /\ ServerToSend(s) \/ ClientToTake(s)
  BY <1>1, WrapAccepts
<1>4. /\ \A x \in toServer : x.port # TftpOurPort
      /\ sess[s].sent = 0
      /\ TftpState = "RRQ"
      /\ \E z \in OackBlkSizes \cup {NoOption} :
            /\ sess[s].blk = IF z = NoOption THEN TFTP_BLOCK_SIZE ELSE z
            /\ m = Oack(TftpOurPort, s, z)
            /\ \A x \in toClient : x.port = TftpOurPort => x.type = "ERROR" \/ x = m
  BY <1>1, <1>2, <1>3 DEF ServerToSend, ClientToTake, Data
<1>5. m.sid = s /\ sess[s].blk = IF m.blk = NoOption THEN TFTP_BLOCK_SIZE ELSE m.blk
  BY <1>4 DEF Oack
<1>6. /\ TftpState' = "OACK" /\ TftpServerPort' = s
      /\ TftpBlkSize' = IF m.blk = NoOption THEN TftpBlkSize ELSE m.blk
      /\ toServer' = toServer \cup {Ack(TftpOurPort, s, TftpBlock)}
      /\ UNCHANGED <<NetArpWaitTxPacket, NetBootFileXferSize, NetState, sess, TftpOurPort>>
      /\ toClient' = Taken(toClient, m)
  BY <1>1, <1>2, <1>5
     DEF RxOack, Receive, TftpSend, TftpPacket, NetSendUDPPacket, EthSend, loopVars
<1>7. TftpBlock = 0 /\ TftpBlkSize = TFTP_BLOCK_SIZE /\ NetBootFileXferSize = 0
  BY <1>4 DEF WrapInv
<1>8. 0 % TFTP_SEQUENCE_SIZE = 0
  BY TftpAssumption
<1>9. HasBlocks(s, sess[s].sent)'
  BY <1>4, <1>5, <1>6, <1>7 DEF HasBlocks
<1>10. SuccessMeansWholeFile'
  BY <1>2, <1>6 DEF SuccessMeansWholeFile
<1> QED BY <1>2, <1>3, <1>4, <1>6, <1>7, <1>8, <1>9, <1>10, WrapTurn

\* A DATA packet the client accepts is the block after those it has.
LEMMA WrapData ==
    ASSUME TypeInv, ParkedInv, WrapInv, NEW m \in toClient, m.type = "DATA",
           Receive(m), TftpAccepts(m)
    PROVE  \E s \in Sessions, n \in Nat :
              /\ OurSession(s)
              /\ \A t \in Sessions : OurSession(t) => t = s
              /\ sess[s].sent = n + 1
              /\ \A x \in toServer : x.port # TftpOurPort
              /\ m = Data(TftpOurPort, s, sess[s].blk, n + 1)
              /\ \A x \in toClient : x.port = TftpOurPort => x.type = "ERROR" \/ x = m
              /\ HasBlocks(s, n)
<1>1. m.port = TftpOurPort
  BY WrapAccepts
<1>2. PICK s \in Sessions :
          /\ OurSession(s)
          /\ \A t \in Sessions : OurSession(t) => t = s
          /\ ServerToSend(s) \/ ClientToTake(s)
  BY WrapAccepts
<1>3. /\ \A x \in toServer : x.port # TftpOurPort
      /\ sess[s].sent > 0
      /\ m = Data(TftpOurPort, s, sess[s].blk, sess[s].sent)
      /\ \A x \in toClient : x.port = TftpOurPort => x.type = "ERROR" \/ x = m
      /\ HasBlocks(s, sess[s].sent - 1)
  BY <1>1, <1>2 DEF ServerToSend, ClientToTake, Oack
<1>4. sess[s].sent \in Nat
  BY <1>2, WrapSession DEF OurSession
<1>5. sess[s].sent - 1 \in Nat /\ (sess[s].sent - 1) + 1 = sess[s].sent
  BY <1>3, <1>4
<1> QED BY <1>2, <1>3, <1>5

\* A block that is neither the first nor a repeated one is stored in its place.
LEMMA WrapBlock ==
    ASSUME TypeInv, ParkedInv, WrapInv, Reliable, NEW m \in toClient, RxBlock(m)
    PROVE  WrapInv'
<1>1. /\ m.type = "DATA" /\ Receive(m) /\ TftpAccepts(m)
      /\ TftpState' = "DATA" /\ TftpServerPort' = m.sid
      /\ TftpBlockWrapOffset' = WrapOffset(m.seq)
      /\ TftpBlkSize' = TftpBlkSize /\ TftpLastBlock' = m.seq
      /\ StoreBlock(m)
      /\ NetSendUDPPacket(NetServerEther, eth, arpWire, Ack(TftpOurPort, m.sid, m.seq))
      /\ NetState' = IF m.len < TftpBlkSize THEN "SUCCESS" ELSE NetState
  BY DEF RxBlock, DataHeader, TftpSend, TftpPacket
<1>2. /\ NetServerEther = "known" /\ eth = "up" /\ NetArpWaitTxPacket = NoPacket
      /\ TftpState # "none" /\ NetState = "CONTINUE"
  BY <1>1, WrapAccepts
<1>3. PICK s \in Sessions, n \in Nat :
              /\ OurSession(s)
              /\ \A t \in Sessions : OurSession(t) => t = s
              /\ sess[s].sent = n + 1
              /\ \A x \in toServer : x.port # TftpOurPort
              /\ m = Data(TftpOurPort, s, sess[s].blk, n + 1)
              /\ \A x \in toClient : x.port = TftpOurPort => x.type = "ERROR" \/ x = m
              /\ HasBlocks(s, n)
  BY <1>1, WrapData
<1> DEFINE z == sess[s].blk
           k == n + 1
           end == n * z + m.len
<1>4. /\ z \in BlkSizes /\ z \in Nat \ {0} /\ k \in Nat \ {0} /\ k <= BlockCount(z)
  BY <1>3, WrapSession DEF OurSession
<1>5. m.sid = s /\ m.len = BlockLen(z, k)
  BY <1>3 DEF Data
<1>6. /\ m.seq = k % TFTP_SEQUENCE_SIZE
      /\ m.from = n * z
      /\ WrapOffset(m.seq) = (k \div TFTP_SEQUENCE_SIZE) * (z * TFTP_SEQUENCE_SIZE)
      /\ StoreOffset(m.seq) = n * z
  BY <1>2, <1>3, <1>4, NextBlock
<1>7. /\ n * z \in Nat /\ k * z \in Nat /\ end \in Nat /\ FileLen \in Nat
      /\ n * z <= end /\ end <= FileLen /\ m.len \in Nat
      /\ m.len < z => end = FileLen /\ FileLen <= k * z
      /\ m.len >= z => k * z = end
  <2>1. k - 1 = n
    OBVIOUS
  <2>2. /\ n * z \in Nat
        /\ BlockLen(z, k) \in 0..z
        /\ n * z + BlockLen(z, k) <= FileLen
        /\ BlockLen(z, k) < z => n * z + BlockLen(z, k) = FileLen
        /\ BlockLen(z, k) = z => k * z = n * z + BlockLen(z, k)
        /\ BlockLen(z, k) < z => FileLen <= k * z
    <3> HIDE DEF k, z
    <3> QED BY <2>1, <1>4, BlockFacts
  <2>3. k * z \in Nat
    BY <1>4, SMT
  <2> HIDE DEF k, z
  <2> QED BY <2>2, <2>3, <1>4, <1>5, TftpAssumption
<1>8. TftpBlkSize = z
  BY <1>3 DEF HasBlocks
<1> HIDE DEF k, z
<1>9. NetBootFileXferSize = n * z /\ Right(n * z)
  <2>1. CASE n = 0
    <3>1. n * z = 0
      BY <2>1, <1>4
    <3> QED BY <2>1, <3>1, <1>3, RightNone DEF HasBlocks
  <2>2. CASE n > 0
    <3>1. NetBootFileXferSize = Lesser(n * z, FileLen) /\ Right(n * z)
      BY <2>2, <1>3 DEF HasBlocks, z
    <3> QED BY <3>1, <1>7 DEF Lesser
  <2> QED BY <2>1, <2>2
<1>10. NetBootFileXferSize' = end
  BY <1>1, <1>6, <1>7, <1>9 DEF StoreBlock
<1>11. Right(end)'
  <2>1. mem' = [u \in DOMAIN mem |->
                  IF n * z <= u /\ u < end THEN n * z + (u - n * z) ELSE mem[u]]
    BY <1>1, <1>6 DEF StoreBlock
  <2>2. DOMAIN mem = 0..(FileLen - 1)
    BY DEF TypeInv, TypeOK, TftpTypeOK
  <2> HIDE DEF end
  <2> SUFFICES ASSUME NEW u \in 0..(FileLen - 1), u < end
               PROVE  mem'[u] = u
    <3>1. end' = end
      BY <1>1 DEF end, z, Receive
    <3> QED BY <3>1 DEF Right
  <2>3. CASE n * z <= u
    BY <2>1, <2>2, <2>3, <1>7
  <2>4. CASE u < n * z
    BY <2>1, <2>2, <2>4, <1>7, <1>9 DEF Right
  <2> QED BY <2>3, <2>4, <1>7
<1>12. Right(k * z)' /\ end = Lesser(k * z, FileLen)
  <2>1. UNCHANGED <<end, z, k>>
    BY <1>1 DEF end, z, k, Receive
  <2> HIDE DEF end
  <2>2. CASE m.len < z
    BY <2>1, <2>2, <1>7, <1>11 DEF Right, Lesser
  <2>3. CASE m.len >= z
    BY <2>1, <2>3, <1>7, <1>11 DEF Right, Lesser
  <2> QED BY <2>2, <2>3, <1>4, <1>7
<1>13. UNCHANGED <<sess, TftpOurPort, NetArpWaitTxPacket>> /\ toClient' = Taken(toClient, m)
  BY <1>1, <1>2 DEF Receive, NetSendUDPPacket
<1>14. toServer' = toServer \cup {Ack(TftpOurPort, s, sess[s].sent % TFTP_SEQUENCE_SIZE)}
  BY <1>1, <1>2, <1>3, <1>5, <1>6 DEF NetSendUDPPacket, EthSend, k
<1>15. HasBlocks(s, k)'
  <2>1. k' = k /\ k > 0
    BY <1>4 DEF k
  <2>2. sess'[s].blk = z /\ z' = z
    BY <1>13 DEF z
  <2>3. (k * z)' = k * z
    BY <2>1, <2>2
  <2>4. Right(k * z)'
    BY <1>12
  <2> HIDE DEF end
  <2>5. /\ TftpBlkSize' = z /\ TftpState' = "DATA" /\ TftpServerPort' = s
        /\ TftpLastBlock' = k % TFTP_SEQUENCE_SIZE
        /\ TftpBlockWrapOffset' = (k \div TFTP_SEQUENCE_SIZE) * (z * TFTP_SEQUENCE_SIZE)
        /\ NetBootFileXferSize' = Lesser(k * z, FileLen)
    BY <1>1, <1>5, <1>6, <1>8, <1>10, <1>12
  <2> QED BY <2>1, <2>2, <2>3, <2>4, <2>5, <1>4 DEF HasBlocks, Right
<1>16. HasBlocks(s, sess[s].sent)'
  BY <1>3, <1>13, <1>15 DEF k
<1>17. SuccessMeansWholeFile'
  <2>1. NetState' = "SUCCESS" => m.len < z
    BY <1>1, <1>2, <1>8
  <2>2. end' = end
    BY <1>1 DEF end, z, Receive
  <2> HIDE DEF end
  <2>3. m.len < z => end = FileLen
    BY <1>7
  <2> QED BY <2>1, <2>2, <2>3, <1>10, <1>11 DEF SuccessMeansWholeFile, Right
<1> QED BY <1>1, <1>2, <1>3, <1>13, <1>14, <1>16, <1>17, WrapTurn

\* With nothing repeated there is no repeated block and no wrong first one.
LEMMA WrapNoRepeat ==
    ASSUME TypeInv, ParkedInv, WrapInv, NEW m \in toClient
    PROVE  ~RxFirstNotOne(m) /\ ~RxSameBlock(m)
<1> SUFFICES ASSUME RxFirstNotOne(m) \/ RxSameBlock(m) PROVE FALSE
  OBVIOUS
<1>1. /\ m.type = "DATA" /\ Receive(m) /\ TftpAccepts(m)
      /\ (FirstData /\ m.seq # 1) \/ SameBlock(m.seq)
  BY DEF RxFirstNotOne, RxSameBlock, DataHeader
<1>2. PICK s \in Sessions, n \in Nat :
              /\ OurSession(s)
              /\ m = Data(TftpOurPort, s, sess[s].blk, n + 1)
              /\ HasBlocks(s, n)
  BY <1>1, WrapData
<1>3. sess[s].blk \in BlkSizes /\ TftpState # "none"
  BY <1>1, <1>2, WrapSession, WrapAccepts DEF OurSession
<1> QED BY <1>1, <1>2, <1>3, NextBlock

\* What remains to be shown of a server's step for the session of the attempt.
LEMMA WrapServes ==
    ASSUME TypeInv, WrapInv, UNCHANGED serverVars,
           NEW s \in Sessions, NetArpWaitTxPacket = NoPacket,
           sess' \in [Sessions -> SessionRecords \cup {NoSession}],
           OurSession(s)', \A t \in Sessions : t # s => sess'[t] = sess[t],
           \A t \in Sessions : OurSession(t) => t = s,
           SessionOK(s)',
           ClientToTake(s)'
    PROVE  WrapInv'
<1>1. UNCHANGED clientVars /\ UNCHANGED <<NetArpWaitTxPacket, NetState>>
  BY DEF serverVars, clientVars, loopVars, arpVars, tftpVars
<1>2. \A t \in Sessions : OurSession(t)' => t = s
  BY <1>1 DEF OurSession, Opened, clientVars
<1>3. \A t \in Sessions : SessionOK(t)'
  BY DEF WrapInv, SessionOK
<1> QED BY <1>1, <1>2, <1>3 DEF WrapInv, SuccessMeansWholeFile, Right, NoPacket, Rrq, clientVars

\* A server's step for a session of another attempt.
LEMMA WrapServesOther ==
    ASSUME TypeInv, WrapInv, UNCHANGED serverVars, NEW s \in Sessions,
           ~OurSession(s),
           sess'[s].port # TftpOurPort,
           SessionOK(s)',
           \A t \in Sessions : t # s => sess'[t] = sess[t],
           toServer' \subseteq toServer,
           \A x \in toClient' : x \in toClient \/ x.port # TftpOurPort
    PROVE  WrapInv'
<1>1. UNCHANGED clientVars /\ UNCHANGED <<NetArpWaitTxPacket, NetState>>
  BY DEF serverVars, clientVars, loopVars, arpVars, tftpVars
<1>2. \A t \in Sessions : SessionOK(t)'
  BY DEF WrapInv, SessionOK
<1>3. ~OurSession(s)'
  BY <1>1 DEF OurSession, clientVars
<1> QED BY <1>1, <1>2, <1>3, WrapFrame

\* The request opens one session.
LEMMA WrapOpen ==
    ASSUME TypeInv, WrapInv, Reliable, NEW s \in Sessions, NEW m \in toServer,
           ServerOpen(s, m)
    PROVE  WrapInv'
<1>1. /\ m.type = "RRQ" /\ sess[s].st = "free"
      /\ toServer' = toServer \ {m}
      /\ UNCHANGED serverVars
  BY DEF ServerOpen, Taken
<1>2. PICK r, x :
          /\ sess' = [sess EXCEPT ![s] = r]
          /\ toClient' = toClient \cup {x}
          /\ r.st # "free" /\ r.port = m.port /\ x.port = m.port
          /\ \/ \E z \in OackBlkSizes :
                   /\ x = Oack(m.port, s, z)
                   /\ r.blk = IF z = NoOption THEN TFTP_BLOCK_SIZE ELSE z
                   /\ r.sent = 0
             \/ /\ r.sent = 1 /\ r.blk = TFTP_BLOCK_SIZE
                /\ x = Data(m.port, s, r.blk, 1)
             \/ /\ r.sent = 0 /\ r.blk = TFTP_BLOCK_SIZE
                /\ x.type = "ERROR"
  <2>1. CASE \E z \in OackBlkSizes :
             /\ sess' = [sess EXCEPT ![s] =
                   [st |-> "oack", port |-> m.port, sent |-> 0,
                    blk |-> IF z = NoOption THEN TFTP_BLOCK_SIZE ELSE z]]
             /\ toClient' = toClient \cup {Oack(m.port, s, z)}
    <3> PICK z \in OackBlkSizes :
             /\ sess' = [sess EXCEPT ![s] =
                   [st |-> "oack", port |-> m.port, sent |-> 0,
                    blk |-> IF z = NoOption THEN TFTP_BLOCK_SIZE ELSE z]]
             /\ toClient' = toClient \cup {Oack(m.port, s, z)}
      BY <2>1
    <3> DEFINE y == Oack(m.port, s, z)
               c == [st |-> "oack", port |-> m.port, sent |-> 0,
                     blk |-> IF z = NoOption THEN TFTP_BLOCK_SIZE ELSE z]
    <3>1. y.port = m.port /\ y = Oack(m.port, s, z)
      BY DEF Oack
    <3>2. /\ c.st # "free" /\ c.port = m.port /\ c.sent = 0
          /\ c.blk = IF z = NoOption THEN TFTP_BLOCK_SIZE ELSE z
          /\ sess' = [sess EXCEPT ![s] = c] /\ toClient' = toClient \cup {y}
      OBVIOUS
    <3> HIDE DEF y, c
    <3> QED BY <3>1, <3>2
  <2>2. CASE /\ sess' = [sess EXCEPT ![s] =
                   [st |-> "data", port |-> m.port, blk |-> TFTP_BLOCK_SIZE,
                    sent |-> 1]]
             /\ toClient' = toClient \cup {Data(m.port, s, TFTP_BLOCK_SIZE, 1)}
    <3> DEFINE y == Data(m.port, s, TFTP_BLOCK_SIZE, 1)
               c == [st |-> "data", port |-> m.port, blk |-> TFTP_BLOCK_SIZE,
                     sent |-> 1]
    <3>1. y.port = m.port /\ y = Data(m.port, s, c.blk, 1)
      BY DEF Data
    <3>2. /\ c.st # "free" /\ c.port = m.port /\ c.sent = 1 /\ c.blk = TFTP_BLOCK_SIZE
          /\ sess' = [sess EXCEPT ![s] = c] /\ toClient' = toClient \cup {y}
      BY <2>2
    <3> HIDE DEF y, c
    <3> QED BY <3>1, <3>2
  <2>3. CASE /\ sess' = [sess EXCEPT ![s] =
                   [st |-> "dead", port |-> m.port, blk |-> TFTP_BLOCK_SIZE,
                    sent |-> 0]]
             /\ toClient' = toClient \cup {Error(m.port, s)}
    <3> DEFINE y == Error(m.port, s)
               c == [st |-> "dead", port |-> m.port, blk |-> TFTP_BLOCK_SIZE,
                     sent |-> 0]
    <3>1. y.port = m.port /\ y.type = "ERROR"
      BY DEF Error
    <3>2. /\ c.st # "free" /\ c.port = m.port /\ c.sent = 0 /\ c.blk = TFTP_BLOCK_SIZE
          /\ sess' = [sess EXCEPT ![s] = c] /\ toClient' = toClient \cup {y}
      BY <2>3
    <3> HIDE DEF y, c
    <3> QED BY <3>1, <3>2
  <2> QED BY <2>1, <2>2, <2>3 DEF ServerOpen
<1>3. /\ sess' \in [Sessions -> SessionRecords \cup {NoSession}]
      /\ sess'[s] = r
      /\ \A t \in Sessions : t # s => sess'[t] = sess[t]
      /\ r \in SessionRecords
  <2>1. sess' \in [Sessions -> SessionRecords \cup {NoSession}]
    BY TypeServers DEF ServerStep, TypeOK, TftpTypeOK
  <2>2. sess'[s] = r /\ \A t \in Sessions : t # s => sess'[t] = sess[t]
    BY <1>2 DEF TypeInv, TypeOK, TftpTypeOK
  <2> QED BY <2>1, <2>2, <1>2 DEF NoSession
<1>4. SessionOK(s)'
  <2>1. r.blk \in Nat \ {0}
    BY <1>3, BlkSizeFacts DEF SessionRecords
  <2>2. BlockCount(r.blk) \in Nat \ {0}
    BY <2>1, BlockCountNat
  <2>3. r.sent <= BlockCount(r.blk)
    BY <2>2, <1>2
  <2> QED BY <2>3, <1>3 DEF SessionOK
<1>5. CASE m.port # TftpOurPort
  BY <1>1, <1>2, <1>3, <1>4, <1>5, WrapServesOther DEF OurSession, Opened
<1>6. CASE m.port = TftpOurPort
  <2>1. UNCHANGED clientVars
    BY <1>1 DEF serverVars, clientVars, tftpVars
  <2>2. NoSessionYet /\ \A t \in Sessions : ~OurSession(t)
    BY <1>1, <1>6 DEF WrapInv, ServerToSend, ClientToTake, Ack
  <2>3. m = Rrq(TftpOurPort) /\ TftpState = "RRQ"
    <3>1. m.port \in Ports
      BY DEF TypeInv, TypeOK, NetTypeOK, UpPackets
    <3> QED BY <3>1, <2>2, <1>6, TftpAssumption DEF NoSessionYet, TypeInv, NoPort
  <2>4. TftpBlkSize = TFTP_BLOCK_SIZE /\ NetBootFileXferSize = 0
    BY <2>3 DEF WrapInv
  <2>5. NetArpWaitTxPacket = NoPacket
    BY <1>6 DEF WrapInv, PortIdle
  <2>6. \A y \in toServer' : y.port # TftpOurPort
    BY <2>2, <2>3, <1>1 DEF NoSessionYet
  <2>7. \A y \in toClient' : y.port = TftpOurPort => y = x
    BY <2>2, <1>2 DEF NoSessionYet
  <2>8. OurSession(s)'
    BY <1>2, <1>3, <1>6, <2>1 DEF OurSession, Opened, clientVars
  <2>9. ClientToTake(s)'
    <3>1. CASE r.sent = 1
      <4>1. r.blk = TFTP_BLOCK_SIZE /\ x = Data(m.port, s, r.blk, 1)
        BY <3>1, <1>2
      <4>2. HasBlocks(s, 0)'
        BY <4>1, <2>1, <2>3, <2>4, <1>3 DEF HasBlocks, clientVars
      <4>3. sess'[s].sent - 1 = 0 /\ sess'[s].sent = 1
        BY <3>1, <1>3
      <4>4. HasBlocks(s, sess[s].sent - 1)'
        BY <4>2, <4>3
      <4> QED BY <4>1, <4>3, <4>4, <2>1, <2>6, <2>7, <1>3, <1>6
              DEF ClientToTake, clientVars
    <3>2. CASE r.sent = 0
      <4>1. \E z \in OackBlkSizes \cup {NoOption} :
                /\ r.blk = IF z = NoOption THEN TFTP_BLOCK_SIZE ELSE z
                /\ x.type = "ERROR" \/ x = Oack(TftpOurPort, s, z)
        BY <3>2, <1>2, <1>6
      <4> QED BY <3>2, <4>1, <2>1, <2>3, <2>6, <2>7, <1>3 DEF ClientToTake, clientVars
    <3> QED BY <3>1, <3>2, <1>2
  <2> QED BY <2>2, <2>5, <2>8, <2>9, <1>1, <1>3, <1>4, WrapServes
<1> QED BY <1>5, <1>6

\* The acknowledgement of the last packet, which the client sent once, brings the
\* next block.
LEMMA WrapAck ==
    ASSUME TypeInv, WrapInv, Reliable, NEW s \in Sessions, NEW m \in toServer,
           ServerAck(s, m)
    PROVE  WrapInv'
<1>0. PICK r, x : /\ r = [st |-> "data", port |-> m.port, blk |-> sess[s].blk,
                             sent |-> sess[s].sent + 1]
                  /\ x = Data(m.port, s, sess[s].blk, sess[s].sent + 1)
  OBVIOUS
<1>1. /\ m.type = "ACK" /\ m.sid = s /\ m.port = sess[s].port
      /\ Opened(s)
      /\ sess[s].sent < BlockCount(sess[s].blk)
      /\ toServer' = toServer \ {m}
      /\ sess' = [sess EXCEPT ![s] = r]
      /\ toClient' = toClient \cup {x}
      /\ UNCHANGED serverVars
  BY <1>0 DEF ServerAck, Opened, Taken
<1>2. /\ sess[s] \in SessionRecords
      /\ sess[s].blk \in BlkSizes /\ sess[s].blk \in Nat \ {0}
      /\ sess[s].sent \in Nat
      /\ sess[s].port \in Ports
      /\ BlockCount(sess[s].blk) \in Nat
  BY <1>1, WrapSession, BlockCountNat
<1>3. /\ r \in SessionRecords
      /\ r.st = "data" /\ r.port = sess[s].port /\ r.blk = sess[s].blk
      /\ r.sent = sess[s].sent + 1
      /\ x.port = m.port
  BY <1>0, <1>1, <1>2 DEF SessionRecords, Data
<1>4. /\ sess' \in [Sessions -> SessionRecords \cup {NoSession}]
      /\ sess'[s] = r
      /\ \A t \in Sessions : t # s => sess'[t] = sess[t]
  BY <1>1, <1>3 DEF TypeInv, TypeOK, TftpTypeOK
<1>5. SessionOK(s)'
  BY <1>1, <1>2, <1>3, <1>4 DEF SessionOK
<1>6. CASE m.port # TftpOurPort
  BY <1>1, <1>3, <1>4, <1>5, <1>6, WrapServesOther DEF OurSession
<1>7. CASE m.port = TftpOurPort
  <2>1. UNCHANGED clientVars
    BY <1>1 DEF serverVars, clientVars, tftpVars
  <2>2. OurSession(s) /\ \A t \in Sessions : OurSession(t) => t = s
    BY <1>1, <1>7 DEF WrapInv, OurSession
  <2>3. ServerToSend(s)
    <3>1. ServerToSend(s) \/ ClientToTake(s)
      BY <2>2 DEF WrapInv
    <3> QED BY <3>1, <1>7 DEF ClientToTake
  <2>4. \A y \in toServer' : y.port # TftpOurPort
    BY <2>3, <1>1, <1>7 DEF ServerToSend
  <2>5. HasBlocks(s, sess[s].sent)
    BY <2>3 DEF ServerToSend
  <2>6. PICK n \in Nat : n = sess[s].sent
    BY <1>2
  <2>7. HasBlocks(s, n)'
    BY <2>1, <2>5, <2>6, <1>3, <1>4, HasBlocksKept
  <2>8. sess'[s].sent - 1 = n /\ sess'[s].sent > 0
    BY <2>6, <1>3, <1>4
  <2>9. HasBlocks(s, sess[s].sent - 1)'
    BY <2>7, <2>8
  <2>10. \A y \in toClient' : y.port = TftpOurPort =>
            y.type = "ERROR" \/ y = Data(TftpOurPort, s, r.blk, r.sent)
    BY <2>3, <1>0, <1>1, <1>3, <1>7 DEF ServerToSend
  <2>11. ClientToTake(s)'
    BY <2>1, <2>4, <2>8, <2>9, <2>10, <1>4 DEF ClientToTake, clientVars
  <2>12. NetArpWaitTxPacket = NoPacket
    BY <1>7 DEF WrapInv, PortIdle
  <2>13. OurSession(s)'
    BY <2>1, <1>1, <1>3, <1>4, <1>7 DEF OurSession, Opened, clientVars
  <2> QED BY <2>2, <2>11, <2>12, <2>13, <1>1, <1>4, <1>5, WrapServes
<1> QED BY <1>6, <1>7

\* A session that is given up.
LEMMA WrapAbort ==
    ASSUME TypeInv, WrapInv, NEW s \in Sessions, ServerAbort(s)
    PROVE  WrapInv'
<1>0. PICK r, x : /\ r = [st |-> "dead", port |-> sess[s].port,
                          blk |-> sess[s].blk, sent |-> sess[s].sent]
                  /\ x = Error(sess[s].port, s)
  OBVIOUS
<1>1. /\ Opened(s)
      /\ toClient' = toClient \cup {x}
      /\ UNCHANGED serverVars /\ UNCHANGED toServer
      /\ x.type = "ERROR" /\ x.port = sess[s].port
  BY <1>0 DEF ServerAbort, Opened, Error
<1>2. /\ sess[s] \in SessionRecords /\ sess[s].sent <= BlockCount(sess[s].blk)
      /\ sess[s].sent \in Nat
  BY <1>1, WrapSession
<1>3. /\ \A t \in Sessions : t # s => sess'[t] = sess[t]
      /\ sess'[s] = r
      /\ sess' \in [Sessions -> SessionRecords \cup {NoSession}]
  <2>1. sess'[s] = r /\ \A t \in Sessions : t # s => sess'[t] = sess[t]
    BY <1>0, <1>2 DEF ServerAbort, TypeInv, TypeOK, TftpTypeOK, SessionRecords
  <2>2. sess' \in [Sessions -> SessionRecords \cup {NoSession}]
    BY TypeServers DEF ServerStep, TypeOK, TftpTypeOK
  <2> QED BY <2>1, <2>2
<1>4. /\ r.st = "dead" /\ r.port = sess[s].port /\ r.blk = sess[s].blk
      /\ r.sent = sess[s].sent /\ r \in SessionRecords
  BY <1>0, <1>2 DEF SessionRecords
<1>5. SessionOK(s)'
  BY <1>2, <1>3, <1>4 DEF SessionOK
<1>6. CASE sess[s].port # TftpOurPort
  BY <1>1, <1>3, <1>4, <1>5, <1>6, WrapServesOther DEF OurSession
<1>7. CASE sess[s].port = TftpOurPort
  <2>1. UNCHANGED clientVars /\ UNCHANGED <<NetArpWaitTxPacket, NetState>>
    BY <1>1 DEF serverVars, clientVars, tftpVars, arpVars, loopVars
  <2>2. OurSession(s) /\ \A t \in Sessions : OurSession(t) => t = s
    BY <1>1, <1>7 DEF WrapInv, OurSession
  <2>3. OurSession(s)' /\ \A t \in Sessions : OurSession(t)' => t = s
    BY <2>1, <2>2, <1>3, <1>4, <1>7 DEF OurSession, Opened, clientVars
  <2>4. NetArpWaitTxPacket = NoPacket
    BY <1>7 DEF WrapInv, PortIdle
  <2>5. \A n \in Int : HasBlocks(s, n) => HasBlocks(s, n)'
    BY <2>1, <1>3, <1>4, HasBlocksKept
  <2>6. PICK n \in Nat : n = sess[s].sent
    BY <1>2
  <2>7. ASSUME ServerToSend(s) PROVE ServerToSend(s)'
    <3>1. HasBlocks(s, n)'
      BY <2>5, <2>6, <2>7 DEF ServerToSend
    <3>2. HasBlocks(s, sess[s].sent)'
      BY <3>1, <2>6, <1>3, <1>4
    <3> QED BY <2>1, <2>7, <3>2, <1>1, <1>3, <1>4 DEF ServerToSend, clientVars
  <2>8. ASSUME ClientToTake(s) PROVE ClientToTake(s)'
    <3>1. HasBlocks(s, n - 1) => HasBlocks(s, n - 1)'
      BY <2>5
    <3>2. HasBlocks(s, sess[s].sent - 1) => HasBlocks(s, sess[s].sent - 1)'
      BY <3>1, <2>6, <1>3, <1>4
    <3> QED BY <2>1, <2>8, <3>2, <1>1, <1>3, <1>4 DEF ClientToTake, clientVars
  <2>9. ServerToSend(s)' \/ ClientToTake(s)'
    <3>1. ServerToSend(s) \/ ClientToTake(s)
      BY <2>2 DEF WrapInv
    <3> QED BY <3>1, <2>7, <2>8
  <2>10. \A t \in Sessions : SessionOK(t)'
    BY <1>3, <1>5 DEF WrapInv, SessionOK
  <2> QED BY <2>1, <2>3, <2>4, <2>9, <2>10
          DEF WrapInv, SuccessMeansWholeFile, Right, NoPacket, Rrq, clientVars
<1> QED BY <1>6, <1>7

\* The end of an earlier attempt does not touch this one.
LEMMA WrapExpire ==
    ASSUME TypeInv, WrapInv, NEW p \in Ports, Expire(p)
    PROVE  WrapInv'
<1>1. /\ p # TftpOurPort
      /\ toServer' \subseteq toServer
      /\ toClient' \subseteq toClient
      /\ UNCHANGED serverVars
      /\ \A t \in Sessions : \/ sess'[t] = sess[t]
                             \/ sess'[t] = NoSession /\ sess[t].port = p
  BY DEF Expire
<1>2. UNCHANGED clientVars /\ UNCHANGED <<NetArpWaitTxPacket, NetState>>
  BY <1>1 DEF serverVars, clientVars, tftpVars, arpVars, loopVars
<1>3. \A t \in Sessions : SessionOK(t)'
  BY <1>1 DEF WrapInv, SessionOK
<1>4. \A t \in Sessions :
              \/ sess'[t] = sess[t]
              \/ /\ ~OurSession(t) /\ ~OurSession(t)'
                 /\ TftpOurPort \in Ports => sess'[t].port # TftpOurPort
  BY <1>1, <1>2, TftpAssumption DEF OurSession, Opened, NoSession, NoPort, clientVars
<1> QED BY <1>1, <1>2, <1>3, <1>4, WrapFrame

\* Every step but a retransmission keeps the turns.
LEMMA WrapInvStep ==
    ASSUME Reliable, TypeInv, ParkedInv, WrapInv, [Next]_vars, ~Resend
    PROVE  WrapInv'
<1>1. CASE NetPass /\ UNCHANGED <<tftpVars, mem, sess>>
  BY <1>1, WrapPass, WrapArpReply
<1>2. CASE NetLoopCall \/ SwitchRestart
  BY <1>2, WrapRestart DEF NetLoopCall, SwitchRestart
<1>3. CASE NetLoopCallFails
  <2>1. /\ UNCHANGED clientVars /\ UNCHANGED <<sess, toServer, toClient>>
        /\ NetArpWaitTxPacket' = NoPacket
        /\ NetState' = "SUCCESS" => NetState = "SUCCESS"
    BY <1>3 DEF NetLoopCallFails, clientVars, tftpVars
  <2> QED BY <2>1, WrapSilent
<1>4. CASE TftpTimeout
  <2>1. ~(TftpTimeoutCount + 1 <= TIMEOUT_COUNT)
    BY <1>4, TftpAssumption DEF Resend, TypeInv, TypeOK, TftpTypeOK
  <2>2. /\ UNCHANGED clientVars /\ UNCHANGED <<sess, toServer, toClient, NetArpWaitTxPacket>>
        /\ NetState' = "SUCCESS" => NetState = "SUCCESS"
    BY <1>4, <2>1 DEF TftpTimeout, NetStartAgain, clientVars
  <2> QED BY <2>2, WrapSilent
<1>5. CASE \E m \in toClient : TftpHandler(m)
  <2> PICK m \in toClient : TftpHandler(m)
    BY <1>5
  <2>1. CASE RxUnaccepted(m) \/ RxError(m)
    <3>1. /\ UNCHANGED clientVars
          /\ UNCHANGED <<sess, toServer, NetArpWaitTxPacket>>
          /\ toClient' \subseteq toClient
          /\ NetState' = "SUCCESS" => NetState = "SUCCESS"
      BY <2>1 DEF RxUnaccepted, RxError, NetStartAgain, Receive, Taken, clientVars, loopVars
    <3> QED BY <3>1, WrapSilent
  <2> QED BY <2>1, WrapOack, WrapBlock, WrapNoRepeat DEF TftpHandler
<1>6. CASE ServerStep
  BY <1>6, WrapOpen, WrapAck, WrapAbort DEF ServerStep
<1>7. CASE \E p \in Ports : Expire(p)
  BY <1>7, WrapExpire
<1>8. CASE UNCHANGED vars
  <2>1. /\ UNCHANGED clientVars
        /\ UNCHANGED <<sess, toServer, toClient, NetArpWaitTxPacket, NetState>>
    BY <1>8 DEF vars, netVars, tftpVars, arpVars, loopVars, clientVars
  <2> QED BY <2>1, WrapSilent
<1> QED BY <1>1, <1>2, <1>3, <1>4, <1>5, <1>6, <1>7, <1>8 DEF Next, ClientStep

\* With no attempt yet there is nothing under way.
LEMMA WrapInvInit == Init => WrapInv
BY DEF Init, WrapInv, SessionOK, NoSessionYet, OurSession, Opened, NoSession,
       SuccessMeansWholeFile, Rrq, NoPacket

\* What is stored is always a beginning of the file.
LEMMA WrapImage == TypeInv /\ WrapInv => ImageInv
<1> SUFFICES ASSUME TypeInv, WrapInv PROVE ImageOK
  BY DEF TypeInv, WrapInv, ImageInv
<1>1. ASSUME NetBootFileXferSize = 0 PROVE ImageOK
  BY <1>1, RightNone, TftpAssumption DEF ImageOK
<1>2. ASSUME NEW s \in Sessions, OurSession(s), NEW n \in Nat, HasBlocks(s, n)
      PROVE  ImageOK
  <2>1. n = 0 => NetBootFileXferSize = 0
    BY <1>2 DEF HasBlocks
  <2>2. CASE n > 0
    <3> DEFINE a == n * sess[s].blk
    <3>1. a \in Int
      <4>1. sess[s].blk \in Nat
        BY <1>2, WrapSession DEF OurSession
      <4> QED BY <4>1, SMT
    <3>2. Right(a) /\ NetBootFileXferSize = Lesser(a, FileLen)
      BY <1>2, <2>2 DEF HasBlocks
    <3> HIDE DEF a
    <3>3. Lesser(a, FileLen) \in Int /\ Lesser(a, FileLen) <= a /\ Lesser(a, FileLen) <= FileLen
      BY <3>1, TftpAssumption DEF Lesser
    <3> QED BY <3>1, <3>2, <3>3, RightMono DEF ImageOK
  <2> QED BY <1>1, <2>1, <2>2
<1>3. CASE TftpState \in {"none", "RRQ"}
  BY <1>1, <1>3 DEF WrapInv
<1>4. CASE TftpState \notin {"none", "RRQ"}
  <2>1. PICK s \in Sessions : OurSession(s) /\ (ServerToSend(s) \/ ClientToTake(s))
    BY <1>4 DEF WrapInv, NoSessionYet
  <2>2. sess[s].sent \in Nat
    BY <2>1, WrapSession DEF OurSession
  <2>3. CASE ServerToSend(s)
    BY <2>1, <2>2, <2>3, <1>2 DEF ServerToSend
  <2>4. CASE ClientToTake(s)
    <3>1. sess[s].sent > 0 /\ HasBlocks(s, sess[s].sent - 1)
      BY <2>4, <1>4 DEF ClientToTake
    <3>2. sess[s].sent - 1 \in Nat
      BY <3>1, <2>2
    <3> QED BY <2>1, <3>1, <3>2, <1>2
  <2> QED BY <2>1, <2>3, <2>4
<1> QED BY <1>3, <1>4

\* The turns are kept in every run without repetitions.
LEMMA WrapSafety ==
    ASSUME Reliable
    PROVE  Spec /\ [][~Resend]_vars => [](TypeInv /\ WrapInv)
<1>1. Init => ParkedInv
  BY DEF Init, ParkedInv
<1>2. TypeInv /\ ParkedInv /\ WrapInv /\ [Next]_vars /\ [~Resend]_vars => WrapInv'
  <2> SUFFICES ASSUME TypeInv, ParkedInv, WrapInv, [Next]_vars, [~Resend]_vars
               PROVE  WrapInv'
    OBVIOUS
  <2>1. CASE ~Resend
    BY <2>1, WrapInvStep
  <2>2. CASE UNCHANGED vars
    <3>1. /\ UNCHANGED clientVars
          /\ UNCHANGED <<sess, toServer, toClient, NetArpWaitTxPacket, NetState>>
      BY <2>2 DEF vars, netVars, tftpVars, arpVars, loopVars, clientVars
    <3> QED BY <3>1, WrapSilent
  <2> QED BY <2>1, <2>2
<1> QED BY <1>1, <1>2, TypeInvInit, TypeInvStep, ParkedInvStep, WrapInvInit, PTL
        DEF Spec

\* However long the file and however often the block numbers wrap: if the wire
\* delivers no packet twice and TftpTimeout sends none again, TftpHandler reports
\* success only with the whole file in RAM.
THEOREM WrappedDownload ==
    ASSUME Reliable
    PROVE  Spec /\ [][~Resend]_vars => []SuccessMeansWholeFile
<1>1. WrapInv => SuccessMeansWholeFile
  BY DEF WrapInv
<1> QED BY <1>1, WrapSafety, PTL

\* In such runs tftp over NetLoop implements Download for every file.
THEOREM WrappedRefinement ==
    ASSUME Reliable
    PROVE  Spec /\ [][~Resend]_vars => ImplementsDownload
<1>1. ImageInv /\ ImageInv' /\ [Next]_vars => [D!Next]_<<status, image, result>>
  BY DownloadStep
<1> QED BY <1>1, DownloadInit, WrapSafety, WrapImage, PTL
        DEF Spec, ImplementsDownload, D!Spec
=============================================================================
