------------------------------- MODULE TftpInv -------------------------------
(***************************************************************************)
(* The inductive invariants behind the TFTP theorems: who may have sent    *)
(* what, and what RAM holds then.  IInv is for any wire and needs files    *)
(* short enough for the block numbers not to wrap (NoWrap); WrapInv is for *)
(* files of any length when nothing is sent or delivered twice; TypeInv    *)
(* needs neither.                                                          *)
(***************************************************************************)
EXTENDS TftpProps

NoWrap == \A z \in BlkSizes : BlockCount(z) < TFTP_SEQUENCE_SIZE

\* The client talks to a session, TftpServerPort.
Locked == TftpState \in {"OACK", "DATA"}
\* TftpHandler is installed and what it sends reaches the wire.
Active == packetHandler = "tftp" /\ eth = "up"

Opened(s) == sess[s].st # "free"

\* Everything a server sent comes from an open session and carries what the
\* session's block size says.
DownOK(m) ==
    /\ m.sid \in Sessions
    /\ Opened(m.sid)
    /\ m.port = sess[m.sid].port
    /\ \/ \E z \in OackBlkSizes :
             /\ m = Oack(m.port, m.sid, z)
             /\ sess[m.sid].blk = IF z = NoOption THEN TFTP_BLOCK_SIZE ELSE z
       \/ \E i \in 1..sess[m.sid].sent :
             m = Data(m.port, m.sid, sess[m.sid].blk, i)
       \/ m = Error(m.port, m.sid)

SessionOK(s) ==
    \/ sess[s] = NoSession
    \/ sess[s] \in SessionRecords /\ sess[s].sent <= BlockCount(sess[s].blk)

\* Before the client has settled on a session no session is past its first
\* packet.
UnlockedOK(s) ==
    Opened(s) /\ sess[s].port = TftpOurPort /\ ~Locked
        => /\ sess[s].sent <= 1
           /\ sess[s].sent = 1 => sess[s].blk = TFTP_BLOCK_SIZE

\* An acknowledgement of the current attempt is for the current session and
\* vouches for all blocks up to its number.
UpOK(m) ==
    m.type = "ACK" /\ m.port = TftpOurPort
        => /\ Locked
           /\ m.sid = TftpServerPort
           /\ m.seq <= sess[TftpServerPort].sent
           /\ Right(m.seq * TftpBlkSize)

\* What the client knows of its session.
LockedOK ==
    Locked =>
        /\ TftpServerPort \in Sessions
        /\ Opened(TftpServerPort)
        /\ sess[TftpServerPort].port = TftpOurPort
        /\ TftpBlkSize = sess[TftpServerPort].blk
        /\ Right((sess[TftpServerPort].sent - 1) * TftpBlkSize)
        /\ TftpState = "DATA" => /\ TftpBlockWrapOffset = 0
                                 /\ Right(TftpLastBlock * TftpBlkSize)
        /\ Active => /\ TftpBlock <= sess[TftpServerPort].sent
                     /\ Right(TftpBlock * TftpBlkSize)

StartOK ==
    /\ TftpState = "RRQ" => TftpBlock = 0 /\ TftpBlkSize = TFTP_BLOCK_SIZE
    /\ TftpState = "none" <=> TftpOurPort = NoPort

ImageOK == NetBootFileXferSize <= FileLen /\ Right(NetBootFileXferSize)

\* The control part: which handler, timer and device state go together.
LoopInv ==
    /\ pc \in {"idle", "rx", "arp", "timer", "switch"}
    /\ NetState \in {"CONTINUE", "RESTART", "SUCCESS", "FAIL"}
    /\ packetHandler \in {"none", "tftp", "startAgain"}
    /\ timeHandler \in {"none", "tftp", "startAgain"}
    /\ eth \in {"up", "down"}
    /\ pc = "rx" => NetState = "CONTINUE"
    /\ TftpTimeoutCount \in 0..(TIMEOUT_COUNT + 1)
    /\ timeHandler = "tftp" => TftpTimeoutCount <= TIMEOUT_COUNT
    /\ pc # "idle" =>
          /\ packetHandler = "tftp" /\ NetState # "FAIL"
                => TftpTimeoutCount <= TIMEOUT_COUNT
          /\ TftpState # "none"
          /\ packetHandler # "none"
          /\ packetHandler = "startAgain" => timeHandler # "tftp"
          /\ eth = "down" <=> NetState = "FAIL"
          /\ NetState = "FAIL" => netretry = "no"
          /\ netretry = "no" => timeHandler # "startAgain"
    /\ AlwaysATimer
    /\ HaltedOnReturn

\* Until the server's MAC address is known the request is parked and the
\* network holds nothing of this attempt; from then on nothing is parked.
ParkedInv ==
    /\ DOMAIN sess = Sessions
    /\ packetHandler = "tftp" =>
          \/ /\ NetServerEther = "null"
             /\ NetArpWaitTxPacket = Rrq(TftpOurPort)
             /\ TftpState = "RRQ"
             /\ TftpOurPort \in Ports /\ PortIdle(TftpOurPort)
          \/ /\ NetServerEther = "known" \/ pc = "idle"
             /\ NetArpWaitTxPacket = NoPacket

\* The types, with what the next step needs to know of the packets and ports.
DownPackets ==
    [type : {"OACK"}, port : Ports, sid : Sessions, blk : OackBlkSizes]
        \cup [type : {"DATA"}, port : Ports, sid : Sessions, seq : Numbers,
              from : Int, len : Int]
        \cup [type : {"ERROR"}, port : Ports, sid : Sessions]

TypeInv ==
    /\ TypeOK
    /\ LoopInv
    /\ toClient \subseteq DownPackets
    /\ TftpState = "none" <=> TftpOurPort = NoPort
    /\ Locked => TftpServerPort \in Sessions

\* The data part.
DataInv ==
    /\ \A m \in toClient : DownOK(m)
    /\ \A s \in Sessions : SessionOK(s) /\ UnlockedOK(s)
    /\ \A m \in toServer : UpOK(m)
    /\ eth = "up" => UpOK(NetArpWaitTxPacket)
    /\ LockedOK
    /\ StartOK
    /\ ImageOK
    /\ SuccessMeansWholeFile

IInv == TypeOK /\ LoopInv /\ DataInv

\* What the caller of the download relies on.
ImageInv == TypeOK /\ ImageOK /\ SuccessMeansWholeFile

-----------------------------------------------------------------------------
(***************************************************************************)
(* Files of any length, whose block numbers wrap, as long as no packet is  *)
(* there twice: the wire is Reliable and the client does not Resend.  Then *)
(* every packet of an attempt is under way once, and server and client     *)
(* take turns.                                                             *)
(***************************************************************************)
Resend == TftpTimeout /\ TftpTimeoutCount < TIMEOUT_COUNT

OurSession(s) == Opened(s) /\ sess[s].port = TftpOurPort

Lesser(a, b) == IF a < b THEN a ELSE b

\* The client has the first n blocks of session s.  TftpBlockWrapOffset counts
\* the rounds of the block numbers.
HasBlocks(s, n) ==
    LET z == sess[s].blk IN
    /\ TftpBlkSize = z
    /\ TftpState # "RRQ" => TftpServerPort = s
    /\ n = 0 => TftpState \in {"RRQ", "OACK"} /\ NetBootFileXferSize = 0
    /\ n > 0 => /\ TftpState = "DATA"
                /\ TftpLastBlock = n % TFTP_SEQUENCE_SIZE
                /\ TftpBlockWrapOffset =
                      (n \div TFTP_SEQUENCE_SIZE) * (z * TFTP_SEQUENCE_SIZE)
                /\ Right(n * z)
                /\ NetBootFileXferSize = Lesser(n * z, FileLen)

\* The client has what the server has sent, and at most its acknowledgement is
\* under way.
ServerToSend(s) ==
    /\ \A m \in toClient : m.port = TftpOurPort => m.type = "ERROR"
    /\ \A m \in toServer : m.port = TftpOurPort =>
          m = Ack(TftpOurPort, s, sess[s].sent % TFTP_SEQUENCE_SIZE)
    /\ HasBlocks(s, sess[s].sent)

\* At most the last packet of the server is under way.
ClientToTake(s) ==
    /\ \A m \in toServer : m.port # TftpOurPort
    /\ \/ /\ sess[s].sent > 0
          /\ \A m \in toClient : m.port = TftpOurPort =>
                m.type = "ERROR" \/ m = Data(TftpOurPort, s, sess[s].blk, sess[s].sent)
          /\ HasBlocks(s, sess[s].sent - 1)
       \/ /\ sess[s].sent = 0
          /\ \E z \in OackBlkSizes \cup {NoOption} :
                /\ sess[s].blk = IF z = NoOption THEN TFTP_BLOCK_SIZE ELSE z
                /\ \A m \in toClient : m.port = TftpOurPort =>
                      m.type = "ERROR" \/ m = Oack(TftpOurPort, s, z)
          /\ TftpState = "RRQ"

\* The request is under way, or nothing.
NoSessionYet ==
    /\ \A m \in toClient : m.port # TftpOurPort
    /\ \A m \in toServer : m.port = TftpOurPort => m = Rrq(TftpOurPort)
    /\ TftpState \in {"none", "RRQ"}

WrapInv ==
    /\ \A s \in Sessions : SessionOK(s)
    /\ TftpState \in {"none", "RRQ"} => /\ TftpBlock = 0
                                       /\ TftpBlkSize = TFTP_BLOCK_SIZE
                                       /\ NetBootFileXferSize = 0
    /\ \/ /\ NoSessionYet
          /\ \A s \in Sessions : ~OurSession(s)
       \/ \E s \in Sessions :
             /\ OurSession(s)
             /\ \A t \in Sessions : OurSession(t) => t = s
             /\ ServerToSend(s) \/ ClientToTake(s)
    /\ NetArpWaitTxPacket \in {NoPacket, Rrq(TftpOurPort)}
    /\ NetArpWaitTxPacket = Rrq(TftpOurPort) => PortIdle(TftpOurPort)
    /\ SuccessMeansWholeFile
=============================================================================
