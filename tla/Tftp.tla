-------------------------------- MODULE Tftp --------------------------------
(***************************************************************************)
(* The TFTP client of U-Boot (u-boot-1.1.6/net/tftp.c) on top of the       *)
(* network loop, and the TFTP servers and the wire it talks to.            *)
(*                                                                         *)
(* The file has FileLen units (bytes, scaled down with the block sizes);   *)
(* unit u of the file has the value u.  mem is the RAM at load_addr: the   *)
(* download is right when mem[u] = u.  A DATA packet carries the number    *)
(* its header shows (seq, modulo TFTP_SEQUENCE_SIZE) and its payload: the  *)
(* file units from..from+len-1.                                            *)
(***************************************************************************)
EXTENDS Net

CONSTANTS
    FileLen,              \* length of the file on the server
    TFTP_BLOCK_SIZE,      \* block size without the blksize option
    OackBlkSizes,         \* block sizes a server grants; NoOption if it does
                          \* not mention blksize in its OACK
    NoOption,
    TFTP_SEQUENCE_SIZE,   \* 2^16 in the code
    TIMEOUT_COUNT,        \* timeouts before giving up
    Ports,                \* values of TftpOurPort
    Sessions,             \* ports of server sessions (transfer identifiers)
    WELL_KNOWN_PORT

ASSUME TftpAssumption ==
    /\ FileLen \in Nat
    /\ TFTP_BLOCK_SIZE \in Nat \ {0}
    /\ NoOption = 0
    /\ OackBlkSizes \subseteq Nat
    /\ TFTP_SEQUENCE_SIZE \in Nat \ {0, 1}
    /\ TIMEOUT_COUNT \in Nat
    /\ WELL_KNOWN_PORT \notin Sessions
    /\ 0 \notin Ports

VARIABLES
    TftpState,            \* "RRQ", "OACK" or "DATA"; "none" before the first
    TftpServerPort,       \* the session we talk to
    TftpOurPort,
    TftpTimeoutCount,
    TftpBlock,            \* number of the last DATA packet looked at
    TftpLastBlock,        \* number of the last DATA packet accepted
    TftpBlockWrapOffset,  \* memory offset due to wrapped numbers
    TftpBlkSize,
    mem,                  \* RAM at load_addr
    sess                  \* the servers' sessions

tftpVars == <<TftpState, TftpServerPort, TftpOurPort, TftpTimeoutCount,
              TftpBlock, TftpLastBlock, TftpBlockWrapOffset, TftpBlkSize>>
netVars == <<pc, loopVars, arpVars, envVars, netretry, NetBootFileXferSize,
             arpWire, toServer, toClient>>
vars == <<netVars, tftpVars, mem, sess>>

-----------------------------------------------------------------------------
(***************************************************************************)
(* Packets.                                                                *)
(***************************************************************************)
Rrq(p)       == [type |-> "RRQ", port |-> p]
Ack(p, s, n) == [type |-> "ACK", port |-> p, sid |-> s, seq |-> n]
Oack(p, s, z) == [type |-> "OACK", port |-> p, sid |-> s, blk |-> z]
Error(p, s)  == [type |-> "ERROR", port |-> p, sid |-> s]

\* The file in blocks of z units: block i, 1 <= i <= BlockCount(z).  The
\* last one is shorter than z, and empty if z divides FileLen.
BlockCount(z) == FileLen \div z + 1
BlockLen(z, i) == IF i < BlockCount(z) THEN z ELSE FileLen - (i - 1) * z
Data(p, s, z, i) ==
    [type |-> "DATA", port |-> p, sid |-> s, seq |-> i % TFTP_SEQUENCE_SIZE,
     from |-> (i - 1) * z, len |-> BlockLen(z, i)]

NoPort == 0
NoSession == [st |-> "free", port |-> NoPort, blk |-> 0, sent |-> 0]

-----------------------------------------------------------------------------
(***************************************************************************)
(* The client.                                                             *)
(***************************************************************************)

\* The packet TftpSend builds in state st.
TftpPacket(st, port, srv, block) ==
    IF st = "RRQ" THEN Rrq(port) ELSE Ack(port, srv, block)

\* TftpSend with the values the caller has just assigned.
TftpSend(st, srv, block) ==
    NetSendUDPPacket(NetServerEther, eth, arpWire,
                     TftpPacket(st, TftpOurPort, srv, block))

\* get_timer() gives a port that the network holds nothing for: no datagram
\* and no session is left over from an earlier attempt with the same number.
PortIdle(p) ==
    /\ \A m \in toServer \cup toClient : m.port # p
    /\ \A s \in Sessions : sess[s].port # p

\* TftpStart.  NetServerEther is cleared, so the request is always parked.
TftpStart ==
    /\ timeHandler' = "tftp"
    /\ packetHandler' = "tftp"
    /\ TftpServerPort' = WELL_KNOWN_PORT
    /\ TftpTimeoutCount' = 0
    /\ TftpState' = "RRQ"
    /\ \E p \in Ports :
          /\ PortIdle(p)
          /\ TftpOurPort' = p
          /\ NetSendUDPPacket("null", "up", arpWire,
                              TftpPacket("RRQ", p, WELL_KNOWN_PORT, 0))
    /\ TftpBlock' = 0
    /\ NetServerEther' = "null"
    /\ TftpBlkSize' = TFTP_BLOCK_SIZE
    /\ UNCHANGED <<TftpLastBlock, TftpBlockWrapOffset>>

\* Wrong on purpose: the size of the earlier attempt stays.
RestartKeepsSize ==
    /\ pc' = "rx"
    /\ NetState' = "CONTINUE"
    /\ TftpStart
    /\ UNCHANGED <<NetBootFileXferSize, toClient, mem, sess>>

\* The code from label restart: to the loop.
Restart ==
    /\ pc' = "rx"
    /\ NetState' = "CONTINUE"
    /\ TftpStart
    /\ NetBootFileXferSize' = 0
    /\ UNCHANGED <<toClient, mem, sess>>

\* NetLoop(TFTP) is called, with the device coming up and the addresses set.
NetLoopCall ==
    /\ pc = "idle"
    /\ netretry' \in NetRetryValues
    /\ eth' = "up"
    /\ Restart
    /\ UNCHANGED envVars

\* eth_init fails, or net_check_prereq does, after NetState has been reset.
NetLoopCallFails ==
    /\ pc = "idle"
    /\ NetState' \in {NetState, "CONTINUE"}
    /\ eth' = "down"
    /\ NetArpWaitTxPacket' = NoPacket
    /\ result' = -1
    /\ UNCHANGED <<pc, packetHandler, timeHandler, netretry, filesize,
                   filesizeRounded, NetArpWaitTry, NetServerEther,
                   NetBootFileXferSize, arpWire, toServer, toClient, tftpVars,
                   mem, sess>>

\* NETLOOP_RESTART.
SwitchRestart ==
    /\ pc = "switch"
    /\ NetState = "RESTART"
    /\ Restart
    /\ UNCHANGED <<eth, netretry, envVars>>

\* TftpTimeout, called with the handler already cleared.
TftpTimeout ==
    /\ pc = "timer"
    /\ timeHandler = "tftp"
    /\ pc' = "switch"
    /\ TftpTimeoutCount' = TftpTimeoutCount + 1
    /\ \/ /\ TftpTimeoutCount + 1 > TIMEOUT_COUNT
          /\ NetStartAgain("none")
          /\ UNCHANGED <<NetArpWaitTxPacket, NetArpWaitTry, arpWire, toServer>>
       \/ /\ TftpTimeoutCount + 1 <= TIMEOUT_COUNT
          /\ timeHandler' = "tftp"
          /\ TftpSend(TftpState, TftpServerPort, TftpBlock)
          /\ UNCHANGED <<NetState, packetHandler, eth>>
    /\ UNCHANGED <<envVars, netretry, NetServerEther, NetBootFileXferSize,
                   toClient, TftpState, TftpServerPort, TftpOurPort, TftpBlock,
                   TftpLastBlock, TftpBlockWrapOffset, TftpBlkSize, mem, sess>>

-----------------------------------------------------------------------------
(***************************************************************************)
(* TftpHandler.                                                            *)
(***************************************************************************)

\* Wrong on purpose: without the check on the server's port.
TftpAcceptsAnyServer(m) == m.port = TftpOurPort

\* The checks on the ports.  In state RRQ any server port will do.
TftpAccepts(m) ==
    /\ m.port = TftpOurPort
    /\ TftpState = "RRQ" \/ m.sid = TftpServerPort

\* What every receive action does: eth_rx hands m to TftpHandler.
Receive(m) ==
    /\ pc = "rx"
    /\ packetHandler = "tftp"
    /\ pc' = "arp"
    /\ toClient' = Taken(toClient, m)
    /\ UNCHANGED <<envVars, netretry, NetServerEther, TftpOurPort,
                   TftpTimeoutCount, sess>>

RxUnaccepted(m) ==
    /\ Receive(m)
    /\ ~TftpAccepts(m)
    /\ UNCHANGED <<loopVars, NetArpWaitTxPacket, NetArpWaitTry, arpWire,
                   toServer, NetBootFileXferSize, TftpState, TftpServerPort,
                   TftpBlock, TftpLastBlock, TftpBlockWrapOffset, TftpBlkSize,
                   mem>>

\* TFTP_OACK, taken in any state.
RxOack(m) ==
    /\ m.type = "OACK"
    /\ Receive(m)
    /\ TftpAccepts(m)
    /\ TftpState' = "OACK"
    /\ TftpServerPort' = m.sid
    /\ TftpBlkSize' = IF m.blk = NoOption THEN TftpBlkSize ELSE m.blk
    /\ TftpSend("OACK", m.sid, TftpBlock)
    /\ UNCHANGED <<loopVars, NetBootFileXferSize, TftpBlock, TftpLastBlock,
                   TftpBlockWrapOffset, mem>>

\* A DATA packet in state RRQ or OACK resets the counters.
FirstData == TftpState \in {"RRQ", "OACK"}

\* Wrong on purpose: wrapped numbers are not noticed.
WrapOffsetNone(n) == IF FirstData THEN 0 ELSE TftpBlockWrapOffset

\* TftpBlockWrapOffset when the duplicate check is reached.
WrapOffset(n) ==
    IF FirstData THEN 0
    ELSE IF n = 0 THEN TftpBlockWrapOffset + TftpBlkSize * TFTP_SEQUENCE_SIZE
         ELSE TftpBlockWrapOffset

SameBlock(n) == n = (IF FirstData THEN 0 ELSE TftpLastBlock)

\* The part of TFTP_DATA before the checks on the number.
DataHeader(m) ==
    /\ m.type = "DATA"
    /\ Receive(m)
    /\ TftpAccepts(m)
    /\ TftpState' = "DATA"
    /\ TftpServerPort' = m.sid
    /\ TftpBlock' = m.seq
    /\ TftpBlockWrapOffset' = WrapOffset(m.seq)
    /\ UNCHANGED TftpBlkSize

\* "First block is not block 1".
RxFirstNotOne(m) ==
    /\ DataHeader(m)
    /\ FirstData
    /\ m.seq # 1
    /\ TftpLastBlock' = 0
    /\ NetStartAgain(timeHandler)
    /\ UNCHANGED <<NetArpWaitTxPacket, NetArpWaitTry, arpWire, toServer,
                   NetBootFileXferSize, mem>>

\* "Same block again; ignore it."
RxSameBlock(m) ==
    /\ DataHeader(m)
    /\ ~(FirstData /\ m.seq # 1)
    /\ SameBlock(m.seq)
    /\ TftpLastBlock' = m.seq
    /\ UNCHANGED <<loopVars, NetArpWaitTxPacket, NetArpWaitTry, arpWire,
                   toServer, NetBootFileXferSize, mem>>

\* Wrong on purpose: store_block(TftpBlock, ...).
StoreOffsetFromOne(n) == n * TftpBlkSize + WrapOffset(n)

\* store_block(TftpBlock - 1, ...): the offset uses the values just assigned.
StoreOffset(n) == (n - 1) * TftpBlkSize + WrapOffset(n)

StoreBlock(m) ==
    LET offset == StoreOffset(m.seq) IN
    /\ mem' = [u \in DOMAIN mem |->
                 IF offset <= u /\ u < offset + m.len
                 THEN m.from + (u - offset) ELSE mem[u]]
    /\ NetBootFileXferSize' = IF NetBootFileXferSize < offset + m.len
                              THEN offset + m.len ELSE NetBootFileXferSize

\* A new block: store and acknowledge it; a short one ends the transfer.
RxBlock(m) ==
    /\ DataHeader(m)
    /\ ~(FirstData /\ m.seq # 1)
    /\ ~SameBlock(m.seq)
    /\ TftpLastBlock' = m.seq
    /\ timeHandler' = "tftp"
    /\ StoreBlock(m)
    /\ TftpSend("DATA", m.sid, m.seq)
    /\ NetState' = IF m.len < TftpBlkSize THEN "SUCCESS" ELSE NetState
    /\ UNCHANGED <<packetHandler, eth>>

\* TFTP_ERROR.
RxError(m) ==
    /\ m.type = "ERROR"
    /\ Receive(m)
    /\ TftpAccepts(m)
    /\ NetStartAgain(timeHandler)
    /\ UNCHANGED <<NetArpWaitTxPacket, NetArpWaitTry, arpWire, toServer,
                   NetBootFileXferSize, TftpState, TftpServerPort, TftpBlock,
                   TftpLastBlock, TftpBlockWrapOffset, TftpBlkSize, mem>>

TftpHandler(m) ==
    \/ RxUnaccepted(m) \/ RxOack(m) \/ RxError(m)
    \/ RxFirstNotOne(m) \/ RxSameBlock(m) \/ RxBlock(m)

-----------------------------------------------------------------------------
(***************************************************************************)
(* The environment: servers that follow RFC 1350 and 2347 (one session and *)
(* one port per request received, the next block only after the ACK of the *)
(* last one), and a wire on which nothing lives for ever.                  *)
(***************************************************************************)
serverVars == <<pc, loopVars, arpVars, envVars, netretry, NetBootFileXferSize,
                arpWire, tftpVars, mem>>

ServerOpen(s, m) ==
    /\ m.type = "RRQ"
    /\ sess[s].st = "free"
    /\ toServer' = Taken(toServer, m)
    /\ \/ \E z \in OackBlkSizes :
             /\ sess' = [sess EXCEPT ![s] =
                   [st |-> "oack", port |-> m.port, sent |-> 0,
                    blk |-> IF z = NoOption THEN TFTP_BLOCK_SIZE ELSE z]]
             /\ toClient' = toClient \cup {Oack(m.port, s, z)}
       \/ /\ sess' = [sess EXCEPT ![s] =
                [st |-> "data", port |-> m.port, blk |-> TFTP_BLOCK_SIZE,
                 sent |-> 1]]
          /\ toClient' = toClient \cup {Data(m.port, s, TFTP_BLOCK_SIZE, 1)}
       \/ /\ sess' = [sess EXCEPT ![s] =
                [st |-> "dead", port |-> m.port, blk |-> TFTP_BLOCK_SIZE,
                 sent |-> 0]]
          /\ toClient' = toClient \cup {Error(m.port, s)}
    /\ UNCHANGED serverVars

ServerAck(s, m) ==
    /\ m.type = "ACK"
    /\ m.sid = s
    /\ m.port = sess[s].port
    /\ sess[s].st \in {"oack", "data"}
    /\ m.seq = sess[s].sent % TFTP_SEQUENCE_SIZE
    /\ sess[s].sent < BlockCount(sess[s].blk)
    /\ toServer' = Taken(toServer, m)
    /\ sess' = [sess EXCEPT ![s] =
          [st |-> "data", port |-> m.port, blk |-> sess[s].blk,
           sent |-> sess[s].sent + 1]]
    /\ toClient' = toClient \cup
          {Data(m.port, s, sess[s].blk, sess[s].sent + 1)}
    /\ UNCHANGED serverVars

\* A server gives a session up.
ServerAbort(s) ==
    /\ sess[s].st \in {"oack", "data"}
    /\ sess' = [sess EXCEPT ![s].st = "dead"]
    /\ toClient' = toClient \cup {Error(sess[s].port, s)}
    /\ UNCHANGED <<serverVars, toServer>>

\* The last packets of an attempt that is over leave the network, and the
\* sessions they belonged to end.
Expire(p) ==
    /\ p # TftpOurPort
    /\ NetArpWaitTxPacket # Rrq(p)
    /\ ~PortIdle(p)
    /\ toServer' = {m \in toServer : m.port # p}
    /\ toClient' = {m \in toClient : m.port # p}
    /\ sess' = [s \in Sessions |->
                  IF sess[s].port = p THEN NoSession ELSE sess[s]]
    /\ UNCHANGED serverVars

-----------------------------------------------------------------------------
Init ==
    /\ pc = "idle"
    /\ NetState = "CONTINUE"
    /\ packetHandler = "none"
    /\ timeHandler = "none"
    /\ eth = "down"
    /\ netretry \in NetRetryValues
    /\ NetServerEther = "null"
    /\ NetArpWaitTxPacket = NoPacket
    /\ NetArpWaitTry = 0
    /\ NetBootFileXferSize = 0
    /\ result = -1
    /\ filesize = Unset
    /\ filesizeRounded = Unset
    /\ arpWire = {}
    /\ toServer = {}
    /\ toClient = {}
    /\ TftpState = "none"
    /\ TftpServerPort = NoPort
    /\ TftpOurPort = NoPort
    /\ TftpTimeoutCount = 0
    /\ TftpBlock = 0
    /\ TftpLastBlock = 0
    /\ TftpBlockWrapOffset = 0
    /\ TftpBlkSize = TFTP_BLOCK_SIZE
    /\ mem = [u \in 0..(FileLen - 1) |-> Unset]
    /\ sess = [s \in Sessions |-> NoSession]

ClientStep ==
    \/ NetPass /\ UNCHANGED <<tftpVars, mem, sess>>
    \/ NetLoopCall \/ NetLoopCallFails \/ SwitchRestart \/ TftpTimeout
    \/ \E m \in toClient : TftpHandler(m)

ServerStep ==
    \/ \E s \in Sessions, m \in toServer : ServerOpen(s, m) \/ ServerAck(s, m)
    \/ \E s \in Sessions : ServerAbort(s)

Next ==
    \/ ClientStep
    \/ ServerStep
    \/ \E p \in Ports : Expire(p)

Spec == Init /\ [][Next]_vars
=============================================================================
