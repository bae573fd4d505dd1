------------------------------ MODULE TftpProps ------------------------------
(***************************************************************************)
(* Properties of the TFTP download.                                        *)
(***************************************************************************)
EXTENDS Tftp

BlkSizes == {TFTP_BLOCK_SIZE} \cup (OackBlkSizes \ {NoOption})
Numbers == 0..(TFTP_SEQUENCE_SIZE - 1)

UpPackets ==
    [type : {"RRQ"}, port : Ports]
        \cup [type : {"ACK"}, port : Ports, sid : Sessions, seq : Numbers]

SessionRecords ==
    [st : {"oack", "data", "dead"}, port : Ports, blk : BlkSizes, sent : Nat]

\* The values net.c's and tftp.c's variables range over.
NetTypeOK ==
    /\ pc \in {"idle", "rx", "arp", "timer", "switch"}
    /\ NetState \in {"CONTINUE", "RESTART", "SUCCESS", "FAIL"}
    /\ packetHandler \in {"none", "tftp", "startAgain"}
    /\ timeHandler \in {"none", "tftp", "startAgain"}
    /\ eth \in {"up", "down"}
    /\ NetServerEther \in {"null", "known"}
    /\ netretry \in NetRetryValues
    /\ NetArpWaitTxPacket \in UpPackets \cup {NoPacket}
    /\ NetArpWaitTry \in 0..ARP_TIMEOUT_COUNT
    /\ NetBootFileXferSize \in Nat
    /\ result \in Int /\ filesize \in Int /\ filesizeRounded \in Int
    /\ arpWire \subseteq {"request", "reply"}
    /\ toServer \subseteq UpPackets

TftpTypeOK ==
    /\ TftpState \in {"none", "RRQ", "OACK", "DATA"}
    /\ TftpServerPort \in Sessions \cup {WELL_KNOWN_PORT, NoPort}
    /\ TftpOurPort \in Ports \cup {NoPort}
    /\ TftpTimeoutCount \in 0..(TIMEOUT_COUNT + 1)
    /\ TftpBlock \in Numbers
    /\ TftpLastBlock \in Numbers
    /\ TftpBlockWrapOffset \in Nat
    /\ TftpBlkSize \in BlkSizes
    /\ mem \in [0..(FileLen - 1) -> Int]
    /\ sess \in [Sessions -> SessionRecords \cup {NoSession}]

TypeOK == NetTypeOK /\ TftpTypeOK

Right(n) == \A u \in 0..(FileLen - 1) : u < n => mem[u] = u

\* When TftpHandler reports NETLOOP_SUCCESS, RAM holds exactly the file and
\* NetBootFileXferSize is its length.
SuccessMeansWholeFile ==
    NetState = "SUCCESS" => Right(FileLen) /\ NetBootFileXferSize = FileLen

\* The loop never goes on waiting with no timeout armed.
AlwaysATimer == pc # "idle" /\ NetState = "CONTINUE" => timeHandler # "none"

\* NetLoop returns with the device halted on every path.
HaltedOnReturn == pc = "idle" => eth = "down"

\* An acknowledgement on the wire to the current server vouches for every
\* block up to its number.
AckedIsStored ==
    \A m \in toServer :
        m.type = "ACK" /\ m.port = TftpOurPort /\ m.sid = TftpServerPort
            => Right(m.seq * TftpBlkSize)

\* A packet parked for ARP is the request of the current attempt.
ParkedIsCurrent ==
    packetHandler = "tftp" /\ NetArpWaitTxPacket # NoPacket
        => NetArpWaitTxPacket = Rrq(TftpOurPort) /\ TftpState = "RRQ"

\* What NetLoop exports after a download: "filesize" is the size it returned,
\* and "filesize+1" the whole erase blocks needed for it and no more.
ExportedSizes ==
    filesize # Unset =>
        /\ filesizeRounded % EraseSize = 0
        /\ filesizeRounded - filesize \in 0..(EraseSize - 1)
        /\ result > 0 => result = filesize

\* README of U-Boot: with netretry "once" the operation fails after the
\* available interfaces, here one, have been tried once.
OnceFailsAfterOneTry == netretry = "once" => NetState # "RESTART"

\* tftp.c on a DATA packet with the number of the last one: "Same block
\* again; ignore it."  Nothing of the transfer may change.
DuplicateIgnored ==
    [][pc = "rx" /\ pc' = "arp" /\ TftpState = "DATA" /\ TftpBlock' = TftpLastBlock
          => UNCHANGED <<TftpLastBlock, TftpBlockWrapOffset, mem,
                         NetBootFileXferSize>>]_vars

-----------------------------------------------------------------------------
(***************************************************************************)
(* Liveness.  The loop keeps running, an armed timer expires, and packets  *)
(* of attempts that are over leave the network.                            *)
(***************************************************************************)
LoopStep ==
    \/ (RxNothing \/ ArpQuiet \/ TimerQuiet \/ SwitchContinue
           \/ SwitchSuccess \/ SwitchFail) /\ UNCHANGED <<tftpVars, mem, sess>>
    \/ SwitchRestart

FairSpec ==
    /\ Spec
    /\ WF_vars(LoopStep)
    /\ SF_vars(TftpTimeout)
    /\ SF_vars(StartAgainTimeout /\ UNCHANGED <<tftpVars, mem, sess>>)
    /\ \A p \in Ports : WF_vars(Expire(p))

\* An attempt never hangs: again and again the command has returned or
\* starts over.
EveryAttemptEnds == []<>(pc = "idle" \/ NetState = "RESTART")

\* With netretry "no" the command returns.
ReturnsWithoutRetry ==
    pc # "idle" /\ netretry = "no" ~> pc = "idle"

-----------------------------------------------------------------------------
(***************************************************************************)
(* What the caller of the download sees: see module Download.              *)
(***************************************************************************)
status == IF pc = "idle" THEN "idle" ELSE "loading"
image == [u \in 0..(NetBootFileXferSize - 1) |->
            IF u \in DOMAIN mem THEN mem[u] ELSE Unset]

D == INSTANCE Download WITH returned <- result

\* tftp over NetLoop implements the abstract download: whatever the wire does,
\* the image store_block builds only grows from the front or is started
\* afresh, and NetLoop returns a size only for the whole file.
ImplementsDownload == D!Spec
=============================================================================
