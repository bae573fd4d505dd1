-------------------------------- MODULE Net --------------------------------
(***************************************************************************)
(* The network loop of U-Boot (u-boot-1.1.6/net/net.c) as built for the    *)
(* EmbedSky board: one Ethernet device (no CONFIG_NET_MULTI), driven by    *)
(* drivers/dm9000x.c.                                                      *)
(*                                                                         *)
(* NetLoop() is single threaded.  One pass of its for(;;) is the sequence  *)
(* of program points "rx" (eth_rx: at most one frame), "arp" (ctrlc and    *)
(* ArpTimeoutCheck), "timer" (the timeout handler) and "switch" (on        *)
(* NetState).  Everything a pass calls happens between two of these        *)
(* points; only the wire changes behind the loop's back.                   *)
(*                                                                         *)
(* Timers are untimed: an armed timer may be found expired at any pass.    *)
(* That is not only an abstraction: eth_send() can busy-wait five seconds, *)
(* so a timer armed in a pass can expire in the same pass.                 *)
(*                                                                         *)
(* A protocol (module Tftp) extends this module with its handlers.         *)
(***************************************************************************)
EXTENDS Integers

CONSTANTS
    ARP_TIMEOUT_COUNT,  \* ARP requests before giving up
    NetRetryValues,     \* values of the environment variable netretry
    EraseSize,          \* NAND erase block the download size is rounded to
    Reliable            \* TRUE: a frame is delivered at most once.  FALSE: a
                        \* frame stays on the wire: lost, late or repeated.

ASSUME NetAssumption ==
    /\ ARP_TIMEOUT_COUNT \in Nat \ {0}
    /\ EraseSize \in Nat \ {0}
    /\ Reliable \in BOOLEAN

VARIABLES
    pc,                   \* program point of NetLoop, "idle" when not called
    NetState,             \* loop state set by the handlers
    packetHandler,        \* the current receive handler
    timeHandler,          \* the current timeout handler, "none" if cleared
    eth,                  \* the DM9000: "up" or "down" (halted)
    netretry,             \* environment variable read by NetStartAgain
    NetServerEther,       \* the server's MAC address: "null" or "known"
    NetArpWaitTxPacket,   \* the one packet parked for ARP
    NetArpWaitTry,        \* ARP requests sent for it
    NetBootFileXferSize,  \* bytes (units) transferred
    result,               \* what the last NetLoop() returned
    filesize,             \* environment variable "filesize"
    filesizeRounded,      \* environment variable "filesize+1"
    arpWire,              \* ARP frames on the wire
    toServer,             \* UDP datagrams on the wire, board to server
    toClient              \* UDP datagrams on the wire, server to board

envVars  == <<filesize, filesizeRounded, result>>
arpVars  == <<NetArpWaitTxPacket, NetArpWaitTry, NetServerEther>>
loopVars == <<NetState, packetHandler, timeHandler, eth>>

NoPacket == [type |-> "none"]
Unset == -1

(***************************************************************************)
(* The wire.  Taken(air, m) is the wire after frame m has been received.   *)
(* A frame sent to a halted device goes nowhere.                           *)
(***************************************************************************)
Taken(air, m) == IF Reliable THEN air \ {m} ELSE air

EthSend(up, air, m) == IF up = "up" THEN air \cup {m} ELSE air

(***************************************************************************)
(* NetSendUDPPacket: with the server's MAC unknown the packet replaces     *)
(* whatever is parked, and an ARP request is broadcast instead.  ether is  *)
(* the caller's NetServerEther, up the device's state, air the ARP frames  *)
(* on the wire at the call.                                                *)
(***************************************************************************)
NetSendUDPPacket(ether, up, air, m) ==
    \/ /\ ether # "null"
       /\ toServer' = EthSend(up, toServer, m)
       /\ arpWire' = air
       /\ UNCHANGED <<NetArpWaitTxPacket, NetArpWaitTry>>
    \/ /\ ether = "null"
       /\ NetArpWaitTxPacket' = m
       /\ NetArpWaitTry' = 1
       /\ arpWire' = EthSend(up, air, "request")
       /\ UNCHANGED toServer

\* Wrong on purpose: without NetSetTimeout; without eth_halt; deaf to
\* netretry.
NetStartAgainNoTimer(armed) ==
    \/ /\ netretry = "no"
       /\ eth' = "down"
       /\ NetState' = "FAIL"
       /\ timeHandler' = armed
       /\ UNCHANGED packetHandler
    \/ /\ netretry # "no"
       /\ timeHandler' = armed
       /\ packetHandler' = "startAgain"
       /\ UNCHANGED <<NetState, eth>>

NetStartAgainNoHalt(armed) ==
    \/ /\ netretry = "no"
       /\ NetState' = "FAIL"
       /\ timeHandler' = armed
       /\ UNCHANGED <<packetHandler, eth>>
    \/ /\ netretry # "no"
       /\ timeHandler' = "startAgain"
       /\ packetHandler' = "startAgain"
       /\ UNCHANGED <<NetState, eth>>

NetStartAgainAlways(armed) ==
    /\ timeHandler' = "startAgain"
    /\ packetHandler' = "startAgain"
    /\ UNCHANGED <<NetState, eth>>

(***************************************************************************)
(* NetStartAgain: fail at once if netretry is "no", otherwise ignore       *)
(* packets for ten seconds and restart.  armed is the timeout handler at   *)
(* the call.  "once" is parsed but only used with CONFIG_NET_MULTI.        *)
(***************************************************************************)
NetStartAgain(armed) ==
    \/ /\ netretry = "no"
       /\ eth' = "down"
       /\ NetState' = "FAIL"
       /\ timeHandler' = armed
       /\ UNCHANGED packetHandler
    \/ /\ netretry # "no"
       /\ timeHandler' = "startAgain"
       /\ packetHandler' = "startAgain"
       /\ UNCHANGED <<NetState, eth>>

-----------------------------------------------------------------------------
(***************************************************************************)
(* One pass of the loop, apart from the protocol's own handlers.           *)
(***************************************************************************)

\* eth_rx finds nothing it passes on: no frame, a bad one, or one that
\* NetReceive drops or answers without touching the loop's state.
RxNothing ==
    /\ pc = "rx"
    /\ pc' = "arp"
    /\ UNCHANGED <<loopVars, arpVars, envVars, netretry, NetBootFileXferSize,
                   arpWire, toServer, toClient>>

\* Wrong on purpose: the parked packet stays parked once it is sent.
RxArpReplyKeepsPacket ==
    /\ pc = "rx"
    /\ "reply" \in arpWire
    /\ pc' = "arp"
    /\ arpWire' = Taken(arpWire, "reply")
    /\ NetArpWaitTxPacket # NoPacket
    /\ NetServerEther' = "known"
    /\ toServer' = EthSend(eth, toServer, NetArpWaitTxPacket)
    /\ UNCHANGED <<loopVars, envVars, netretry, NetArpWaitTxPacket, NetArpWaitTry,
                   NetBootFileXferSize, toClient>>

\* NetReceive, ARPOP_REPLY: learn the MAC and send the parked packet.  A
\* reply nobody waits for is dropped.
RxArpReply ==
    /\ pc = "rx"
    /\ "reply" \in arpWire
    /\ pc' = "arp"
    /\ arpWire' = Taken(arpWire, "reply")
    /\ \/ /\ NetArpWaitTxPacket # NoPacket
          /\ NetServerEther' = "known"
          /\ toServer' = EthSend(eth, toServer, NetArpWaitTxPacket)
          /\ NetArpWaitTxPacket' = NoPacket
       \/ /\ NetArpWaitTxPacket = NoPacket
          /\ UNCHANGED <<NetServerEther, toServer, NetArpWaitTxPacket>>
    /\ UNCHANGED <<loopVars, envVars, netretry, NetArpWaitTry,
                   NetBootFileXferSize, toClient>>

\* A datagram that reaches startAgainHandler is ignored.
RxWhileWaiting ==
    /\ pc = "rx"
    /\ packetHandler = "startAgain"
    /\ pc' = "arp"
    /\ \E m \in toClient : toClient' = Taken(toClient, m)
    /\ UNCHANGED <<loopVars, arpVars, envVars, netretry, NetBootFileXferSize,
                   arpWire, toServer>>

\* ctrl-c: halt the device and return -1.
CtrlC ==
    /\ pc = "arp"
    /\ pc' = "idle"
    /\ eth' = "down"
    /\ result' = -1
    /\ UNCHANGED <<NetState, packetHandler, timeHandler, arpVars, netretry,
                   filesize, filesizeRounded, NetBootFileXferSize,
                   arpWire, toServer, toClient>>

\* ArpTimeoutCheck with nothing to do.
ArpQuiet ==
    /\ pc = "arp"
    /\ pc' = "timer"
    /\ UNCHANGED <<loopVars, arpVars, envVars, netretry, NetBootFileXferSize,
                   arpWire, toServer, toClient>>

\* Wrong on purpose: the retries are not counted anew after giving up.
ArpTimeoutNoReset ==
    /\ pc = "arp"
    /\ NetArpWaitTxPacket # NoPacket
    /\ pc' = "timer"
    /\ NetArpWaitTry' = NetArpWaitTry + 1
    /\ \/ /\ NetArpWaitTry + 1 >= ARP_TIMEOUT_COUNT
          /\ NetStartAgain(timeHandler)
          /\ UNCHANGED arpWire
       \/ /\ NetArpWaitTry + 1 < ARP_TIMEOUT_COUNT
          /\ arpWire' = EthSend(eth, arpWire, "request")
          /\ UNCHANGED loopVars
    /\ UNCHANGED <<envVars, netretry, NetArpWaitTxPacket, NetServerEther,
                   NetBootFileXferSize, toServer, toClient>>

\* ArpTimeoutCheck with a parked packet and an expired ARP timer.  The
\* parked packet stays when the retries are used up.
ArpTimeout ==
    /\ pc = "arp"
    /\ NetArpWaitTxPacket # NoPacket
    /\ pc' = "timer"
    /\ \/ /\ NetArpWaitTry + 1 >= ARP_TIMEOUT_COUNT
          /\ NetArpWaitTry' = 0
          /\ NetStartAgain(timeHandler)
          /\ UNCHANGED arpWire
       \/ /\ NetArpWaitTry + 1 < ARP_TIMEOUT_COUNT
          /\ NetArpWaitTry' = NetArpWaitTry + 1
          /\ arpWire' = EthSend(eth, arpWire, "request")
          /\ UNCHANGED loopVars
    /\ UNCHANGED <<envVars, netretry, NetArpWaitTxPacket, NetServerEther,
                   NetBootFileXferSize, toServer, toClient>>

\* No timeout handler is armed, or it has not expired.
TimerQuiet ==
    /\ pc = "timer"
    /\ pc' = "switch"
    /\ UNCHANGED <<loopVars, arpVars, envVars, netretry, NetBootFileXferSize,
                   arpWire, toServer, toClient>>

\* startAgainTimeout, called with the handler already cleared.
StartAgainTimeout ==
    /\ pc = "timer"
    /\ timeHandler = "startAgain"
    /\ pc' = "switch"
    /\ timeHandler' = "none"
    /\ NetState' = "RESTART"
    /\ UNCHANGED <<packetHandler, eth, arpVars, envVars, netretry,
                   NetBootFileXferSize, arpWire, toServer, toClient>>

\* Wrong on purpose: a multiple gets a block too many.
RoundToNextErase(n) == (n \div EraseSize + 1) * EraseSize

\* The size rounded up to whole NAND erase blocks.
RoundToErase(n) ==
    IF n % EraseSize = 0 THEN n ELSE (n \div EraseSize + 1) * EraseSize

\* NetState is CONTINUE: another pass.
SwitchContinue ==
    /\ pc = "switch"
    /\ NetState = "CONTINUE"
    /\ pc' = "rx"
    /\ UNCHANGED <<loopVars, arpVars, envVars, netretry, NetBootFileXferSize,
                   arpWire, toServer, toClient>>

\* NETLOOP_SUCCESS: export the sizes (a transfer of nothing leaves the old
\* values), halt the device and return the size.
SwitchSuccess ==
    /\ pc = "switch"
    /\ NetState = "SUCCESS"
    /\ pc' = "idle"
    /\ eth' = "down"
    /\ result' = NetBootFileXferSize
    /\ \/ /\ NetBootFileXferSize > 0
          /\ filesize' = NetBootFileXferSize
          /\ filesizeRounded' = RoundToErase(NetBootFileXferSize)
       \/ /\ NetBootFileXferSize <= 0
          /\ UNCHANGED <<filesize, filesizeRounded>>
    /\ UNCHANGED <<NetState, packetHandler, timeHandler, arpVars, netretry,
                   NetBootFileXferSize, arpWire, toServer, toClient>>

\* NETLOOP_FAIL returns -1 and relies on whoever failed to have halted the
\* device.
SwitchFail ==
    /\ pc = "switch"
    /\ NetState = "FAIL"
    /\ pc' = "idle"
    /\ result' = -1
    /\ UNCHANGED <<loopVars, arpVars, netretry, filesize, filesizeRounded,
                   NetBootFileXferSize, arpWire, toServer, toClient>>

\* A host on the wire, the server or the gateway, answers an ARP request.
ArpAnswer ==
    /\ "request" \in arpWire
    /\ arpWire' = Taken(arpWire, "request") \cup {"reply"}
    /\ UNCHANGED <<pc, loopVars, arpVars, envVars, netretry,
                   NetBootFileXferSize, toServer, toClient>>

NetPass ==
    \/ RxNothing \/ RxArpReply \/ RxWhileWaiting
    \/ CtrlC \/ ArpQuiet \/ ArpTimeout
    \/ TimerQuiet \/ StartAgainTimeout
    \/ SwitchContinue \/ SwitchSuccess \/ SwitchFail
    \/ ArpAnswer
=============================================================================
