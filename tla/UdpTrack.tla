------------------------------- MODULE UdpTrack -------------------------------
(***************************************************************************)
(* One UDP track of gotun2socks/tun2socks/udp.go: the goroutine run(),     *)
(* which asks a SOCKS server for a UDP association and then relays between *)
(* the tun device and that server, and the two goroutines it starts:       *)
(* ConnMonitor, which waits for any event on the TCP connection of the     *)
(* association, and UDPReader, which reads the server's datagrams.  Around *)
(* them: the tun reader, which delivers the client's datagrams through     *)
(* newPacket, the tun writer, which empties writeCh, and Stop.             *)
(*                                                                         *)
(* A datagram is a count.  A channel that is only ever closed is the       *)
(* number of times it has been: a second close would end the process.      *)
(* Time is not modelled: an armed timer may fire at any moment.  The lock  *)
(* of the table is free whenever the track wants it (TrackTable says what  *)
(* happens when Stop keeps it).                                            *)
(***************************************************************************)
EXTENDS Naturals

CONSTANTS
    FromTunCap,     \* capacity of fromTunCh (100)
    WriteCap        \* capacity of writeCh (10000)

ASSUME UdpConstants ==
    /\ FromTunCap \in Nat \ {0}
    /\ WriteCap \in Nat \ {0}

VARIABLES
    run,            \* run(): where it is, which of the two dials it is at, and
                    \* whether the remote port is 53
    socksConn, udpBind,
    fromTunCh,      \* datagrams waiting in it
    socksClosed, quitBySelf, quitByOther, quitUDP,  \* times they were closed
    monitor,        \* the goroutine ConnMonitor
    reader,         \* the goroutine UDPReader
    mapped,         \* is the track in udpConnTrackMap?
    delivering,     \* is the tun reader in newPacket?
    queued,         \* packets in writeCh
    writer          \* does the tun writer run?

sockets == <<socksConn, udpBind>>
closes == <<socksClosed, quitBySelf, quitByOther, quitUDP>>
helpers == <<monitor, reader>>
device == <<mapped, delivering, queued, writer>>
vars == <<run, sockets, fromTunCh, closes, helpers, device>>

Relay == INSTANCE UdpReader WITH pc <- reader

SocketStates == {"nil", "open", "closed"}

TypeOK ==
    /\ run \in [pc: {"dial", "bind", "request", "reply", "select", "send",
                     "clear", "done"},
                tries: 0 .. 1, dns: BOOLEAN]
    /\ socksConn \in SocketStates /\ udpBind \in SocketStates
    /\ fromTunCh \in 0 .. FromTunCap
    /\ socksClosed \in Nat /\ quitBySelf \in Nat
    /\ quitByOther \in Nat /\ quitUDP \in Nat
    /\ monitor \in {"none", "read", "done"}
    /\ Relay!UdpReaderTypeOK
    /\ mapped \in BOOLEAN /\ delivering \in BOOLEAN
    /\ queued \in 0 .. WriteCap
    /\ writer \in BOOLEAN

\* getUDPConnTrack, up to `go track.run()`.
Init ==
    /\ run \in [pc: {"dial"}, tries: {0}, dns: BOOLEAN]
    /\ socksConn = "nil" /\ udpBind = "nil"
    /\ fromTunCh = 0
    /\ socksClosed = 0 /\ quitBySelf = 0 /\ quitByOther = 0 /\ quitUDP = 0
    /\ monitor = "none" /\ reader = "none"
    /\ mapped = TRUE /\ delivering = FALSE
    /\ queued = 0 /\ writer = TRUE
-----------------------------------------------------------------------------
(* run(): the handshake with the SOCKS server                              *)

At(pc) == run.pc = pc
Goto(pc) == run' = [run EXCEPT !.pc = pc]

\* Mutant: the tun reader is not told.
GiveUpSilently ==
    /\ Goto("clear")
    /\ socksConn' = IF socksConn = "nil" THEN "nil" ELSE "closed"
    /\ socksClosed' = socksClosed + 1
    /\ UNCHANGED <<udpBind, fromTunCh, quitBySelf, quitByOther, quitUDP,
                   helpers, device>>

\* Every failed handshake: the two channels are closed, udpBind is not.
GiveUp ==
    /\ Goto("clear")
    /\ socksConn' = IF socksConn = "nil" THEN "nil" ELSE "closed"
    /\ socksClosed' = socksClosed + 1
    /\ quitBySelf' = quitBySelf + 1
    /\ UNCHANGED <<udpBind, fromTunCh, quitByOther, quitUDP, helpers, device>>

DialFails ==
    /\ At("dial")
    /\ IF run.tries = 0
         THEN /\ run' = [run EXCEPT !.tries = 1]
              /\ UNCHANGED <<sockets, fromTunCh, closes, helpers, device>>
         ELSE GiveUp

\* The connection has a minute for the rest of the handshake.
DialSucceeds ==
    /\ At("dial") /\ Goto("bind")
    /\ socksConn' = "open"
    /\ UNCHANGED <<udpBind, fromTunCh, closes, helpers, device>>

BindFails == At("bind") /\ GiveUp

BindSucceeds ==
    /\ At("bind") /\ Goto("request")
    /\ udpBind' = "open"
    /\ UNCHANGED <<socksConn, fromTunCh, closes, helpers, device>>

RequestFails == At("request") /\ GiveUp

\* Mutant: ConnMonitor is started before the reply is read.
RequestSentMonitored ==
    /\ At("request") /\ Goto("reply")
    /\ monitor' = "read"
    /\ UNCHANGED <<sockets, fromTunCh, closes, reader, device>>

RequestSent ==
    /\ At("request") /\ Goto("reply")
    /\ UNCHANGED <<sockets, fromTunCh, closes, helpers, device>>

\* No reply within the minute, or one that refuses.
ReplyFails == At("reply") /\ GiveUp

\* Both helpers are started.
ReplyGranted ==
    /\ At("reply") /\ Goto("select")
    /\ monitor' = "read" /\ Relay!Started
    /\ UNCHANGED <<sockets, fromTunCh, closes, device>>
-----------------------------------------------------------------------------
(* run(): relaying                                                         *)

\* Every way out of the loop but one, up to clearUDPConnTrack.
Leave ==
    /\ Goto("clear")
    /\ socksConn' = "closed" /\ udpBind' = "closed"
    /\ quitBySelf' = quitBySelf + 1

\* Mutant: the helpers are not told.
ClearTrackOnly ==
    /\ At("clear") /\ Goto("done")
    /\ mapped' = FALSE
    /\ UNCHANGED <<sockets, fromTunCh, closes, helpers, delivering, queued,
                   writer>>

\* clearUDPConnTrack, then close(quitUDP) if there is such a channel.
ClearTrack ==
    /\ At("clear") /\ Goto("done")
    /\ mapped' = FALSE
    /\ quitUDP' = IF reader = "none" THEN quitUDP ELSE quitUDP + 1
    /\ UNCHANGED <<sockets, fromTunCh, socksClosed, quitBySelf, quitByOther,
                   helpers, delivering, queued, writer>>

\* A datagram of the server that is not from the relay address, cannot be
\* parsed, or is a fragment.
SelectIgnores ==
    /\ At("select") /\ Relay!Taken
    /\ UNCHANGED <<run, sockets, fromTunCh, closes, monitor, device>>

SelectAnswer ==
    /\ At("select") /\ Goto("send") /\ Relay!Taken
    /\ UNCHANGED <<sockets, fromTunCh, closes, monitor, device>>

\* The channel of the UDPReader is closed.
SelectReaderClosed ==
    /\ At("select") /\ reader = "closed"
    /\ Leave
    /\ UNCHANGED <<fromTunCh, socksClosed, quitByOther, quitUDP, helpers,
                   device>>

\* send: the answer goes to writeCh, which may be full.  A DNS track has then
\* done its work.
Send ==
    /\ At("send") /\ queued < WriteCap
    /\ queued' = queued + 1
    /\ \/ run.dns /\ Leave
       \/ ~run.dns /\ Goto("select") /\ UNCHANGED <<sockets, quitBySelf>>
    /\ UNCHANGED <<fromTunCh, socksClosed, quitByOther, quitUDP, helpers,
                   mapped, delivering, writer>>

\* A datagram of the client goes to the relay address, or the write fails.
SelectFromTun ==
    /\ At("select") /\ fromTunCh > 0
    /\ fromTunCh' = fromTunCh - 1
    /\ \/ UNCHANGED <<run, sockets, quitBySelf>>
       \/ Leave
    /\ UNCHANGED <<socksClosed, quitByOther, quitUDP, helpers, device>>

SelectSocksClosed ==
    /\ At("select") /\ socksClosed > 0
    /\ Leave
    /\ UNCHANGED <<fromTunCh, socksClosed, quitByOther, quitUDP, helpers,
                   device>>

\* Mutant: only a DNS track has a timer.
SelectTimeoutOfDNS ==
    /\ At("select") /\ run.dns
    /\ Leave
    /\ UNCHANGED <<fromTunCh, socksClosed, quitByOther, quitUDP, helpers,
                   device>>

\* 10 seconds without an event for DNS, 2 minutes otherwise.
SelectTimeout ==
    /\ At("select")
    /\ Leave
    /\ UNCHANGED <<fromTunCh, socksClosed, quitByOther, quitUDP, helpers,
                   device>>

\* Mutant: the socket of the association is forgotten.
SelectQuitKeepsBind ==
    /\ At("select") /\ quitByOther > 0
    /\ Goto("done")
    /\ socksConn' = "closed"
    /\ quitUDP' = quitUDP + 1
    /\ UNCHANGED <<udpBind, fromTunCh, socksClosed, quitBySelf, quitByOther,
                   helpers, device>>

SelectQuit ==
    /\ At("select") /\ quitByOther > 0
    /\ Goto("done")
    /\ socksConn' = "closed" /\ udpBind' = "closed"
    /\ quitUDP' = quitUDP + 1
    /\ UNCHANGED <<fromTunCh, socksClosed, quitBySelf, quitByOther, helpers,
                   device>>
-----------------------------------------------------------------------------
(* ConnMonitor and UDPReader                                               *)

\* Anything the connection does ends the wait, its own Close included.
MonitorEnds ==
    /\ monitor = "read" /\ monitor' = "done"
    /\ socksClosed' = socksClosed + 1
    /\ UNCHANGED <<run, sockets, fromTunCh, quitBySelf, quitByOther, quitUDP,
                   reader, device>>

ReaderReads ==
    /\ udpBind = "open" /\ Relay!Reads
    /\ UNCHANGED <<run, sockets, fromTunCh, closes, monitor, device>>

ReaderFails ==
    /\ Relay!ReadFails
    /\ UNCHANGED <<run, sockets, fromTunCh, closes, monitor, device>>

ReaderQuits ==
    /\ quitUDP > 0 /\ Relay!Quits
    /\ UNCHANGED <<run, sockets, fromTunCh, closes, monitor, device>>
-----------------------------------------------------------------------------
(* The tun reader, the tun writer and Stop                                 *)

\* The tun reader has found the track in the table.
NewPacket ==
    /\ ~delivering /\ mapped
    /\ delivering' = TRUE
    /\ UNCHANGED <<run, sockets, fromTunCh, closes, helpers, mapped, queued,
                   writer>>

\* Mutant: newPacket waits for room and nothing else.
NewPacketTakenOnly ==
    /\ delivering /\ fromTunCh < FromTunCap
    /\ delivering' = FALSE /\ fromTunCh' = fromTunCh + 1
    /\ UNCHANGED <<run, sockets, closes, helpers, mapped, queued, writer>>

\* newPacket: the queue takes the datagram, or the track has quit.
NewPacketReturns ==
    /\ delivering /\ delivering' = FALSE
    /\ \/ fromTunCh < FromTunCap /\ fromTunCh' = fromTunCh + 1
       \/ quitBySelf + quitByOther > 0 /\ UNCHANGED fromTunCh
    /\ UNCHANGED <<run, sockets, closes, helpers, mapped, queued, writer>>

\* The other tracks.
OthersWrite ==
    /\ queued < WriteCap /\ queued' = queued + 1
    /\ UNCHANGED <<run, sockets, fromTunCh, closes, helpers, mapped,
                   delivering, writer>>

WriterWrites ==
    /\ writer /\ queued > 0 /\ queued' = queued - 1
    /\ UNCHANGED <<run, sockets, fromTunCh, closes, helpers, mapped,
                   delivering, writer>>

\* Stop begins: the tun writer quits.
StopTellsWriter ==
    /\ writer /\ writer' = FALSE
    /\ UNCHANGED <<run, sockets, fromTunCh, closes, helpers, mapped,
                   delivering, queued>>

\* Stop, on a track it finds in the table.
Stop ==
    /\ ~writer /\ mapped /\ quitByOther = 0
    /\ quitByOther' = 1
    /\ UNCHANGED <<run, sockets, fromTunCh, socksClosed, quitBySelf, quitUDP,
                   helpers, device>>
-----------------------------------------------------------------------------
RunStep ==
    \/ DialFails \/ DialSucceeds \/ BindFails \/ BindSucceeds \/ RequestFails
    \/ RequestSent \/ ReplyFails \/ ReplyGranted \/ ClearTrack \/ Send

SelectStep ==
    \/ SelectIgnores \/ SelectAnswer \/ SelectReaderClosed \/ SelectFromTun
    \/ SelectSocksClosed \/ SelectTimeout \/ SelectQuit

HelperStep == MonitorEnds \/ ReaderReads \/ ReaderFails \/ ReaderQuits

DeviceStep ==
    \/ NewPacket \/ NewPacketReturns \/ OthersWrite \/ WriterWrites
    \/ StopTellsWriter \/ Stop

Next == RunStep \/ SelectStep \/ HelperStep \/ DeviceStep

Spec == Init /\ [][Next]_vars

\* The scheduler runs every goroutine that can move.  A dial, the minute of
\* the handshake and the timer of the select end what they wait for, and a
\* select picks at random among its ready cases.  The network promises
\* nothing: a read fails only when its socket is closed.
Fairness ==
    /\ WF_vars(RunStep) /\ WF_vars(SelectStep)
    /\ SF_vars(SelectQuit) /\ SF_vars(SelectFromTun)
    /\ SF_vars(Send)
    /\ WF_vars(socksConn = "closed" /\ MonitorEnds)
    /\ WF_vars(udpBind = "closed" /\ ReaderFails)
    /\ SF_vars(ReaderQuits)
    /\ WF_vars(NewPacketReturns) /\ WF_vars(WriterWrites) /\ WF_vars(Stop)

FairSpec == Spec /\ Fairness
=============================================================================
