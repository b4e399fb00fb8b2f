------------------------------ MODULE TrackTable ------------------------------
(***************************************************************************)
(* Tun2Socks as a whole: the tun reader, which reads packets and hands     *)
(* each to the track of its connection (Run, tcp, udp), the two tables of  *)
(* tracks behind their locks, the tun writer, and Stop.                    *)
(*                                                                         *)
(* A track is what TrackLife says of it: it runs, closes quitBySelf,       *)
(* clears its entry, and is gone.  A critical section is one step; it is   *)
(* disabled while Stop, the only caller that keeps a lock from one step to *)
(* the next, holds it.  Reading the device, testing the flag stopped,      *)
(* looking the track up, testing its flag destroyed, creating a track and  *)
(* delivering the packet are steps of their own, and so is every track     *)
(* Stop visits.  The packet Stop sends to itself through the device        *)
(* (stopMarker) is read like any UDP packet: isStopMarker has no caller.   *)
(***************************************************************************)
EXTENDS Naturals, FiniteSets

CONSTANTS
    Conns,          \* connection identifiers
    TcpTracks,      \* the tcpConnTracks that may be created, and
    UdpTracks,      \* the udpConnTracks: an element stands for a pointer
    Nil,
    WriteCap,       \* capacity of writeCh (10000)
    MaxAnswers      \* bound: cached answers whose goroutine has yet to push

Tracks == TcpTracks \cup UdpTracks

ASSUME Distinct ==
    /\ TcpTracks \cap UdpTracks = {}
    /\ Nil \notin Tracks /\ Nil \notin Conns
    /\ WriteCap \in Nat \ {0} /\ MaxAnswers \in Nat

VARIABLES
    tcpMap, udpMap,             \* tcpConnTrackMap and udpConnTrackMap
    conn,                       \* a track's id; Nil before it is created
    phase, destroyed, quitBySelf, quitByOther,      \* TrackLife, per track
    reader,                     \* where Run is, the packet, its track
    writer,                     \* the tun writer goroutine
    queued,                     \* packets in writeCh
    answers,                    \* cached answers on their way to writeCh
    stop                        \* where Stop is, the tracks left to visit

lives == <<conn, phase, destroyed, quitBySelf, quitByOther>>
tables == <<tcpMap, udpMap>>
outgoing == <<queued, answers>>
vars == <<tables, lives, reader, writer, outgoing, stop>>
-----------------------------------------------------------------------------
Maybe(S) == S \cup {Nil}

\* segment: neither SYN nor RST; dns: UDP to port 53; udp: any other UDP.
Kinds == {"syn", "rst", "segment", "udp", "dns"}
Datagram == {"udp", "dns"}

TypeOK ==
    /\ tcpMap \in [Conns -> Maybe(TcpTracks)]
    /\ udpMap \in [Conns -> Maybe(UdpTracks)]
    /\ conn \in [Tracks -> Maybe(Conns)]
    /\ phase \in [Tracks -> {"none", "run", "clear", "done"}]
    /\ destroyed \in [Tracks -> BOOLEAN]
    /\ quitBySelf \in [Tracks -> BOOLEAN]
    /\ quitByOther \in [Tracks -> BOOLEAN]
    /\ reader \in [pc: {"start", "read", "check", "get", "decide", "create",
                        "reset", "udp", "send", "done"},
                   kind: Kinds, conn: Maybe(Conns), track: Maybe(Tracks)]
    /\ writer \in {"start", "loop", "done"}
    /\ queued \in 0 .. WriteCap /\ answers \in 0 .. MaxAnswers
    /\ stop \in [pc: {"idle", "close", "lock", "tcp", "udp", "wait",
                      "returned"},
                 todo: SUBSET Tracks]

Idle == [pc |-> "read", kind |-> "udp", conn |-> Nil, track |-> Nil]

\* New, and Run called on a goroutine of its own.
Init ==
    /\ tcpMap = [c \in Conns |-> Nil] /\ udpMap = [c \in Conns |-> Nil]
    /\ conn = [t \in Tracks |-> Nil]
    /\ phase = [t \in Tracks |-> "none"]
    /\ destroyed = [t \in Tracks |-> FALSE]
    /\ quitBySelf = [t \in Tracks |-> FALSE]
    /\ quitByOther = [t \in Tracks |-> FALSE]
    /\ reader = [Idle EXCEPT !.pc = "start"]
    /\ writer = "start"
    /\ queued = 0 /\ answers = 0
    /\ stop = [pc |-> "idle", todo |-> {}]

\* Stop unlocks both tables when it returns.
TcpFree == stop.pc \notin {"tcp", "udp", "wait"}
UdpFree == stop.pc \notin {"udp", "wait"}
Stopped == stop.pc \in {"wait", "returned"}
DeviceOpen == stop.pc \in {"idle", "close"}

\* Mutant: the reader does not add itself.
WaitGroupOfWriter == writer # "loop"

\* wg: the reader and the writer each add themselves once they run.
WaitGroupEmpty == reader.pc \in {"start", "done"} /\ writer # "loop"

Mapped(map) == {map[c] : c \in Conns} \ {Nil}
-----------------------------------------------------------------------------
(* Run: the tun reader                                                     *)

At(pc) == reader.pc = pc
Goto(pc) == reader' = [reader EXCEPT !.pc = pc]

ReaderStarts ==
    /\ At("start") /\ reader' = Idle
    /\ UNCHANGED <<tables, lives, writer, outgoing, stop>>

\* A packet the reader can make something of.  The model lets it open a
\* connection only while there is a track left to open it with.
Read(kind, c) ==
    /\ At("read") /\ DeviceOpen
    /\ kind = "syn" => \E t \in TcpTracks : phase[t] = "none"
    /\ kind \in Datagram => \E t \in UdpTracks : phase[t] = "none"
                                                 \/ udpMap[c] # Nil
    /\ reader' = [pc |-> "check", kind |-> kind, conn |-> c, track |-> Nil]
    /\ UNCHANGED <<tables, lives, writer, outgoing, stop>>

\* A read of the closed device returns nothing, again and again.
ReadNothing ==
    /\ At("read") /\ ~DeviceOpen /\ Stopped
    /\ Goto("done")
    /\ UNCHANGED <<tables, lives, writer, outgoing, stop>>

ReaderChecks ==
    /\ At("check")
    /\ Goto(CASE Stopped -> "done"
              [] ~Stopped /\ reader.kind \in Datagram -> "udp"
              [] OTHER -> "get")
    /\ UNCHANGED <<tables, lives, writer, outgoing, stop>>

\* getTCPConnTrack
ReaderLooksUp ==
    /\ At("get") /\ TcpFree
    /\ reader' = [reader EXCEPT !.pc = "decide",
                                !.track = tcpMap[reader.conn]]
    /\ UNCHANGED <<tables, lives, writer, outgoing, stop>>

\* tcp(): a destroyed track counts as none.
Usable(t) == t # Nil /\ ~destroyed[t]

ReaderDecides ==
    /\ At("decide")
    /\ \/ Usable(reader.track) /\ Goto("send")
       \/ ~Usable(reader.track) /\ reader.kind = "rst" /\ reader' = Idle
       \/ /\ ~Usable(reader.track) /\ reader.kind = "syn"
          /\ reader' = [reader EXCEPT !.pc = "create", !.track = Nil]
       \/ /\ ~Usable(reader.track) /\ reader.kind = "segment"
          /\ reader' = [reader EXCEPT !.pc = "reset", !.track = Nil]
    /\ UNCHANGED <<tables, lives, writer, outgoing, stop>>

\* A RST answers a segment of no connection.
ReaderResets ==
    /\ At("reset") /\ queued < WriteCap
    /\ reader' = Idle
    /\ queued' = queued + 1
    /\ UNCHANGED <<tables, lives, writer, answers, stop>>

\* What createTCPConnTrack and getUDPConnTrack have in common.
Start(t, c) ==
    /\ phase[t] = "none"
    /\ phase' = [phase EXCEPT ![t] = "run"]
    /\ conn' = [conn EXCEPT ![t] = c]
    /\ reader' = [reader EXCEPT !.pc = "send", !.track = t]
    /\ UNCHANGED <<destroyed, quitBySelf, quitByOther>>

\* createTCPConnTrack(connID) overwrites what the id maps to.
CreateTcp(t) ==
    /\ At("create") /\ TcpFree
    /\ Start(t, reader.conn)
    /\ tcpMap' = [tcpMap EXCEPT ![reader.conn] = t]
    /\ UNCHANGED <<udpMap, writer, outgoing, stop>>

\* udp(), when the cache has the answer to a DNS request: another goroutine
\* puts it in writeCh, and the table is not looked at.
AnsweredFromCache ==
    /\ At("udp") /\ reader.kind = "dns" /\ answers < MaxAnswers
    /\ reader' = Idle
    /\ answers' = answers + 1
    /\ UNCHANGED <<tables, lives, writer, queued, stop>>

\* That goroutine, which wg does not count.
AnswerPushed ==
    /\ answers > 0 /\ queued < WriteCap
    /\ answers' = answers - 1
    /\ queued' = queued + 1
    /\ UNCHANGED <<tables, lives, reader, writer, stop>>

\* getUDPConnTrack
FindUdp ==
    /\ At("udp") /\ UdpFree /\ udpMap[reader.conn] # Nil
    /\ reader' = [reader EXCEPT !.pc = "send", !.track = udpMap[reader.conn]]
    /\ UNCHANGED <<tables, lives, writer, outgoing, stop>>

\* Mutant: a track that has ended counts as none, as it does in tcp().
CreateUdpOverEnded(t) ==
    /\ At("udp") /\ UdpFree
    /\ udpMap[reader.conn] # Nil => quitBySelf[udpMap[reader.conn]]
    /\ Start(t, reader.conn)
    /\ udpMap' = [udpMap EXCEPT ![reader.conn] = t]
    /\ UNCHANGED <<tcpMap, writer, outgoing, stop>>

CreateUdp(t) ==
    /\ At("udp") /\ UdpFree /\ udpMap[reader.conn] = Nil
    /\ Start(t, reader.conn)
    /\ udpMap' = [udpMap EXCEPT ![reader.conn] = t]
    /\ UNCHANGED <<tcpMap, writer, outgoing, stop>>

\* newPacket: the track takes the packet, at once or after dialling or
\* relaying; or one of the quit channels is closed.
TrackTakes ==
    /\ At("send")
    /\ phase[reader.track] = "run" \/ reader.track \in UdpTracks
    /\ reader' = Idle
    /\ UNCHANGED <<tables, lives, writer, outgoing, stop>>

\* Mutant: Stop's channel is forgotten.
ReaderGivesUpBySelf ==
    /\ At("send")
    /\ quitBySelf[reader.track]
    /\ reader' = Idle
    /\ UNCHANGED <<tables, lives, writer, outgoing, stop>>

ReaderGivesUp ==
    /\ At("send")
    /\ quitBySelf[reader.track] \/ quitByOther[reader.track]
    /\ reader' = Idle
    /\ UNCHANGED <<tables, lives, writer, outgoing, stop>>
-----------------------------------------------------------------------------
(* The tun writer                                                          *)

WriterStarts ==
    /\ writer = "start" /\ writer' = "loop"
    /\ UNCHANGED <<tables, lives, reader, outgoing, stop>>

WriterWrites ==
    /\ writer = "loop" /\ queued > 0
    /\ queued' = queued - 1
    /\ UNCHANGED <<tables, lives, reader, writer, answers, stop>>

\* writerStopCh; what is left in writeCh stays there.
WriterQuits ==
    /\ writer = "loop" /\ stop.pc # "idle"
    /\ writer' = "done"
    /\ UNCHANGED <<tables, lives, reader, outgoing, stop>>
-----------------------------------------------------------------------------
(* The tracks                                                              *)

\* A packet for the tun device.
TrackWrites(t) ==
    /\ phase[t] = "run" /\ queued < WriteCap
    /\ queued' = queued + 1
    /\ UNCHANGED <<tables, lives, reader, writer, answers, stop>>

\* The track's reader goroutine, or its idle time.
TrackCondemned(t) ==
    /\ t \in TcpTracks /\ phase[t] # "none"
    /\ destroyed' = [destroyed EXCEPT ![t] = TRUE]
    /\ UNCHANGED <<tables, conn, phase, quitBySelf, quitByOther, reader,
                   writer, outgoing, stop>>

\* quitBySelf is closed before the lock of the table is taken.
TrackEnds(t) ==
    /\ phase[t] = "run"
    /\ phase' = [phase EXCEPT ![t] = "clear"]
    /\ quitBySelf' = [quitBySelf EXCEPT ![t] = TRUE]
    /\ \/ UNCHANGED destroyed
       \/ t \in TcpTracks /\ destroyed' = [destroyed EXCEPT ![t] = TRUE]
    /\ UNCHANGED <<tables, conn, quitByOther, reader, writer, outgoing, stop>>

Gone(t) == phase' = [phase EXCEPT ![t] = "done"]

\* Mutant: the entry is deleted, what it maps to not marked.
ClearTcpOnlyDeletes(t) ==
    /\ t \in TcpTracks /\ phase[t] = "clear" /\ TcpFree
    /\ Gone(t)
    /\ tcpMap' = [tcpMap EXCEPT ![conn[t]] = Nil]
    /\ UNCHANGED <<udpMap, conn, destroyed, quitBySelf, quitByOther, reader,
                   writer, outgoing, stop>>

\* clearTCPConnTrack(id): the victim is whatever the id maps to by now.
ClearTcp(t) ==
    /\ t \in TcpTracks /\ phase[t] = "clear" /\ TcpFree
    /\ Gone(t)
    /\ LET victim == tcpMap[conn[t]]
       IN destroyed' = IF victim = Nil THEN destroyed
                         ELSE [destroyed EXCEPT ![victim] = TRUE]
    /\ tcpMap' = [tcpMap EXCEPT ![conn[t]] = Nil]
    /\ UNCHANGED <<udpMap, conn, quitBySelf, quitByOther, reader, writer,
                   outgoing, stop>>

\* clearUDPConnTrack(id)
ClearUdp(t) ==
    /\ t \in UdpTracks /\ phase[t] = "clear" /\ UdpFree
    /\ Gone(t)
    /\ udpMap' = [udpMap EXCEPT ![conn[t]] = Nil]
    /\ UNCHANGED <<tcpMap, conn, destroyed, quitBySelf, quitByOther, reader,
                   writer, outgoing, stop>>

\* The track leaves its entry to whoever closed quitByOther.
TrackQuits(t) ==
    /\ phase[t] = "run" /\ quitByOther[t]
    /\ Gone(t)
    /\ UNCHANGED <<tables, conn, destroyed, quitBySelf, quitByOther, reader,
                   writer, outgoing, stop>>
-----------------------------------------------------------------------------
(* Stop, called once                                                       *)

StopGoto(from, to, todo) ==
    /\ stop.pc = from /\ stop.todo = {}
    /\ stop' = [pc |-> to, todo |-> todo]
    /\ UNCHANGED <<tables, lives, reader, writer, outgoing>>

StopTellsWriter == StopGoto("idle", "close", {})
StopClosesDevice == StopGoto("close", "lock", {})
StopLocksTcp == StopGoto("lock", "tcp", Mapped(tcpMap))
StopLocksUdp == StopGoto("tcp", "udp", Mapped(udpMap))
StopSetsStopped == StopGoto("udp", "wait", {})
StopReturns == WaitGroupEmpty /\ StopGoto("wait", "returned", {})

\* Mutant: the tracks are told to quit but not marked.
StopTrackUnmarked(t) ==
    /\ t \in stop.todo
    /\ stop' = [stop EXCEPT !.todo = @ \ {t}]
    /\ quitByOther' = [quitByOther EXCEPT ![t] = TRUE]
    /\ UNCHANGED <<tables, conn, phase, destroyed, quitBySelf, reader, writer,
                   outgoing>>

StopTrack(t) ==
    /\ t \in stop.todo
    /\ stop' = [stop EXCEPT !.todo = @ \ {t}]
    /\ quitByOther' = [quitByOther EXCEPT ![t] = TRUE]
    /\ destroyed' = IF t \in TcpTracks THEN [destroyed EXCEPT ![t] = TRUE]
                                       ELSE destroyed
    /\ UNCHANGED <<tables, conn, phase, quitBySelf, reader, writer, outgoing>>
-----------------------------------------------------------------------------
ReaderStep ==
    \/ ReaderStarts \/ ReadNothing \/ ReaderChecks \/ ReaderLooksUp
    \/ ReaderDecides \/ ReaderResets \/ AnsweredFromCache \/ FindUdp
    \/ ReaderGivesUp
    \/ \E t \in TcpTracks : CreateTcp(t)
    \/ \E t \in UdpTracks : CreateUdp(t)

DeviceStep == \E kind \in Kinds, c \in Conns : Read(kind, c)

WriterStep == WriterStarts \/ WriterWrites \/ WriterQuits

TrackStep ==
    \/ TrackTakes
    \/ \E t \in Tracks :
          \/ TrackWrites(t) \/ TrackCondemned(t) \/ TrackEnds(t)
          \/ ClearTcp(t) \/ ClearUdp(t) \/ TrackQuits(t)

StopStep ==
    \/ StopClosesDevice \/ StopLocksTcp \/ StopLocksUdp \/ StopSetsStopped
    \/ StopReturns
    \/ \E t \in Tracks : StopTrack(t)

Next ==
    \/ ReaderStep \/ DeviceStep \/ AnswerPushed \/ WriterStep \/ TrackStep
    \/ StopTellsWriter \/ StopStep

Spec == Init /\ [][Next]_vars

\* The scheduler runs the reader, the writer and, once it is called, Stop.
\* Nothing is promised about the tracks: they may wait for their peers.
Fairness ==
    /\ WF_vars(ReaderStep)
    /\ WF_vars(WriterStarts) /\ WF_vars(WriterQuits)
    /\ WF_vars(StopStep)

FairSpec == Spec /\ Fairness
=============================================================================
