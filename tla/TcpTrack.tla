------------------------------- MODULE TcpTrack -------------------------------
(***************************************************************************)
(* One TCP connection track of gotun2socks/tun2socks/tcp.go: the goroutine *)
(* run() that plays the server's side of a simplified TCP towards the tun  *)
(* device, the goroutine tcpSocks2Tun that reads the upstream socket, and  *)
(* the writer goroutine it starts.  They share the fields of tcpConnTrack  *)
(* without a lock and talk over three channels:                            *)
(*                                                                         *)
(*    tun --input--> run --toSocksCh--> writer --> socket                  *)
(*    tun <--------- run <-fromSocksCh- reader <-- socket                  *)
(*                   run <-socksCloseCh- reader                            *)
(*                                                                         *)
(* A step of a goroutine is what it does between two points where another  *)
(* goroutine can see or change what it uses: every access to connectState, *)
(* recvWindow, sendWindow and destroyed that the code makes on its own is  *)
(* a step of its own.  Payload is abstracted to its position in the byte   *)
(* stream.  A segment's validity is decided by sequence numbers modulo     *)
(* SeqMod (2^32 in the code).  Time is not modelled: a timer may fire      *)
(* whenever it is armed.  writeCh (capacity 10000, tun2socks.go) is taken  *)
(* to accept every packet.                                                 *)
(***************************************************************************)
EXTENDS Integers, Sequences

CONSTANTS
    SeqMod,         \* sequence numbers are 0 .. SeqMod-1
    Isn,            \* the client's initial sequence number
    ClientBytes,    \* the client sends at most this many bytes
    ServerBytes,    \* and the server at most this many
    MaxSeg,         \* bytes of the largest payload, and of the largest Read
    MaxWindow,      \* MAX_RECV_WINDOW and MAX_SEND_WINDOW
    ToSocksCap,     \* capacity of toSocksCh (1500)
    FromSocksCap,   \* capacity of fromSocksCh (1500)
    MaxFins,        \* bound on the FINs run() sends
    Port,           \* "80", "443", or "other": any other, or a private host
    FirstUid,       \* what createTCPConnTrack's FindAppUid found
    AppProxy,       \* proxy type configured for the application's uid
    DefaultProxy,   \* proxy type used while the uid is unknown
    FastOpen,       \* may the SYN carry a payload that names a host?
    IdShared,       \* may other tracks have the same id?
    SocksReplies,   \* how the SOCKS server answers a CONNECT
    Windows         \* windows the client advertises

ProxyTypes == {"none", "socks", "http"}
UidValues == {"unknown", "app"}         \* "unknown" is -1

ASSUME Bounds ==
    /\ ClientBytes \in Nat /\ ServerBytes \in Nat
    /\ MaxSeg \in Nat \ {0} /\ MaxWindow \in Nat \ {0}
    /\ ToSocksCap \in Nat \ {0} /\ FromSocksCap \in Nat \ {0}
    /\ MaxFins \in Nat \ {0}
    /\ SeqMod \in Nat /\ SeqMod > ClientBytes + ServerBytes + MaxFins + 3
    /\ MaxSeg < SeqMod
    /\ Isn \in 0 .. SeqMod - 1
    /\ Windows \subseteq 0 .. MaxWindow

ASSUME Configuration ==
    /\ Port \in {"80", "443", "other"}
    /\ FirstUid \in UidValues
    /\ AppProxy \in ProxyTypes /\ DefaultProxy \in ProxyTypes
    /\ FastOpen \subseteq BOOLEAN
    /\ IdShared \in BOOLEAN
    /\ SocksReplies \subseteq {"ok", "error", "refused"}

VARIABLES
    tt,         \* the tcpConnTrack the three goroutines share
    table,      \* tcpConnTrackMap: is the track what its id maps to, and has
                \* Stop taken tcpConnTrackLock?
    run,        \* run(): where it is, the packet and window in its hands, and
                \* whether fromSocksCh, socksCloseCh and ackTimeout are enabled
    rd,         \* tcpSocks2Tun: where it is, wnd, and the bytes read
    wr,         \* the writer: where it is, its packet and wnd
    h           \* history, read by no guard

vars == <<tt, table, run, rd, wr, h>>
-----------------------------------------------------------------------------
Seqs == 0 .. SeqMod - 1
SeqAdd(a, n) == IF a + n < SeqMod THEN a + n ELSE a + n - SeqMod

\* Mutant: no upper limit.
AtMostUnlimited(a, b) == a

AtMost(a, b) == IF a < b THEN a ELSE b
NotBelow0(a) == IF a < 0 THEN 0 ELSE a

\* The bytes off .. off+len-1 of one side's stream.  A packet in run()'s hand
\* also has its FIN flag, "unread" where run() does not look at it.
Chunk == [off: Nat, len: 0 .. MaxSeg]
Packet == [off: Nat, len: 0 .. MaxSeg, fin: {"yes", "no", "unread"}]
NoChunk == [off |-> 0, len |-> 0]
NoPacket == [off |-> 0, len |-> 0, fin |-> "no"]

Track == [
    state: {"CLOSED", "SYN_RCVD", "ESTABLISHED", "FIN_WAIT_1", "FIN_WAIT_2",
            "CLOSING", "LAST_ACK", "TIME_WAIT"},
    rcvNxtSeq: Seqs, nxtSeq: Seqs, lastAck: Seqs,
    recvWindow: 0 .. MaxWindow, sendWindow: 0 .. MaxWindow,
    connectState: {"NOT_SENT", "SENT", "ESTABLISHED"},
    uid: UidValues,
    socksConn: {"nil", "open", "broken", "closed"}, \* broken: reset by peer
    destroyed: BOOLEAN, quitBySelf: BOOLEAN, quitByOther: BOOLEAN,
    toSocksCh: Seq(Chunk), fromSocksCh: Seq(Chunk),
    socksCloseCh: BOOLEAN]      \* readable: callSocks or the reader closed it

\* Stop keeps the lock from the walk over the tracks until it returns, and it
\* waits for the tun reader and writer in between.
Table == [mapped: BOOLEAN, locked: BOOLEAN]

RunLocals == [
    pc: {"top", "select", "dial", "relay", "wndload", "wndstore", "fin",
         "clear", "done", "panic"},
    pkt: Packet, wnd: 0 .. MaxWindow, armed: BOOLEAN]

ReaderLocals == [
    pc: {"none", "boot", "handshake", "failed", "loop", "park", "parked",
         "woken", "stuck", "read", "push", "cas", "bcast", "end", "done",
         "panic"},
    wnd: 0 .. MaxWindow, buf: Chunk]

WriterLocals == [
    pc: {"none", "loop", "got", "sent", "check", "wait", "parked", "write",
         "credit", "store", "done"},
    pkt: Chunk, wnd: 0 .. MaxWindow]

History == [
    relayed: Nat,       \* client bytes put in toSocksCh
    written: Nat,       \* ... the writer is finished with
    delivered: Nat,     \* ... the socket accepted
    srvRead: Nat,       \* server bytes read from the socket
    lost: Nat,          \* ... together with the proxy's reply, and dropped
    emitted: Nat,       \* ... sent to the tun device
    fins: Nat,          \* FINs sent to the tun device
    early: BOOLEAN,     \* did stateClosed write a CONNECT?
    connects: Nat,      \* CONNECTs the socket accepted from the writer
    dialled: ProxyTypes \cup {"no"},
    answer: {"none", "synack"}]     \* what the SYN was answered with

TypeOK ==
    /\ tt \in Track /\ table \in Table
    /\ run \in RunLocals /\ rd \in ReaderLocals /\ wr \in WriterLocals
    /\ h \in History

\* createTCPConnTrack, up to `go track.run()`.
Init ==
    /\ tt = [state |-> "CLOSED", rcvNxtSeq |-> 0, nxtSeq |-> 0, lastAck |-> 0,
             recvWindow |-> MaxWindow, sendWindow |-> MaxWindow,
             connectState |-> "NOT_SENT", uid |-> FirstUid,
             socksConn |-> "nil", destroyed |-> FALSE, quitBySelf |-> FALSE,
             quitByOther |-> FALSE, toSocksCh |-> <<>>, fromSocksCh |-> <<>>,
             socksCloseCh |-> FALSE]
    /\ table = [mapped |-> TRUE, locked |-> FALSE]
    /\ run = [pc |-> "top", pkt |-> NoPacket, wnd |-> 0, armed |-> FALSE]
    /\ rd = [pc |-> "none", wnd |-> 0, buf |-> NoChunk]
    /\ wr = [pc |-> "none", pkt |-> NoChunk, wnd |-> 0]
    /\ h = [relayed |-> 0, written |-> 0, delivered |-> 0, srvRead |-> 0,
            lost |-> 0, emitted |-> 0, fins |-> 0, early |-> FALSE,
            connects |-> 0, dialled |-> "no", answer |-> "none"]
-----------------------------------------------------------------------------
(* Segments, proxies and conditions                                        *)

\* A segment as ParseTCP hands it over.  seq is its sequence number relative
\* to Isn: 0 is the SYN, 1 the first byte.  acksAll: does its Ack field name
\* the byte run() will send next?  (An older acknowledgement does not.)
Segments ==
    {s \in [seq: 0 .. ClientBytes + 2, len: 0 .. MaxSeg, acksAll: BOOLEAN,
            fin: BOOLEAN, rst: BOOLEAN, ackf: BOOLEAN, wnd: Windows] :
        /\ s.len > 0 => s.seq \in 1 .. ClientBytes + 1 - s.len
        /\ s.rst => s.len = 0 /\ ~s.fin}

\* Mutant: sequence numbers are not compared.
validSeqAlways(s) == TRUE

validSeq(s) == SeqAdd(Isn, s.seq) = tt.rcvNxtSeq
validAck(s) == s.acksAll

Proxied == Port \in {"80", "443"}

\* loadProxyConfig
proxyType(u) == IF u = "app" THEN AppProxy ELSE DefaultProxy

\* FindAppUid, tried again where the attempts before found no application.
FindAppUid(u) == IF u = "unknown" THEN UidValues ELSE {u}

Closed(conn) == IF conn = "nil" THEN "nil" ELSE "closed"

\* The table's lock, as the other goroutines find it.
TableFree == ~table.locked
Unmap == table' = [table EXCEPT !.mapped = FALSE]

WakeReader == rd' = [rd EXCEPT !.pc = IF @ = "parked" THEN "woken" ELSE @]
WakeWriter == wr' = [wr EXCEPT !.pc = IF @ = "parked" THEN "write" ELSE @]
-----------------------------------------------------------------------------
(* run(): leaving the loop                                                 *)

RunAt(pc) == run.pc = pc
RunGoto(pc) == run' = [run EXCEPT !.pc = pc]

\* Mutants: the socket, or the quit channel, is forgotten.
EndedKeepsSocket(t) == [t EXCEPT !.quitBySelf = TRUE]
EndedKeepsQuit(t) == [t EXCEPT !.socksConn = Closed(@)]

\* The socket and quitBySelf are closed; clearTCPConnTrack is the next step,
\* because it waits for the lock of the track table.
Ended(t) == [t EXCEPT !.socksConn = Closed(@), !.quitBySelf = TRUE]

\* Mutant: the entry is deleted, the track not marked.
ClearTrackOnlyDeletes ==
    /\ RunAt("clear") /\ TableFree /\ RunGoto("done")
    /\ Unmap
    /\ WakeReader /\ WakeWriter
    /\ UNCHANGED <<tt, h>>

\* clearTCPConnTrack(tt.id) waits for the lock, which Stop may keep for ever,
\* and acts on whatever the id maps to.  Seen from this track: on itself,
\* unless another track's clear or create came first.
ClearTrack ==
    /\ RunAt("clear") /\ TableFree /\ RunGoto("done")
    /\ Unmap
    /\ IF table.mapped
         THEN tt' = [tt EXCEPT !.destroyed = TRUE] /\ WakeReader /\ WakeWriter
         ELSE UNCHANGED <<tt, rd, wr>>
    /\ UNCHANGED h

\* The head of the loop: arm the channels in ESTABLISHED, look at the idle
\* time there, leave if the track is destroyed.
RunTop ==
    /\ RunAt("top")
    /\ \E idle \in {FALSE, tt.state = "ESTABLISHED"} :
         LET t == [tt EXCEPT !.destroyed = @ \/ idle]
             leave == t.destroyed
         IN /\ tt' = IF leave THEN Ended(t) ELSE t
            /\ run' = [run EXCEPT !.armed = @ \/ tt.state = "ESTABLISHED",
                                  !.pc = IF leave THEN "clear" ELSE "select"]
    /\ UNCHANGED <<table, rd, wr, h>>

\* 30 seconds without an event.
SelectTimeout ==
    /\ RunAt("select") /\ RunGoto("clear")
    /\ tt' = Ended(tt)
    /\ UNCHANGED <<table, rd, wr, h>>

SelectQuit ==
    /\ RunAt("select") /\ tt.quitByOther
    /\ RunGoto("done")
    /\ tt' = [tt EXCEPT !.socksConn = Closed(@)]
    /\ UNCHANGED <<table, rd, wr, h>>
-----------------------------------------------------------------------------
(* run(): the other events of the select                                   *)

\* ack() and finAck(): everything sent acknowledges rcvNxtSeq.
Acked(t) == [t EXCEPT !.lastAck = t.rcvNxtSeq]
FinAcked(t) == [Acked(t) EXCEPT !.nxtSeq = SeqAdd(@, 1)]
CountFin == h' = [h EXCEPT !.fins = @ + 1]

\* The timer's channel may hold one tick after the state has changed.
SelectAck ==
    /\ RunAt("select") /\ run.armed
    /\ RunGoto("top")
    /\ tt' = IF tt.lastAck < tt.rcvNxtSeq THEN Acked(tt) ELSE tt
    /\ UNCHANGED <<table, rd, wr, h>>

\* Mutant: the sequence number is not advanced by the data.
SelectDataKeepsSeq ==
    /\ RunAt("select") /\ run.armed /\ tt.fromSocksCh # <<>>
    /\ RunGoto("top")
    /\ tt' = [Acked(tt) EXCEPT !.fromSocksCh = Tail(@)]
    /\ h' = [h EXCEPT !.emitted = @ + Head(tt.fromSocksCh).len]
    /\ UNCHANGED <<table, rd, wr>>

\* Mutant: the data stays in the channel.
SelectDataPeeks ==
    /\ RunAt("select") /\ run.armed /\ tt.fromSocksCh # <<>>
    /\ RunGoto("top")
    /\ LET n == Head(tt.fromSocksCh).len
       IN /\ tt' = [Acked(tt) EXCEPT !.nxtSeq = SeqAdd(@, n)]
          /\ h' = [h EXCEPT !.emitted = @ + n]
    /\ UNCHANGED <<table, rd, wr>>

SelectData ==
    /\ RunAt("select") /\ run.armed /\ tt.fromSocksCh # <<>>
    /\ RunGoto("top")
    /\ LET n == Head(tt.fromSocksCh).len
       IN /\ tt' = [Acked(tt) EXCEPT !.nxtSeq = SeqAdd(@, n),
                                     !.fromSocksCh = Tail(@)]
          /\ h' = [h EXCEPT !.emitted = @ + n]
    /\ UNCHANGED <<table, rd, wr>>

SelectClose ==
    /\ RunAt("select") /\ run.armed /\ tt.socksCloseCh
    /\ h.fins < MaxFins
    /\ RunGoto("top")
    /\ tt' = [FinAcked(tt) EXCEPT !.state = "FIN_WAIT_1"]
    /\ CountFin
    /\ UNCHANGED <<table, rd, wr>>
-----------------------------------------------------------------------------
(* run(): a packet from the tun device.  t is the track after              *)
(* updateSendWindow, s the segment.                                        *)

\* A handler that returns continu = TRUE with the track t, one that returns
\* FALSE, and one that goes on in a later step.
Continue(t) == tt' = t /\ RunGoto("top")
Finish(t) == tt' = [Ended(t) EXCEPT !.destroyed = TRUE] /\ RunGoto("clear")
Relay(t, s, fin) ==
    /\ tt' = t
    /\ run' = [run EXCEPT !.pc = "relay", !.pkt = [off |-> s.seq - 1,
                                                   len |-> s.len,
                                                   fin |-> fin]]

\* The first packet is the SYN the track was created for.  What payload it
\* carries is not acknowledged.  The dial itself (at most Timeout = 1s) is the
\* next step.
StateClosed(t, s) ==
    /\ t.state = "CLOSED"
    /\ s.seq = 0 /\ s.len = 0 /\ ~s.fin /\ ~s.rst /\ ~s.ackf
    /\ \E u \in (IF Proxied THEN FindAppUid(t.uid) ELSE {t.uid}) :
         /\ tt' = [t EXCEPT !.uid = u]
         /\ h' = [h EXCEPT !.dialled = IF Proxied THEN proxyType(u)
                                                  ELSE "none"]
    /\ RunGoto("dial")

\* An out-of-sequence packet is answered with a RST, which changes nothing.
StateSynRcvd(t, s) ==
    /\ t.state = "SYN_RCVD"
    /\ LET valid == validSeq(s) /\ validAck(s)
           open == [t EXCEPT !.state = "ESTABLISHED"]
       IN \/ valid /\ s.rst /\ Finish(t)
          \/ (~valid \/ (~s.rst /\ ~s.ackf)) /\ Continue(t)
          \/ /\ valid /\ ~s.rst /\ s.ackf
             /\ IF s.len = 0 THEN Continue(open) ELSE Relay(open, s, "unread")
    /\ UNCHANGED h

\* What stateEstablished does about a FIN, once the payload is dealt with.
FinTaken(t) == [FinAcked([t EXCEPT !.rcvNxtSeq = SeqAdd(@, 1)])
                   EXCEPT !.state = "LAST_ACK", !.socksConn = Closed(@)]

StateEstablished(t, s) ==
    /\ t.state = "ESTABLISHED"
    /\ \/ ~validSeq(s) /\ Continue(Acked(t)) /\ UNCHANGED h
       \/ validSeq(s) /\ s.rst /\ Finish(t) /\ UNCHANGED h
       \/ validSeq(s) /\ ~s.rst /\ ~s.ackf /\ Continue(t) /\ UNCHANGED h
       \/ /\ validSeq(s) /\ ~s.rst /\ s.ackf
          /\ \/ /\ s.len > 0
                /\ Relay(t, s, IF s.fin THEN "yes" ELSE "no")
                /\ UNCHANGED h
             \/ s.len = 0 /\ s.fin /\ Continue(FinTaken(t)) /\ CountFin
             \/ s.len = 0 /\ ~s.fin /\ Continue(t) /\ UNCHANGED h

\* Every branch of stateFinWait1 returns continu = FALSE.
StateFinWait1(t, s) ==
    /\ t.state = "FIN_WAIT_1"
    /\ IF validSeq(s) /\ ~s.rst /\ s.ackf
         THEN IF s.fin
                THEN Finish([Acked([t EXCEPT !.rcvNxtSeq = SeqAdd(@, 1)])
                                EXCEPT !.state = IF validAck(s)
                                                   THEN "TIME_WAIT"
                                                   ELSE "CLOSING"])
                ELSE Finish([t EXCEPT !.state = "FIN_WAIT_2"])
         ELSE Finish(t)
    /\ UNCHANGED h

StateLastAck(t, s) ==
    /\ t.state = "LAST_ACK"
    /\ IF validSeq(s) /\ validAck(s) /\ s.ackf
         THEN Finish([t EXCEPT !.state = "CLOSED"])
         ELSE Continue(t)
    /\ UNCHANGED h

\* updateSendWindow stores the window and signals without taking the lock;
\* stateSynRcvd starts the reader when it opens the connection.
SelectInput(s) ==
    /\ RunAt("select")
    /\ LET t == [tt EXCEPT !.sendWindow = s.wnd]
       IN \/ StateClosed(t, s) \/ StateSynRcvd(t, s)
          \/ StateEstablished(t, s) \/ StateFinWait1(t, s)
          \/ StateLastAck(t, s)
    /\ IF tt.state = "SYN_RCVD" /\ tt'.state = "ESTABLISHED"
         THEN rd' = [rd EXCEPT !.pc = "boot"] ELSE WakeReader
    /\ UNCHANGED <<table, wr>>
-----------------------------------------------------------------------------
(* run(): inside stateClosed and relayPayload                              *)

\* A SYN whose payload names a host makes stateClosed send an HTTP proxy a
\* CONNECT at once.  connectState does not record it.
EarlyConnects ==
    IF Port = "443" /\ h.dialled = "http" THEN FastOpen ELSE {FALSE}

\* ... before it has looked at the error of the dial: there is no connection to
\* write to.
DialPanics ==
    /\ RunAt("dial") /\ TRUE \in EarlyConnects
    /\ RunGoto("panic")
    /\ UNCHANGED <<tt, table, rd, wr, h>>

\* A failed authentication leaves a closed connection behind.
DialFails ==
    /\ RunAt("dial") /\ FALSE \in EarlyConnects
    /\ RunGoto("clear")
    /\ \E conn \in {"nil", "closed"} :
         tt' = [tt EXCEPT !.socksConn = conn, !.quitBySelf = TRUE,
                          !.destroyed = TRUE]
    /\ UNCHANGED <<table, rd, wr, h>>

DialSucceeds ==
    /\ RunAt("dial") /\ RunGoto("top")
    /\ tt' = [Acked([tt EXCEPT !.rcvNxtSeq = SeqAdd(Isn, 1)])
                 EXCEPT !.socksConn = "open", !.state = "SYN_RCVD",
                        !.nxtSeq = 2]       \* the SYN/ACK is sent with 1
    /\ \E early \in EarlyConnects :
         h' = [h EXCEPT !.answer = "synack", !.early = early]
    /\ UNCHANGED <<table, rd, wr>>

\* Mutant: toSocksCh takes whatever comes.
RelayEnqueueUnbounded ==
    /\ RunAt("relay") /\ RunGoto("wndload")
    /\ tt' = [tt EXCEPT !.toSocksCh = Append(@, [off |-> run.pkt.off,
                                                len |-> run.pkt.len]),
                        !.rcvNxtSeq = SeqAdd(@, run.pkt.len)]
    /\ h' = [h EXCEPT !.relayed = @ + run.pkt.len]
    /\ UNCHANGED <<table, rd, wr>>

RelayEnqueue ==
    /\ RunAt("relay") /\ Len(tt.toSocksCh) < ToSocksCap
    /\ RunGoto("wndload")
    /\ LET p == run.pkt
       IN /\ tt' = [tt EXCEPT
                      !.toSocksCh = Append(@, [off |-> p.off, len |-> p.len]),
                      !.rcvNxtSeq = SeqAdd(@, p.len)]
          /\ h' = [h EXCEPT !.relayed = @ + p.len]
    /\ UNCHANGED <<table, rd, wr>>

\* Back to the loop, after looking at the packet's FIN.
RelayDone(fin) ==
    /\ run' = [run EXCEPT !.pc = "top", !.pkt = NoPacket]
    /\ IF fin THEN tt' = FinTaken(tt) /\ CountFin ELSE UNCHANGED <<tt, h>>
    /\ UNCHANGED <<table, rd, wr>>

\* The payload is dropped unacknowledged; a FIN it came with is not.
RelayRefused ==
    /\ RunAt("relay") /\ tt.socksCloseCh
    /\ RelayDone(run.pkt.fin = "yes")

RelayWindowLoad ==
    /\ RunAt("wndload")
    /\ run' = [run EXCEPT !.pc = "wndstore",
                          !.wnd = NotBelow0(tt.recvWindow - run.pkt.len)]
    /\ UNCHANGED <<tt, table, rd, wr, h>>

RelayWindowStore ==
    /\ RunAt("wndstore")
    /\ run' = [run EXCEPT !.pc = "fin", !.wnd = 0]
    /\ tt' = [tt EXCEPT !.recvWindow = run.wnd]
    /\ UNCHANGED <<table, rd, wr, h>>

\* stateEstablished reads pkt.tcp.FIN of the packet it has handed to the
\* writer.  Once the writer has released the packet, the header is back in
\* the pool and may hold any other packet's flag.
RelayFin ==
    /\ RunAt("fin")
    /\ LET recycled == h.written = h.relayed
       IN \E fin \in (IF recycled /\ run.pkt.fin # "unread"
                        THEN BOOLEAN ELSE {run.pkt.fin = "yes"}) :
             RelayDone(fin)
-----------------------------------------------------------------------------
(* tcpSocks2Tun: the SOCKS request, then the reader                        *)

RdAt(pc) == rd.pc = pc
RdGoto(pc) == rd' = [rd EXCEPT !.pc = pc]

\* connectState and the writer goroutine, once the upstream is set up.
Ready(t) == IF proxyType(t.uid) = "http" /\ Port = "443"
              THEN t ELSE [t EXCEPT !.connectState = "ESTABLISHED"]
StartWriter == RdGoto("loop") /\ wr' = [wr EXCEPT !.pc = "loop"]

ReaderBoot ==
    /\ RdAt("boot")
    /\ \E u \in FindAppUid(tt.uid) :
         LET t == [tt EXCEPT !.uid = u]
         IN IF Proxied /\ proxyType(u) = "socks"
              THEN tt' = t /\ RdGoto("handshake") /\ UNCHANGED wr
              ELSE tt' = Ready(t) /\ StartWriter
    /\ UNCHANGED <<table, run, h>>

\* The proxy's reply is read through a buffer, or with a Read of its own, that
\* is thrown away with the n bytes of the server it may hold behind the reply.
Swallow(n) ==
    /\ h.srvRead + n <= ServerBytes
    /\ h' = [h EXCEPT !.srvRead = @ + n, !.lost = @ + n]

\* callSocks returns a nil error for a refused request, as for a granted one.
HandshakeAnswered(r) ==
    /\ RdAt("handshake") /\ tt.socksConn = "open"
    /\ \/ r = "ok" /\ tt' = Ready(tt) /\ \E n \in 0 .. MaxSeg : Swallow(n)
       \/ /\ r = "refused" /\ UNCHANGED h
          /\ tt' = [Ready(tt) EXCEPT !.socksConn = "closed",
                                     !.socksCloseCh = TRUE]
    /\ StartWriter
    /\ UNCHANGED <<table, run>>

\* Mutant: the read error is not reported to the caller.
HandshakeFailsUnreported ==
    /\ RdAt("handshake") /\ StartWriter
    /\ tt' = [Ready(tt) EXCEPT !.socksConn = "closed", !.socksCloseCh = TRUE]
    /\ UNCHANGED <<table, run, h>>

HandshakeFails ==
    /\ RdAt("handshake") /\ RdGoto("failed")
    /\ tt' = [tt EXCEPT !.socksConn = "closed", !.socksCloseCh = TRUE]
    /\ UNCHANGED <<table, run, wr, h>>

ReaderFailed ==
    /\ RdAt("failed") /\ RdGoto("done")
    /\ tt' = [tt EXCEPT !.destroyed = TRUE]
    /\ UNCHANGED <<table, run, wr, h>>

\* Leaving the loop; wnd and buf go out of scope.
LeaveLoop == rd' = [pc |-> "end", wnd |-> 0, buf |-> NoChunk]

ReaderLoop ==
    /\ RdAt("loop")
    /\ IF tt.destroyed
         THEN LeaveLoop
         ELSE rd' = [rd EXCEPT !.wnd = tt.sendWindow,
                               !.pc = IF tt.sendWindow = 0 THEN "park"
                                                           ELSE "read"]
    /\ UNCHANGED <<tt, table, run, wr, h>>

\* Lock and Wait.  sendWindow is not looked at again before waiting.
ReaderWait ==
    /\ RdAt("park") /\ RdGoto("parked")
    /\ UNCHANGED <<tt, table, run, wr, h>>

\* Wait returned with the lock held.  If the window is still 0 the loop locks
\* it again and waits for itself.
ReaderWoken ==
    /\ RdAt("woken")
    /\ rd' = [rd EXCEPT !.wnd = tt.sendWindow,
                        !.pc = IF tt.sendWindow = 0 THEN "stuck" ELSE "read"]
    /\ UNCHANGED <<tt, table, run, wr, h>>

\* No CONNECT has been sent: the loop goes round without reading.
ReaderSpin ==
    /\ RdAt("read") /\ tt.connectState = "NOT_SENT"
    /\ RdGoto("bcast")
    /\ UNCHANGED <<tt, table, run, wr, h>>

\* The reply to the CONNECT, whatever it says and even if there is none.
ReaderConnectReply ==
    /\ RdAt("read") /\ tt.connectState = "SENT"
    /\ RdGoto("bcast")
    /\ tt' = [tt EXCEPT !.connectState = "ESTABLISHED"]
    /\ \E n \in 0 .. MaxSeg : /\ n > 0 => tt.socksConn = "open"
                              /\ Swallow(n)
    /\ WakeWriter
    /\ UNCHANGED <<table, run>>

ReaderRead(n) ==
    /\ RdAt("read") /\ tt.connectState = "ESTABLISHED"
    /\ tt.socksConn = "open"
    /\ n <= rd.wnd /\ h.srvRead + n <= ServerBytes
    /\ rd' = [rd EXCEPT !.pc = "push",
                        !.buf = [off |-> h.srvRead, len |-> n]]
    /\ h' = [h EXCEPT !.srvRead = @ + n]
    /\ UNCHANGED <<tt, table, run, wr>>

\* End of file, or an error: always, once the socket is closed or reset.
ReaderReadFails ==
    /\ RdAt("read") /\ tt.connectState = "ESTABLISHED"
    /\ LeaveLoop
    /\ UNCHANGED <<tt, table, run, wr, h>>

ReaderPush ==
    /\ RdAt("push") /\ Len(tt.fromSocksCh) < FromSocksCap
    /\ RdGoto("cas")
    /\ tt' = [tt EXCEPT !.fromSocksCh = Append(@, rd.buf)]
    /\ UNCHANGED <<table, run, wr, h>>

\* CompareAndSwap: nothing happens if run() has stored another window.
ReaderShrinkWindow ==
    /\ RdAt("cas") /\ RdGoto("bcast")
    /\ tt' = IF tt.sendWindow = rd.wnd
               THEN [tt EXCEPT !.sendWindow = NotBelow0(rd.wnd - rd.buf.len)]
               ELSE tt
    /\ UNCHANGED <<table, run, wr, h>>

ReaderBroadcast ==
    /\ RdAt("bcast")
    /\ rd' = [pc |-> "loop", wnd |-> 0, buf |-> NoChunk]
    /\ WakeWriter
    /\ UNCHANGED <<tt, table, run, h>>

\* Sending on, or closing, a channel that is closed panics.
ReaderEnd ==
    /\ RdAt("end")
    /\ WakeWriter
    /\ IF tt.destroyed
         THEN RdGoto("done") /\ UNCHANGED tt
         ELSE /\ RdGoto(IF tt.socksCloseCh THEN "panic" ELSE "done")
              /\ tt' = [tt EXCEPT !.socksCloseCh = TRUE]
    /\ UNCHANGED <<table, run, h>>
-----------------------------------------------------------------------------
(* The writer                                                              *)

WrAt(pc) == wr.pc = pc
WrGoto(pc) == wr' = [wr EXCEPT !.pc = pc]

\* The three cases of the select; the last only when neither channel is ready.
WriterTake ==
    /\ WrAt("loop") /\ tt.toSocksCh # <<>>
    /\ wr' = [wr EXCEPT !.pc = "got", !.pkt = Head(tt.toSocksCh)]
    /\ tt' = [tt EXCEPT !.toSocksCh = Tail(@)]
    /\ UNCHANGED <<table, run, rd, h>>

\* Mutant: only socksCloseCh ends the writer.
WriterExitOnClose ==
    /\ WrAt("loop") /\ tt.socksCloseCh
    /\ WrGoto("done")
    /\ UNCHANGED <<tt, table, run, rd, h>>

WriterExit ==
    /\ WrAt("loop")
    /\ tt.socksCloseCh \/ (tt.toSocksCh = <<>> /\ tt.destroyed)
    /\ WrGoto("done")
    /\ UNCHANGED <<tt, table, run, rd, h>>

\* callHttpProxyConnect, for the first packet; its error is only logged.
WriterConnect ==
    /\ WrAt("got")
    /\ IF tt.connectState = "NOT_SENT"
         THEN /\ WrGoto("sent")
              /\ h' = [h EXCEPT !.connects = IF tt.socksConn = "open"
                                               THEN @ + 1 ELSE @]
         ELSE WrGoto("check") /\ UNCHANGED h
    /\ UNCHANGED <<tt, table, run, rd>>

\* Mutant: it is not recorded that the CONNECT has been sent.
WriterSentUnrecorded ==
    /\ WrAt("sent") /\ WrGoto("check")
    /\ UNCHANGED <<tt, table, run, rd, h>>

WriterSent ==
    /\ WrAt("sent") /\ WrGoto("check")
    /\ tt' = [tt EXCEPT !.connectState = "SENT"]
    /\ UNCHANGED <<table, run, rd, h>>

WriterCheck ==
    /\ WrAt("check")
    /\ WrGoto(IF proxyType(tt.uid) = "http" /\ tt.connectState # "ESTABLISHED"
                THEN "wait" ELSE "write")
    /\ UNCHANGED <<tt, table, run, rd, h>>

\* Lock and Wait: a broadcast since the check is lost.  A broadcast during the
\* wait lets the writer go on whatever connectState is by then.
WriterWait ==
    /\ WrAt("wait") /\ WrGoto("parked")
    /\ UNCHANGED <<tt, table, run, rd, h>>

\* The error of conn.Write is ignored.
WriterWrite ==
    /\ WrAt("write") /\ WrGoto("credit")
    /\ h' = [h EXCEPT !.delivered = IF tt.socksConn = "open"
                                      THEN @ + wr.pkt.len ELSE @]
    /\ UNCHANGED <<tt, table, run, rd>>

WriterCreditLoad ==
    /\ WrAt("credit")
    /\ wr' = [wr EXCEPT !.pc = "store",
                        !.wnd = AtMost(tt.recvWindow + wr.pkt.len, MaxWindow)]
    /\ UNCHANGED <<tt, table, run, rd, h>>

\* The window is stored, then the packet released to the pool.
WriterCreditStore ==
    /\ WrAt("store")
    /\ wr' = [pc |-> "loop", pkt |-> NoChunk, wnd |-> 0]
    /\ tt' = [tt EXCEPT !.recvWindow = wr.wnd]
    /\ h' = [h EXCEPT !.written = @ + wr.pkt.len]
    /\ UNCHANGED <<table, run, rd>>
-----------------------------------------------------------------------------
(* What the rest of tun2socks and the peer do to the track                 *)

\* Mutants: the connection is left open; the track is not marked.
StopKeepsSocket ==
    /\ TableFree /\ ~tt.quitByOther
    /\ table' = [table EXCEPT !.locked = TRUE]
    /\ tt' = IF table.mapped
               THEN [tt EXCEPT !.destroyed = TRUE, !.quitByOther = TRUE]
               ELSE tt
    /\ UNCHANGED <<run, rd, wr, h>>
StopKeepsTrack ==
    /\ TableFree /\ ~tt.quitByOther
    /\ table' = [table EXCEPT !.locked = TRUE]
    /\ tt' = IF table.mapped
               THEN [tt EXCEPT !.socksConn = Closed(@), !.quitByOther = TRUE]
               ELSE tt
    /\ UNCHANGED <<run, rd, wr, h>>

\* Stop takes the lock and ends the track if it finds it in the table: while it
\* walks, the lock keeps everybody else from the table.
Stop ==
    /\ TableFree /\ ~tt.quitByOther
    /\ table' = [table EXCEPT !.locked = TRUE]
    /\ tt' = IF table.mapped
               THEN [tt EXCEPT !.destroyed = TRUE, !.socksConn = Closed(@),
                               !.quitByOther = TRUE]
               ELSE tt
    /\ UNCHANGED <<run, rd, wr, h>>

\* wg.Wait returned and the deferred Unlock ran.
StopReturns ==
    /\ table.locked
    /\ table' = [table EXCEPT !.locked = FALSE]
    /\ UNCHANGED <<tt, run, rd, wr, h>>

\* An older track of the same id clears the id: it hits this one.
ForeignClear ==
    /\ IdShared /\ TableFree /\ table.mapped
    /\ Unmap
    /\ tt' = [tt EXCEPT !.destroyed = TRUE]
    /\ WakeReader /\ WakeWriter
    /\ UNCHANGED <<run, h>>

\* tcp() finds the track destroyed and puts a new one in its place.
Supersede ==
    /\ IdShared /\ TableFree /\ table.mapped /\ tt.destroyed
    /\ Unmap
    /\ UNCHANGED <<tt, run, rd, wr, h>>

PeerResets ==
    /\ tt.socksConn = "open"
    /\ tt' = [tt EXCEPT !.socksConn = "broken"]
    /\ UNCHANGED <<table, run, rd, wr, h>>
-----------------------------------------------------------------------------
RunStep ==
    \/ RunTop \/ SelectQuit \/ ClearTrack \/ DialPanics \/ DialFails
    \/ DialSucceeds \/ RelayEnqueue \/ RelayRefused \/ RelayWindowLoad
    \/ RelayWindowStore \/ RelayFin

SelectStep ==
    \/ SelectTimeout \/ SelectAck \/ SelectData \/ SelectClose
    \/ \E s \in Segments : SelectInput(s)

\* What waits for the peer while the socket is open, and fails at once when
\* it is not.
SocketStep ==
    \/ "error" \in SocksReplies /\ HandshakeFails
    \/ ReaderConnectReply \/ ReaderReadFails \/ WriterWrite

\* What the reader does without waiting for the peer.
ReaderStep ==
    \/ ReaderBoot \/ ReaderFailed \/ ReaderLoop \/ ReaderWait \/ ReaderWoken
    \/ ReaderSpin \/ ReaderPush \/ ReaderShrinkWindow \/ ReaderBroadcast
    \/ ReaderEnd
    \/ tt.socksConn # "open" /\ (HandshakeFails \/ ReaderConnectReply
                                                \/ ReaderReadFails)

WriterStep ==
    \/ WriterTake \/ WriterExit \/ WriterConnect \/ WriterSent \/ WriterCheck
    \/ WriterWait \/ WriterCreditLoad \/ WriterCreditStore
    \/ tt.socksConn # "open" /\ WriterWrite

PeerStep ==
    \/ tt.socksConn = "open" /\ SocketStep
    \/ \E r \in SocksReplies : HandshakeAnswered(r)
    \/ \E n \in 1 .. MaxSeg : ReaderRead(n)
    \/ PeerResets

Environment == Stop \/ StopReturns \/ ForeignClear \/ Supersede

\* A panic ends the process.
Running == ~RdAt("panic") /\ ~RunAt("panic")

Next ==
    /\ Running
    /\ \/ RunStep \/ SelectStep \/ ReaderStep \/ WriterStep \/ PeerStep
       \/ Environment

Spec == Init /\ [][Next]_vars

\* The Go scheduler runs every goroutine that can move.  Nothing is promised
\* about the client, the timers, a socket the peer may leave idle, or about
\* Stop, which keeps the lock as long as the tun reader keeps it waiting.
Fairness ==
    /\ WF_vars(Running /\ RunStep)
    /\ WF_vars(Running /\ ReaderStep)
    /\ WF_vars(Running /\ WriterStep)

FairSpec == Spec /\ Fairness
=============================================================================
