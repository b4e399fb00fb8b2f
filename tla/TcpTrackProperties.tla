-------------------------- MODULE TcpTrackProperties --------------------------
(* What a connection track must do, and what its comments say it does.     *)
EXTENDS TcpTrack

\* q holds the bytes lo .. hi-1 of a stream, in order, nothing twice.
Contiguous(q, lo, hi) ==
    /\ q = <<>> => lo = hi
    /\ q # <<>> => /\ q[1].off = lo
                   /\ q[Len(q)].off + q[Len(q)].len = hi
    /\ \A i \in 1 .. Len(q) - 1 : q[i].off + q[i].len = q[i + 1].off

Holding == wr.pc \in {"got", "sent", "check", "wait", "parked", "write",
                      "credit", "store"}
RunGone == run.pc \in {"clear", "done"}
Served == tt.state \in {"SYN_RCVD", "ESTABLISHED"}

\* The client's bytes cross relayPayload, toSocksCh and the writer
\* (tcp.go:281-299, 552-587) in order, none twice, none skipped, and while
\* the connection is served what the track acknowledges is exactly what it
\* has put on that way.  While the socket is open each reaches it.
UpstreamFifo ==
    /\ Contiguous(tt.toSocksCh,
                  h.written + (IF Holding THEN wr.pkt.len ELSE 0), h.relayed)
    /\ Holding => wr.pkt.off = h.written
    /\ tt.socksConn = "open" =>
          h.delivered = h.written + (IF wr.pc \in {"credit", "store"}
                                       THEN wr.pkt.len ELSE 0)
    /\ Served => tt.rcvNxtSeq = SeqAdd(Isn, h.relayed + 1)

\* The server's bytes cross the reader, fromSocksCh and payload() (tcp.go:
\* 633-643, 381-407, 916-918) in order, and each is sent with the sequence
\* number of its place in the stream, shifted by the FINs sent before it.  The
\* stream begins behind what was swallowed with the proxy's reply.
DownstreamFifo ==
    /\ Contiguous(tt.fromSocksCh, h.lost + h.emitted,
                  IF rd.pc = "push" THEN rd.buf.off ELSE h.srvRead)
    /\ rd.pc = "push" => rd.buf.off + rd.buf.len = h.srvRead
    /\ h.answer = "synack" => tt.nxtSeq = SeqAdd(2, h.emitted + h.fins)

\* However run() ends, also when Stop runs while it is dialling, the socket
\* it opened is closed (tcp.go:421-430, 857-868, 898-907, 923-937).
SocketReleased == RunGone => tt.socksConn \in {"nil", "closed"}

\* Once run() has left its loop one of the channels newPacket selects on is
\* closed, so that the tun reader is not held up (tcp.go:820-827).
Unblocked == RunGone => tt.quitBySelf \/ tt.quitByOther

\* Once run() has returned the track is destroyed, although the timeout path
\* does not set the flag and clearTCPConnTrack sets that of whatever track
\* the id maps to (tcp.go:923-929, 997-1008).  The writer and the reader of a
\* connection whose upstream is silent end on nothing else.
GoneIsDoomed == run.pc = "done" => tt.destroyed

\* Only five states ever see a packet: stateFinWait1 ends the track whatever
\* it makes of the packet, so stateFinWait2 and stateClosing never run
\* (tcp.go:736-803).
HandlersReached ==
    run.pc \in {"top", "select"} =>
        tt.state \in {"CLOSED", "SYN_RCVD", "ESTABLISHED", "FIN_WAIT_1",
                      "LAST_ACK"}

\* socksCloseCh is closed by callSocks or by the end of the reader, never by
\* both (tcp.go:469-488, 660-663): a second close would end the process.
ClosedOnce == rd.pc # "panic"

\* Before the first byte of the client reaches a proxy that wants a CONNECT,
\* the writer has written exactly one, and none is written between the
\* client's bytes (tcp.go:554-576): connectState, which reader and writer share,
\* tells the writer of each later packet so.  That of stateClosed (425-429),
\* which connectState does not record, comes on top.
ConnectFirst ==
    (Port = "443" /\ proxyType(tt.uid) = "http" /\ h.delivered > 0)
        => h.connects = 1

Life == INSTANCE TrackLife
          WITH phase <- IF RunGone THEN run.pc ELSE "run",
               destroyed <- tt.destroyed,
               quitBySelf <- tt.quitBySelf,
               quitByOther <- tt.quitByOther

\* The track keeps the contract the dispatcher and Stop rely on.
ImplementsTrackLife == Life!LifeSpec

\* What the track acknowledges to the client and what the socket accepts
\* (tcp.go:281-299, 552-587).  A FIN, an end of run() or a reset closes the
\* socket although toSocksCh and the writer may hold acknowledged payload
\* (tcp.go:731): what is lost then is at most a full channel and one packet.
ToServer == INSTANCE BytePipe
              WITH Limit <- (ToSocksCap + 1) * MaxSeg,
                   taken <- h.relayed, out <- h.delivered,
                   cut <- tt.socksConn \in {"broken", "closed"}
ImplementsPipeToServer == ToServer!PipeSpec

\* What the reader takes from the socket, behind the proxy's reply, and what
\* run() sends to the device while it is in its loop (tcp.go:633-643,
\* 916-918): the server is never more than a full channel and one Read ahead.
ToClient == INSTANCE BytePipe
              WITH Limit <- (FromSocksCap + 1) * MaxSeg,
                   taken <- h.srvRead - h.lost, out <- h.emitted,
                   cut <- RunGone
ImplementsPipeToClient == ToClient!PipeSpec

\* Only with an HTTP proxy can the writer be left waiting: it tests
\* connectState before it takes the lock, and a broadcast in between may be
\* the last one (tcp.go:562-568).
WriterLeft == wr.pc = "parked" /\ proxyType(tt.uid) = "http"

\* After Stop has reached the track, run() returns: it waits neither for the
\* client nor for the socket (tcp.go:281-299, 931-937 and tun2socks.go:129-137).
\* With two exceptions, and but for the end of the process.  If the writer is
\* left waiting nobody empties toSocksCh, nor closes socksCloseCh, as the
\* reader finds the track marked (661-664).  And a run() that leaves its loop
\* over the mark, before it sees quitByOther, waits for the lock of the table
\* (997), which Stop keeps until the tun reader has ended (129, 145).
StopEndsRun ==
    tt.quitByOther
        ~> (\/ run.pc = "done" \/ ~Running
            \/ [](run.pc = "clear" /\ table.locked)
            \/ [](run.pc = "relay" /\ Len(tt.toSocksCh) = ToSocksCap /\ WriterLeft))

\* After run() has returned the writer goroutine ends, having drained
\* toSocksCh, or is left waiting (tcp.go:545-598).
WriterEnds ==
    (run.pc = "done") ~> (wr.pc \in {"none", "done"} \/ []WriterLeft)

\* After run() has returned the reader goroutine ends, unless it stays in one
\* of the three places where it cannot be told: waiting for a window, holding
\* the lock it waits for, or putting data in a full fromSocksCh.
ReaderEnds ==
    (run.pc = "done")
        ~> (rd.pc \in {"none", "done"} \/ [](rd.pc \in {"parked", "stuck", "push"}))
-----------------------------------------------------------------------------
(* What the comments say and the code does not do                          *)

\* "reduce window when recved", "increase window when processed"
\* (tcp.go:287, 580): with nothing in between the window is whole.
WindowRestored ==
    (tt.toSocksCh = <<>> /\ ~Holding /\ run.pc \notin {"wndload", "wndstore"})
        => tt.recvWindow = MaxWindow
=============================================================================
