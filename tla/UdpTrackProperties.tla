-------------------------- MODULE UdpTrackProperties --------------------------
(* What a UDP track must do for the dispatcher, for Stop and for itself.   *)
EXTENDS UdpTrack

RunGone == run.pc \in {"clear", "done"}

\* No channel is closed twice (udp.go:206-333, gosocks/server.go:407-413):
\* socksClosed belongs to run() until ConnMonitor is started and to ConnMonitor
\* from then on, and every way out of the loop closes its own once.
ClosedOnce ==
    /\ socksClosed <= 1 /\ quitBySelf <= 1
    /\ quitByOther <= 1 /\ quitUDP <= 1

\* However run() ends the TCP connection is closed, and the UDP socket too
\* unless the handshake failed (udp.go:206-229 never close udpBind).
SocketsReleased ==
    RunGone => /\ socksConn # "open"
               /\ udpBind = "open" => reader = "none"

Life == INSTANCE TrackLife
          WITH phase <- IF RunGone THEN run.pc ELSE "run",
               destroyed <- run.pc = "done" \/ quitByOther > 0,
               quitBySelf <- quitBySelf > 0,
               quitByOther <- quitByOther > 0

\* A UDP track keeps the contract of TrackLife: it has no flag destroyed, and
\* counts as condemned once it has returned or Stop has reached it.
ImplementsTrackLife == Life!LifeSpec

\* What run() cannot be told out of: a full writeCh that nobody empties.
HeldSending == run.pc = "send" /\ queued = WriteCap /\ ~writer

\* Once Stop has reached the track (udp.go:327-332), or the traffic has stopped,
\* when the timer ends it, run() returns or is held.
TrackEnds ==
    /\ (quitByOther > 0) ~> (run.pc = "done" \/ HeldSending)
    /\ <>[][~(NewPacket \/ ReaderReads)]_vars
          => <>(run.pc = "done" \/ HeldSending)

\* Once run() has returned both helpers end, also a UDPReader that holds a
\* datagram nobody takes (udp.go:236-241, gosocks/server.go:387-413).
HelpersEnd ==
    (run.pc = "done") ~> (monitor # "read" /\ reader \in {"none", "closed"})

\* The tun reader, which waits in newPacket for every track alike, returns
\* (udp.go:337-344), or the track is held with a full queue until Stop.
DeliveryReturns == delivering ~> (~delivering \/ HeldSending)
=============================================================================
