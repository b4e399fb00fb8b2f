------------------------- MODULE TrackTableProperties -------------------------
(* What the dispatcher, the tables and Stop must do together.              *)
EXTENDS TrackTable

\* Every TCP track that is not marked destroyed is what its id maps to,
\* although clearTCPConnTrack deletes by id and not by track (tcp.go:
\* 997-1008): a connection has at most one live track, and tcp() or Stop
\* finds it.
LiveIndexed ==
    \A t \in TcpTracks :
        (phase[t] # "none" /\ ~destroyed[t]) => tcpMap[conn[t]] = t

\* A UDP track keeps its entry until it clears it itself (udp.go:346-382): it
\* never deletes the entry of another.
UdpEntryKept ==
    \A t \in UdpTracks :
        phase[t] \in {"run", "clear"} => udpMap[conn[t]] = t

\* Once Stop has gone through the table (tun2socks.go:131-137) every TCP
\* track there ever was is marked, those that slipped out of the table too.
StopReachesAll ==
    (stop.pc \in {"tcp", "udp", "wait", "returned"} /\ stop.todo = {})
        => \A t \in TcpTracks : phase[t] # "none" => destroyed[t]

\* The reader is never left in newPacket (tcp.go:820-827, udp.go:337-344) by
\* a track that has gone, or by a UDP track once Stop has been through.
DeliveryUnblocked ==
    (reader.pc = "send" /\ (\/ phase[reader.track] # "run"
                            \/ reader.track \in UdpTracks /\ Stopped))
        => quitBySelf[reader.track] \/ quitByOther[reader.track]

\* No track is created once Stop has returned, even if Stop was called
\* before the goroutine of Run had added itself to wg (tun2socks.go:144-145,
\* 197-205).
StopIsFinal == [][stop.pc = "returned" => conn' = conn]_vars

Life(t) == INSTANCE TrackLife
             WITH phase <- IF phase[t] = "none" THEN "run" ELSE phase[t],
                  destroyed <- destroyed[t],
                  quitBySelf <- quitBySelf[t],
                  quitByOther <- quitByOther[t]

\* Each TCP track behaves as TrackLife says a track does, which is what
\* TcpTrack implements.
TracksLive ==
    /\ \A t \in TcpTracks : Life(t)!LifeInit
    /\ [][\A t \in TcpTracks :
             [Life(t)!LifeNext]_(Life(t)!lifeVars)]_lives

\* When Stop waits for the reader (tun2socks.go:145), it returns, or the
\* reader is held in one of four places: before a lock that Stop holds, at a
\* full writeCh nobody empties, or delivering to a TCP track that Stop did
\* not find because an older track's clear had taken its entry.
Held ==
    \/ reader.pc \in {"get", "create", "udp"}
    \/ reader.pc = "reset" /\ queued = WriteCap
    \/ /\ reader.pc = "send"
       /\ reader.track \in TcpTracks /\ ~quitByOther[reader.track]
       /\ tcpMap[conn[reader.track]] # reader.track

StopReturnsUnlessHeld == (stop.pc = "wait") ~> (stop.pc = "returned" \/ Held)
-----------------------------------------------------------------------------
(* What the comments say and the code does not do                          *)

\* "a specific packet to notify threads blocking on Read" (tun/stop.go:
\* 11-13): the thread that Stop's dev.Close finds blocked on Read ends.
BlockedReaderEnds ==
    (reader.pc = "read" /\ stop.pc = "close") ~> (reader.pc = "done")
=============================================================================
