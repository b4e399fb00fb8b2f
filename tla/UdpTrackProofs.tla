---------------------------- MODULE UdpTrackProofs ----------------------------
(***************************************************************************)
(* Type correctness, the two safety invariants and the refinement of       *)
(* TrackLife for a UDP track, for every capacity of its two channels.      *)
(*                                                                         *)
(* A close is counted, so that "closed at most once" is about numbers; the *)
(* invariant says who owns each channel at which point of run():           *)
(* socksClosed is run()'s until the helpers are started and the monitor's  *)
(* afterwards, quitBySelf is closed on leaving the loop, quitUDP on        *)
(* returning from it.                                                      *)
(***************************************************************************)
EXTENDS UdpTrackProperties, TLAPS

Handshake == run.pc \in {"dial", "bind", "request", "reply"}
Looping == run.pc \in {"select", "send"}

\* The helpers are started together, when the handshake is over.
HelpersOK ==
    /\ monitor = "none" <=> reader = "none"
    /\ Handshake => monitor = "none"
    /\ Looping => monitor # "none"

\* Who has closed what.
ClosesOK ==
    /\ socksClosed = IF monitor = "none"
                       THEN (IF RunGone THEN 1 ELSE 0)
                       ELSE (IF monitor = "done" THEN 1 ELSE 0)
    /\ quitBySelf \in {0, 1} /\ quitByOther \in {0, 1} /\ quitUDP \in {0, 1}
    /\ ~RunGone => quitBySelf = 0
    /\ run.pc = "clear" => quitBySelf = 1
    /\ run.pc = "done" => quitBySelf + quitByOther > 0
    /\ run.pc # "done" => quitUDP = 0

SocketsOK == SocketsReleased

Inv == TypeOK /\ HelpersOK /\ ClosesOK /\ SocketsOK

\* The initial states.
LEMMA InitInv == Init => Inv
<1> SUFFICES ASSUME Init PROVE Inv
  OBVIOUS
<1>0. 0 \in 0 .. FromTunCap /\ 0 \in 0 .. WriteCap
  BY UdpConstants
<1> USE DEF Init
<1>1. TypeOK
  <2>1. run \in [pc: {"dial", "bind", "request", "reply", "select", "send",
                    "clear", "done"},
                tries: 0 .. 1, dns: BOOLEAN]
    OBVIOUS
  <2> QED
    BY <1>0, <2>1 DEF TypeOK, SocketStates, Relay!UdpReaderTypeOK
<1>2. run.pc = "dial"
  OBVIOUS
<1>3. HelpersOK
  BY <1>2 DEF HelpersOK, Looping
<1>4. ClosesOK
  BY <1>2 DEF ClosesOK, RunGone
<1>5. SocketsOK
  BY DEF SocketsOK, SocketsReleased
<1> QED
  BY <1>1, <1>3, <1>4, <1>5 DEF Inv

\* The steps of the handshake.
LEMMA HandshakeStep ==
    ASSUME Inv,
           DialFails \/ DialSucceeds \/ BindFails \/ BindSucceeds
             \/ RequestFails \/ RequestSent \/ ReplyFails \/ ReplyGranted
    PROVE  Inv'
<1> USE DEF Inv, TypeOK, HelpersOK, ClosesOK, SocketsOK, SocketsReleased,
            Handshake, Looping, RunGone, SocketStates, At, Goto,
            Relay!UdpReaderTypeOK, sockets, closes, helpers, device
<1>1. ASSUME Handshake, GiveUp PROVE Inv'
  BY <1>1 DEF GiveUp
<1>2. CASE DialFails
  BY <1>1, <1>2 DEF DialFails
<1>3. CASE DialSucceeds
  BY <1>3 DEF DialSucceeds
<1>4. CASE BindFails
  BY <1>1, <1>4 DEF BindFails
<1>5. CASE BindSucceeds
  BY <1>5 DEF BindSucceeds
<1>6. CASE RequestFails
  BY <1>1, <1>6 DEF RequestFails
<1>7. CASE RequestSent
  BY <1>7 DEF RequestSent
<1>8. CASE ReplyFails
  BY <1>1, <1>8 DEF ReplyFails
<1>9. CASE ReplyGranted
  BY <1>9 DEF ReplyGranted, Relay!Started
<1> QED
  BY <1>2, <1>3, <1>4, <1>5, <1>6, <1>7, <1>8, <1>9

\* The steps of the loop, and the two calls after it.
LEMMA LoopStep ==
    ASSUME Inv, SelectStep \/ Send \/ ClearTrack
    PROVE  Inv'
<1> USE DEF Inv, TypeOK, HelpersOK, ClosesOK, SocketsOK, SocketsReleased,
            Handshake, Looping, RunGone, SocketStates, At, Goto,
            Relay!UdpReaderTypeOK, sockets, closes, helpers, device
<1>1. CASE SelectIgnores
  BY <1>1 DEF SelectIgnores, Relay!Taken
<1>2. CASE SelectAnswer
  BY <1>2 DEF SelectAnswer, Relay!Taken
<1>3. CASE SelectReaderClosed
  BY <1>3 DEF SelectReaderClosed, Leave
<1>4. CASE SelectFromTun
  <2>1. fromTunCh' \in 0 .. FromTunCap
    BY <1>4, UdpConstants DEF SelectFromTun
  <2>2. CASE UNCHANGED <<run, sockets, quitBySelf>>
    BY <1>4, <2>1, <2>2 DEF SelectFromTun
  <2>3. CASE Leave
    BY <1>4, <2>1, <2>3 DEF SelectFromTun, Leave
  <2> QED
    BY <1>4, <2>2, <2>3 DEF SelectFromTun
<1>5. CASE SelectSocksClosed
  BY <1>5 DEF SelectSocksClosed, Leave
<1>6. CASE SelectTimeout
  BY <1>6 DEF SelectTimeout, Leave
<1>7. CASE SelectQuit
  BY <1>7 DEF SelectQuit
<1>8. CASE Send
  BY <1>8, UdpConstants DEF Send, Leave
<1>9. CASE ClearTrack
  <2>1. run.pc = "clear" /\ run'.pc = "done"
           /\ UNCHANGED <<socksConn, udpBind, fromTunCh, socksClosed,
                          quitBySelf, quitByOther, monitor, reader,
                          delivering, queued, writer>>
    BY <1>9 DEF ClearTrack
  <2>2. quitUDP' \in {0, 1}
    BY <1>9, <2>1 DEF ClearTrack
  <2>3. TypeOK'
    BY <1>9, <2>1, <2>2 DEF ClearTrack
  <2>4. HelpersOK' /\ SocketsOK'
    BY <2>1
  <2>5. ClosesOK'
    BY <2>1, <2>2
  <2> QED
    BY <2>3, <2>4, <2>5
<1> QED
  BY <1>1, <1>2, <1>3, <1>4, <1>5, <1>6, <1>7, <1>8, <1>9 DEF SelectStep

\* The steps of everybody else.
LEMMA OtherStep ==
    ASSUME Inv, HelperStep \/ DeviceStep \/ UNCHANGED vars
    PROVE  Inv'
<1> USE DEF Inv, TypeOK, HelpersOK, ClosesOK, SocketsOK, SocketsReleased,
            Handshake, Looping, RunGone, SocketStates,
            Relay!UdpReaderTypeOK, sockets, closes, helpers, device
<1>1. CASE HelperStep
  BY <1>1 DEF HelperStep, MonitorEnds, ReaderReads, ReaderFails, ReaderQuits,
              Relay!Reads, Relay!ReadFails, Relay!Quits
<1>2. CASE DeviceStep
  <2>1. CASE NewPacket \/ NewPacketReturns
    <3>1. fromTunCh' \in 0 .. FromTunCap
      BY <2>1, UdpConstants DEF NewPacket, NewPacketReturns
    <3>3. delivering' \in BOOLEAN
      BY <2>1 DEF NewPacket, NewPacketReturns
    <3>2. UNCHANGED <<run, sockets, closes, helpers, mapped, queued, writer>>
      BY <2>1 DEF NewPacket, NewPacketReturns
    <3> QED
      BY <3>1, <3>2, <3>3
  <2>2. CASE OthersWrite \/ WriterWrites \/ StopTellsWriter
    <3>1. queued' \in 0 .. WriteCap
      BY <2>2, UdpConstants DEF OthersWrite, WriterWrites, StopTellsWriter
    <3>3. writer' \in BOOLEAN
      BY <2>2 DEF OthersWrite, WriterWrites, StopTellsWriter
    <3>2. UNCHANGED <<run, sockets, fromTunCh, closes, helpers, mapped,
                      delivering>>
      BY <2>2 DEF OthersWrite, WriterWrites, StopTellsWriter
    <3> QED
      BY <3>1, <3>2, <3>3
  <2>3. CASE Stop
    BY <2>3 DEF Stop
  <2> QED
    BY <1>2, <2>1, <2>2, <2>3 DEF DeviceStep
<1>3. CASE UNCHANGED vars
  BY <1>3 DEF vars
<1> QED
  BY <1>1, <1>2, <1>3

\* The inductive invariant.
THEOREM InvCorrect == Spec => []Inv
<1>1. Inv /\ [Next]_vars => Inv'
  BY HandshakeStep, LoopStep, OtherStep DEF Next, RunStep
<1> QED
  BY InitInv, <1>1, PTL DEF Spec

\* Type correctness, for every capacity.
THEOREM TypeCorrect == Spec => []TypeOK
<1>1. Inv => TypeOK
  BY DEF Inv
<1> QED
  BY InvCorrect, <1>1, PTL

\* No channel of the track is closed twice.
THEOREM AlwaysClosedOnce == Spec => []ClosedOnce
<1>1. Inv => ClosedOnce
  BY DEF Inv, TypeOK, ClosesOK, ClosedOnce
<1> QED
  BY InvCorrect, <1>1, PTL

\* The sockets are closed when run() ends, but for the UDP socket of a failed
\* handshake.
THEOREM SocketsAlwaysReleased == Spec => []SocketsReleased
<1>1. Inv => SocketsReleased
  BY DEF Inv, SocketsOK
<1> QED
  BY InvCorrect, <1>1, PTL

\* A UDP track implements TrackLife.
THEOREM Refinement == Spec => ImplementsTrackLife
<1>1. Init => Life!LifeInit
  BY DEF Init, Life!LifeInit, RunGone
<1>2. Inv /\ [Next]_vars => [Life!LifeNext]_(Life!lifeVars)
  <2> SUFFICES ASSUME Inv, [Next]_vars
               PROVE  [Life!LifeNext]_(Life!lifeVars)
    OBVIOUS
  <2> USE DEF Life!LifeNext, Life!lifeVars, Life!Doom, Life!End, Life!Clear,
              Life!QuitOther, Life!StopIt, RunGone, At, Goto,
              closes, device
  <2>1. quitBySelf \in {0, 1} /\ quitByOther \in {0, 1}
    BY DEF Inv, TypeOK, ClosesOK
  <2>2. ASSUME Handshake, GiveUp PROVE Life!End
    <3>1. run.pc \notin {"clear", "done"} /\ run'.pc = "clear"
      BY <2>2 DEF GiveUp, Handshake, Inv, TypeOK
    <3>2. quitBySelf = 0 /\ quitBySelf' = 1 /\ quitByOther' = quitByOther
      BY <2>2, <3>1 DEF GiveUp, Inv, ClosesOK
    <3>3. (run'.pc = "done" \/ quitByOther' > 0)
             = (run.pc = "done" \/ quitByOther > 0)
      BY <3>1, <3>2
    <3>4. (quitBySelf' > 0) = TRUE
      BY <3>2
    <3> QED
      BY <3>1, <3>2, <3>3, <3>4, Zenon
  <2>3. CASE DialFails \/ BindFails \/ RequestFails \/ ReplyFails
    <3>1. CASE GiveUp
      BY <2>2, <2>3, <3>1
      DEF DialFails, BindFails, RequestFails, ReplyFails, Handshake
    <3>2. CASE ~GiveUp
      BY <2>3, <3>2
      DEF DialFails, BindFails, RequestFails, ReplyFails, Inv, TypeOK
    <3> QED
      BY <3>1, <3>2
  <2>4. CASE DialSucceeds \/ BindSucceeds \/ RequestSent \/ ReplyGranted
    BY <2>4 DEF DialSucceeds, BindSucceeds, RequestSent, ReplyGranted, Inv,
                TypeOK
  <2>5. ASSUME Looping, Leave, UNCHANGED quitByOther PROVE Life!End
    <3>1. run.pc \notin {"clear", "done"} /\ run'.pc = "clear"
      BY <2>5 DEF Leave, Looping, Inv, TypeOK
    <3>2. quitBySelf = 0 /\ quitBySelf' = 1 /\ quitByOther' = quitByOther
      BY <2>5, <3>1 DEF Leave, Inv, ClosesOK
    <3>3. (run'.pc = "done" \/ quitByOther' > 0)
             = (run.pc = "done" \/ quitByOther > 0)
      BY <3>1, <3>2
    <3>4. (quitBySelf' > 0) = TRUE
      BY <3>2
    <3> QED
      BY <3>1, <3>2, <3>3, <3>4, Zenon
  <2>6. CASE SelectReaderClosed \/ SelectSocksClosed \/ SelectTimeout
    BY <2>5, <2>6
    DEF SelectReaderClosed, SelectSocksClosed, SelectTimeout, Looping
  <2>7. CASE SelectFromTun \/ Send
    <3>1. CASE Leave
      BY <2>5, <2>7, <3>1 DEF SelectFromTun, Send, Looping
    <3>2. CASE ~Leave
      BY <2>7, <3>2 DEF SelectFromTun, Send, Inv, TypeOK
    <3> QED
      BY <3>1, <3>2
  <2>8. CASE SelectIgnores \/ SelectAnswer
    BY <2>8 DEF SelectIgnores, SelectAnswer, Inv, TypeOK
  <2>9. CASE SelectQuit
    BY <2>1, <2>9 DEF SelectQuit, Inv, TypeOK
  <2>10. CASE ClearTrack
    BY <2>1, <2>10 DEF ClearTrack, Inv, TypeOK
  <2>11. CASE HelperStep
    BY <2>11 DEF HelperStep, MonitorEnds, ReaderReads, ReaderFails,
                 ReaderQuits
  <2>12. CASE NewPacket \/ NewPacketReturns \/ OthersWrite \/ WriterWrites
                \/ StopTellsWriter
    BY <2>12 DEF NewPacket, NewPacketReturns, OthersWrite, WriterWrites,
                 StopTellsWriter
  <2>13. CASE Stop
    BY <2>1, <2>13 DEF Stop
  <2>14. CASE UNCHANGED vars
    BY <2>14 DEF vars
  <2> QED
    BY <2>3, <2>4, <2>6, <2>7, <2>8, <2>9, <2>10, <2>11, <2>12, <2>13, <2>14
    DEF Next, RunStep, SelectStep, DeviceStep
<1> QED
  BY <1>1, <1>2, InvCorrect, PTL
  DEF Spec, ImplementsTrackLife, Life!LifeSpec
=============================================================================
