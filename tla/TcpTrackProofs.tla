---------------------------- MODULE TcpTrackProofs ----------------------------
(***************************************************************************)
(* Theorems about every instance of TcpTrack: whatever the windows, the    *)
(* capacities, the proxies and the lengths of the streams.                 *)
(*                                                                         *)
(* In this order: types; how a track ends, and that it keeps TrackLife;    *)
(* ESTABLISHED and what was before it; the channel that is closed once;    *)
(* the CONNECT; the order of the bytes from the client and from the        *)
(* server; how many of them are on the way, which is BytePipe twice.       *)
(***************************************************************************)
EXTENDS TcpTrackProperties, TLAPS

\* A sequence number stays one: SeqAdd subtracts SeqMod at most once, and
\* nothing longer than SeqMod is ever added.
LEMMA SeqAddType ==
    ASSUME NEW a \in Seqs, NEW n \in 0 .. SeqMod - 1
    PROVE  SeqAdd(a, n) \in Seqs
BY Bounds DEF SeqAdd, Seqs

\* Shapes of what the handlers do to the track.
LEMMA AckedType ==
    ASSUME NEW t \in Track PROVE Acked(t) \in Track
BY DEF Acked, Track

LEMMA FinAckedType ==
    ASSUME NEW t \in Track PROVE FinAcked(t) \in Track
<1>1. SeqAdd(t.nxtSeq, 1) \in Seqs
  BY Bounds, SeqAddType DEF Track
<1> QED
  BY <1>1 DEF FinAcked, Acked, Track

LEMMA EndedType ==
    ASSUME NEW t \in Track PROVE Ended(t) \in Track
BY DEF Ended, Closed, Track

LEMMA FinTakenType ==
    ASSUME NEW t \in Track PROVE FinTaken(t) \in Track
<1> DEFINE u == [t EXCEPT !.rcvNxtSeq = SeqAdd(@, 1)]
<1>1. SeqAdd(t.rcvNxtSeq, 1) \in Seqs
  BY Bounds, SeqAddType DEF Track
<1>2. u \in Track
  BY <1>1 DEF Track
<1> DEFINE v == FinAcked(u)
<1>3. v \in Track
  BY <1>2, FinAckedType
<1>4. FinTaken(t) = [v EXCEPT !.state = "LAST_ACK", !.socksConn = Closed(@)]
  BY DEF FinTaken
<1> HIDE DEF u, v
<1>5. Closed(v.socksConn) \in {"nil", "closed"}
  BY DEF Closed
<1> QED
  BY <1>3, <1>4, <1>5 DEF Track
-----------------------------------------------------------------------------
(* Type correctness, one lemma per goroutine                               *)

LEMMA TypeInit == Init => TypeOK
BY Bounds, Configuration
   DEF Init, TypeOK, Track, RunLocals, ReaderLocals, WriterLocals, History,
       Seqs, Chunk, Packet, NoChunk, NoPacket, ProxyTypes, UidValues, Table

LEMMA WakeType ==
    ASSUME TypeOK
    PROVE  /\ WakeReader => rd' \in ReaderLocals
           /\ WakeWriter => wr' \in WriterLocals
BY DEF TypeOK, WakeReader, WakeWriter, ReaderLocals, WriterLocals

LEMMA GotoType ==
    ASSUME TypeOK
    PROVE  /\ \A pc \in {"top", "select", "dial", "relay", "wndload",
                         "wndstore", "fin", "clear", "done", "panic"} :
                 RunGoto(pc) => run' \in RunLocals
           /\ \A pc \in {"boot", "handshake", "failed", "loop", "parked",
                         "push", "cas", "bcast", "end", "done", "panic"} :
                 RdGoto(pc) => rd' \in ReaderLocals
           /\ \A pc \in {"loop", "sent", "check", "wait", "parked",
                         "write", "credit", "done"} :
                 WrGoto(pc) => wr' \in WriterLocals
BY DEF TypeOK, RunGoto, RdGoto, WrGoto, RunLocals, ReaderLocals, WriterLocals

LEMMA RunType == ASSUME TypeOK, RunStep PROVE TypeOK'
<1> USE DEF TypeOK
<1>1. CASE RunTop
  <2>1. PICK idle \in {FALSE, tt.state = "ESTABLISHED"} :
           LET t == [tt EXCEPT !.destroyed = @ \/ idle]
           IN /\ tt' = IF t.destroyed THEN Ended(t) ELSE t
              /\ run' = [run EXCEPT
                           !.armed = @ \/ tt.state = "ESTABLISHED",
                           !.pc = IF t.destroyed THEN "clear" ELSE "select"]
    BY <1>1 DEF RunTop
  <2> DEFINE t == [tt EXCEPT !.destroyed = @ \/ idle]
  <2>2. t \in Track
    BY DEF Track
  <2>3. tt' \in Track
    BY <2>1, <2>2, EndedType
  <2>4. run' \in RunLocals
    BY <2>1 DEF RunLocals
  <2> QED
    BY <1>1, <2>3, <2>4 DEF RunTop
<1>2. CASE SelectQuit
  <2>1. tt' \in Track
    BY <1>2 DEF SelectQuit, Track, Closed
  <2> QED
    BY <1>2, <2>1, GotoType DEF SelectQuit
<1>3. CASE ClearTrack
  <2>1. tt' = tt \/ tt' = [tt EXCEPT !.destroyed = TRUE]
    BY <1>3 DEF ClearTrack
  <2>2. [tt EXCEPT !.destroyed = TRUE] \in Track
    BY DEF Track
  <2>3. tt' \in Track
    BY <2>1, <2>2
  <2> QED
    BY <1>3, <2>3, GotoType, WakeType DEF ClearTrack, Unmap, Table
<1>12. CASE DialPanics
  BY <1>12, GotoType DEF DialPanics
<1>4. CASE DialFails
  <2>0. PICK conn \in {"nil", "closed"} :
           tt' = [tt EXCEPT !.socksConn = conn, !.quitBySelf = TRUE,
                            !.destroyed = TRUE]
    BY <1>4 DEF DialFails
  <2>1. tt' \in Track
    BY <2>0 DEF Track
  <2> QED
    BY <1>4, <2>1, GotoType DEF DialFails
<1>5. CASE DialSucceeds
  <2>1. SeqAdd(Isn, 1) \in Seqs /\ 2 \in Seqs
    BY Bounds, SeqAddType DEF Seqs
  <2>2. Acked([tt EXCEPT !.rcvNxtSeq = SeqAdd(Isn, 1)]) \in Track
    BY <2>1, AckedType DEF Track
  <2>3. tt' \in Track
    BY <1>5, <2>1, <2>2 DEF DialSucceeds, Track
  <2>4. h' \in History
    <3>1. PICK early \in EarlyConnects :
             h' = [h EXCEPT !.answer = "synack", !.early = early]
      BY <1>5 DEF DialSucceeds
    <3>2. early \in BOOLEAN
      BY Configuration DEF EarlyConnects
    <3> QED
      BY <3>1, <3>2 DEF History
  <2> QED
    BY <1>5, <2>3, <2>4, GotoType DEF DialSucceeds
<1>6. CASE RelayEnqueue
  <2>1. SeqAdd(tt.rcvNxtSeq, run.pkt.len) \in Seqs
    BY Bounds, SeqAddType DEF Track, RunLocals, Packet
  <2>2. Append(tt.toSocksCh, [off |-> run.pkt.off, len |-> run.pkt.len])
           \in Seq(Chunk)
    BY DEF Track, RunLocals, Packet, Chunk
  <2>3. tt' \in Track
    BY <1>6, <2>1, <2>2 DEF RelayEnqueue, Track
  <2>4. h' \in History
    <3>1. h' = [h EXCEPT !.relayed = @ + run.pkt.len]
      BY <1>6 DEF RelayEnqueue
    <3>2. h.relayed + run.pkt.len \in Nat
      BY Bounds DEF History, RunLocals, Packet
    <3> QED
      BY <3>1, <3>2 DEF History
  <2> QED
    BY <1>6, <2>3, <2>4, GotoType DEF RelayEnqueue
<1>7. ASSUME NEW fin \in BOOLEAN, RelayDone(fin) PROVE TypeOK'
  <2>1. tt' \in Track
    BY <1>7, FinTakenType DEF RelayDone
  <2>2. run' \in RunLocals
    <3>1. 0 \in Nat /\ 0 \in 0 .. MaxSeg
      BY Bounds
    <3>2. NoPacket \in Packet
      BY <3>1 DEF NoPacket, Packet
    <3> QED
      BY <1>7, <3>2 DEF RelayDone, RunLocals
  <2>3. h' \in History
    BY <1>7 DEF RelayDone, CountFin, History
  <2> QED
    BY <1>7, <2>1, <2>2, <2>3 DEF RelayDone
<1>8. CASE RelayRefused
  BY <1>7, <1>8 DEF RelayRefused
<1>9. CASE RelayFin
  BY <1>7, <1>9 DEF RelayFin
<1>10. CASE RelayWindowLoad
  <2>1. NotBelow0(tt.recvWindow - run.pkt.len) \in 0 .. MaxWindow
    BY Bounds DEF NotBelow0, Track, RunLocals, Packet
  <2>2. run' \in RunLocals
    BY <1>10, <2>1 DEF RelayWindowLoad, RunLocals
  <2> QED
    BY <1>10, <2>2 DEF RelayWindowLoad
<1>11. CASE RelayWindowStore
  <2>1. 0 \in 0 .. MaxWindow
    BY Bounds
  <2>3. run' \in RunLocals
    BY <1>11, <2>1 DEF RelayWindowStore, RunLocals
  <2>2. tt' \in Track
    BY <1>11 DEF RelayWindowStore, RunLocals, Track
  <2> QED
    BY <1>11, <2>2, <2>3 DEF RelayWindowStore
<1> QED
  BY <1>1, <1>2, <1>3, <1>4, <1>5, <1>6, <1>8, <1>9, <1>10, <1>11, <1>12
     DEF RunStep

LEMMA SelectType == ASSUME TypeOK, SelectStep PROVE TypeOK'
<1> USE DEF TypeOK
<1>1. CASE SelectTimeout
  <2>1. tt' \in Track
    BY <1>1, EndedType DEF SelectTimeout
  <2> QED
    BY <1>1, <2>1, GotoType DEF SelectTimeout
<1>2. CASE SelectAck
  <2>1. tt' \in Track
    BY <1>2, AckedType DEF SelectAck
  <2> QED
    BY <1>2, <2>1, GotoType DEF SelectAck
<1>3. CASE SelectData
  <2> DEFINE c == Head(tt.fromSocksCh)
  <2>1. c \in Chunk /\ Tail(tt.fromSocksCh) \in Seq(Chunk)
    BY <1>3 DEF SelectData, Track
  <2>2. c.len \in 0 .. SeqMod - 1
    BY <2>1, Bounds DEF Chunk
  <2>3. Acked(tt) \in Track
    BY AckedType
  <2>4. SeqAdd(Acked(tt).nxtSeq, c.len) \in Seqs
    BY <2>2, <2>3, SeqAddType DEF Track
  <2>5. Acked(tt).fromSocksCh = tt.fromSocksCh
    BY DEF Acked, Track
  <2>6. tt' \in Track
    BY <1>3, <2>1, <2>3, <2>4, <2>5 DEF SelectData, Track
  <2>7. h' \in History
    <3>2. h' = [h EXCEPT !.emitted = @ + c.len]
      BY <1>3 DEF SelectData
    <3> HIDE DEF c
    <3>1. h.emitted \in Nat
      BY DEF History
    <3>3. c.len \in Nat
      BY <2>1 DEF Chunk
    <3>4. h.emitted + c.len \in Nat
      <4> HIDE DEF TypeOK
      <4> QED
        BY <3>1, <3>3
    <3> HIDE DEF TypeOK
    <3>5. h \in History
      BY DEF TypeOK
    <3> QED
      BY <3>2, <3>4, <3>5 DEF History
  <2> QED
    BY <1>3, <2>6, <2>7, GotoType DEF SelectData
<1>4. CASE SelectClose
  <2>1. FinAcked(tt) \in Track
    BY FinAckedType
  <2>2. tt' \in Track
    BY <1>4, <2>1 DEF SelectClose, Track
  <2>3. h' \in History
    BY <1>4 DEF SelectClose, CountFin, History
  <2> QED
    BY <1>4, <2>2, <2>3, GotoType DEF SelectClose
<1>5. ASSUME NEW s \in Segments, SelectInput(s) PROVE TypeOK'
  <2> DEFINE t == [tt EXCEPT !.sendWindow = s.wnd]
  <2>1. s.seq \in Nat /\ s.len \in 0 .. MaxSeg /\ s.wnd \in Windows
           /\ (s.len > 0 => s.seq >= 1)
    BY DEF Segments
  <2>2. t \in Track
    BY <2>1, Bounds DEF Track
  <2>3. ASSUME NEW u \in Track, Finish(u)
        PROVE  tt' \in Track /\ run' \in RunLocals
    <3>1. Ended(u) \in Track
      BY EndedType
    <3> QED
      BY <2>3, <3>1, GotoType DEF Finish, Track
  <2>4. ASSUME NEW u \in Track, Continue(u)
        PROVE  tt' \in Track /\ run' \in RunLocals
    BY <2>4, GotoType DEF Continue
  <2>5. ASSUME NEW u \in Track, NEW fin \in {"yes", "no", "unread"},
               s.len > 0, Relay(u, s, fin)
        PROVE  tt' \in Track /\ run' \in RunLocals
    <3>1. [off |-> s.seq - 1, len |-> s.len, fin |-> fin] \in Packet
      BY <2>1, <2>5 DEF Packet
    <3> QED
      BY <2>5, <3>1 DEF Relay, RunLocals
  <2>11. rd' = [rd EXCEPT !.pc = "boot"] \/ WakeReader => rd' \in ReaderLocals
    BY WakeType DEF ReaderLocals
  <2>6. CASE StateClosed(t, s)
    <3>1. PICK u \in UidValues :
             /\ tt' = [t EXCEPT !.uid = u]
             /\ h' = [h EXCEPT !.dialled = IF Proxied THEN proxyType(u)
                                                      ELSE "none"]
      BY <2>2, <2>6 DEF StateClosed, FindAppUid, Track
    <3>2. tt' \in Track
      BY <2>2, <3>1 DEF Track
    <3>3. h' \in History
      BY <3>1, Configuration DEF History, proxyType, ProxyTypes
    <3>4. rd' \in ReaderLocals
      BY <1>5, <2>11 DEF SelectInput
    <3> QED
      BY <1>5, <2>6, <3>2, <3>3, <3>4, GotoType DEF SelectInput, StateClosed
  <2>7. CASE StateSynRcvd(t, s)
    <3>1. [t EXCEPT !.state = "ESTABLISHED"] \in Track
      BY <2>2 DEF Track
    <3>2. tt' \in Track /\ run' \in RunLocals /\ h' = h
      BY <2>1, <2>2, <2>3, <2>4, <2>5, <2>7, <3>1 DEF StateSynRcvd
    <3> QED
      BY <1>5, <3>2, WakeType DEF SelectInput, ReaderLocals
  <2>8. CASE StateEstablished(t, s)
    <3>1. Acked(t) \in Track /\ FinTaken(t) \in Track
      BY <2>2, AckedType, FinTakenType
    <3>2. tt' \in Track /\ run' \in RunLocals
      BY <2>1, <2>2, <2>3, <2>4, <2>5, <2>8, <3>1 DEF StateEstablished
    <3>3. h' \in History
      BY <2>8 DEF StateEstablished, CountFin, History
    <3> QED
      BY <1>5, <3>2, <3>3, WakeType DEF SelectInput, ReaderLocals
  <2>9. CASE StateFinWait1(t, s)
    <3>1. [t EXCEPT !.rcvNxtSeq = SeqAdd(@, 1)] \in Track
      <4> HIDE DEF t
      <4>1. SeqAdd(t.rcvNxtSeq, 1) \in Seqs
        BY <2>2, Bounds, SeqAddType DEF Track
      <4> QED
        BY <2>2, <4>1 DEF Track
    <3>2. Acked([t EXCEPT !.rcvNxtSeq = SeqAdd(@, 1)]) \in Track
      BY <3>1, AckedType
    <3>3. \A st \in {"TIME_WAIT", "CLOSING"} :
             [Acked([t EXCEPT !.rcvNxtSeq = SeqAdd(@, 1)])
                 EXCEPT !.state = st] \in Track
      BY <3>2 DEF Track
    <3>4. [t EXCEPT !.state = "FIN_WAIT_2"] \in Track
      BY <2>2 DEF Track
    <3>5. tt' \in Track /\ run' \in RunLocals /\ h' = h
      BY <2>2, <2>3, <2>9, <3>3, <3>4 DEF StateFinWait1
    <3> QED
      BY <1>5, <3>5, WakeType DEF SelectInput, ReaderLocals
  <2>10. CASE StateLastAck(t, s)
    <3>1. [t EXCEPT !.state = "CLOSED"] \in Track
      BY <2>2 DEF Track
    <3>2. tt' \in Track /\ run' \in RunLocals /\ h' = h
      BY <2>2, <2>3, <2>4, <2>10, <3>1 DEF StateLastAck
    <3> QED
      BY <1>5, <3>2, WakeType DEF SelectInput, ReaderLocals
  <2> QED
    BY <1>5, <2>6, <2>7, <2>8, <2>9, <2>10 DEF SelectInput
<1> QED
  BY <1>1, <1>2, <1>3, <1>4, <1>5 DEF SelectStep

LEMMA ReadyType ==
    ASSUME NEW t \in Track PROVE Ready(t) \in Track
<1>1. Ready(t) = t \/ Ready(t) = [t EXCEPT !.connectState = "ESTABLISHED"]
  BY DEF Ready
<1>2. [t EXCEPT !.connectState = "ESTABLISHED"] \in Track
  BY DEF Track
<1> QED
  BY <1>1, <1>2

LEMMA ReaderType ==
    ASSUME TypeOK,
           \/ ReaderStep \/ HandshakeFails \/ ReaderConnectReply
           \/ ReaderReadFails
           \/ \E r \in SocksReplies : HandshakeAnswered(r)
           \/ \E n \in 1 .. MaxSeg : ReaderRead(n)
    PROVE  TypeOK'
<1> USE DEF TypeOK
<1>0. ASSUME NEW n \in 0 .. MaxSeg, Swallow(n) PROVE h' \in History
  <2>1. h.srvRead + n \in Nat /\ h.lost + n \in Nat
    BY Bounds DEF History
  <2> QED
    BY <1>0, <2>1 DEF Swallow, History
<1>1. CASE ReaderBoot
  <2>1. PICK u \in UidValues :
           LET t == [tt EXCEPT !.uid = u]
           IN IF Proxied /\ proxyType(u) = "socks"
                THEN tt' = t /\ RdGoto("handshake") /\ UNCHANGED wr
                ELSE tt' = Ready(t) /\ StartWriter
    BY <1>1 DEF ReaderBoot, FindAppUid, Track
  <2>2. [tt EXCEPT !.uid = u] \in Track
    BY DEF Track
  <2>3. tt' \in Track
    BY <2>1, <2>2, ReadyType
  <2> QED
    BY <1>1, <2>1, <2>3, GotoType DEF ReaderBoot, StartWriter, WriterLocals
<1>2. ASSUME NEW r \in SocksReplies, HandshakeAnswered(r) PROVE TypeOK'
  <2> DEFINE u == Ready(tt)
  <2>1. u \in Track
    BY ReadyType
  <2>4. tt' = u \/ tt' = [u EXCEPT !.socksConn = "closed",
                                  !.socksCloseCh = TRUE]
    BY <1>2 DEF HandshakeAnswered
  <2> HIDE DEF u
  <2>5. [u EXCEPT !.socksConn = "closed", !.socksCloseCh = TRUE] \in Track
    BY <2>1 DEF Track
  <2>2. tt' \in Track
    BY <2>1, <2>4, <2>5
  <2>3. h' \in History
    BY <1>2, <1>0 DEF HandshakeAnswered
  <2> QED
    BY <1>2, <2>2, <2>3, GotoType
    DEF HandshakeAnswered, StartWriter, WriterLocals
<1>3. CASE HandshakeFails
  <2>1. tt' \in Track
    BY <1>3 DEF HandshakeFails, Track
  <2> QED
    BY <1>3, <2>1, GotoType DEF HandshakeFails
<1>4. CASE ReaderFailed
  <2>1. tt' \in Track
    BY <1>4 DEF ReaderFailed, Track
  <2> QED
    BY <1>4, <2>1, GotoType DEF ReaderFailed
<1>5. LeaveLoop => rd' \in ReaderLocals
  BY Bounds DEF LeaveLoop, ReaderLocals, NoChunk, Chunk
<1>6. CASE ReaderLoop
  <2>1. rd' \in ReaderLocals
    BY <1>5, <1>6 DEF ReaderLoop, ReaderLocals, Track
  <2> QED
    BY <1>6, <2>1 DEF ReaderLoop
<1>7. CASE ReaderWait
  BY <1>7, GotoType DEF ReaderWait
<1>8. CASE ReaderWoken
  <2>1. rd' \in ReaderLocals
    BY <1>8 DEF ReaderWoken, ReaderLocals, Track
  <2> QED
    BY <1>8, <2>1 DEF ReaderWoken
<1>9. CASE ReaderSpin
  BY <1>9, GotoType DEF ReaderSpin
<1>10. CASE ReaderConnectReply
  <2>1. tt' \in Track
    BY <1>10 DEF ReaderConnectReply, Track
  <2>2. h' \in History
    BY <1>10, <1>0 DEF ReaderConnectReply
  <2> QED
    BY <1>10, <2>1, <2>2, GotoType, WakeType DEF ReaderConnectReply
<1>11. ASSUME NEW n \in 1 .. MaxSeg, ReaderRead(n) PROVE TypeOK'
  <2>1. [off |-> h.srvRead, len |-> n] \in Chunk
    BY Bounds DEF Chunk, History
  <2>2. rd' \in ReaderLocals
    BY <1>11, <2>1 DEF ReaderRead, ReaderLocals
  <2>3. h' \in History
    <3>1. h.srvRead + n \in Nat
      BY Bounds DEF History
    <3> QED
      BY <1>11, <3>1 DEF ReaderRead, History
  <2> QED
    BY <1>11, <2>2, <2>3 DEF ReaderRead
<1>12. CASE ReaderReadFails
  BY <1>5, <1>12 DEF ReaderReadFails
<1>13. CASE ReaderPush
  <2>1. Append(tt.fromSocksCh, rd.buf) \in Seq(Chunk)
    BY DEF Track, ReaderLocals
  <2>2. tt' \in Track
    BY <1>13, <2>1 DEF ReaderPush, Track
  <2> QED
    BY <1>13, <2>2, GotoType DEF ReaderPush
<1>14. CASE ReaderShrinkWindow
  <2>1. NotBelow0(rd.wnd - rd.buf.len) \in 0 .. MaxWindow
    BY Bounds DEF NotBelow0, ReaderLocals, Chunk
  <2>2. tt' \in Track
    BY <1>14, <2>1 DEF ReaderShrinkWindow, Track
  <2> QED
    BY <1>14, <2>2, GotoType DEF ReaderShrinkWindow
<1>15. CASE ReaderBroadcast
  <2>1. rd' \in ReaderLocals
    BY <1>15, Bounds DEF ReaderBroadcast, ReaderLocals, NoChunk, Chunk
  <2> QED
    BY <1>15, <2>1, WakeType DEF ReaderBroadcast
<1>16. CASE ReaderEnd
  <2>2. tt' = tt \/ tt' = [tt EXCEPT !.socksCloseCh = TRUE]
    BY <1>16 DEF ReaderEnd
  <2>3. [tt EXCEPT !.socksCloseCh = TRUE] \in Track
    BY DEF Track
  <2>1. tt' \in Track
    BY <2>2, <2>3
  <2> QED
    BY <1>16, <2>1, GotoType, WakeType DEF ReaderEnd
<1> QED
  BY <1>1, <1>2, <1>3, <1>4, <1>6, <1>7, <1>8, <1>9, <1>10, <1>11, <1>12,
     <1>13, <1>14, <1>15, <1>16 DEF ReaderStep

LEMMA WriterType ==
    ASSUME TypeOK, WriterStep \/ WriterWrite PROVE TypeOK'
<1> USE DEF TypeOK
<1>1. CASE WriterTake
  <2>1. Head(tt.toSocksCh) \in Chunk /\ Tail(tt.toSocksCh) \in Seq(Chunk)
    BY <1>1 DEF WriterTake, Track
  <2>2. tt' \in Track
    BY <1>1, <2>1 DEF WriterTake, Track
  <2>3. wr' \in WriterLocals
    BY <1>1, <2>1 DEF WriterTake, WriterLocals
  <2> QED
    BY <1>1, <2>2, <2>3 DEF WriterTake
<1>2. CASE WriterExit
  BY <1>2, GotoType DEF WriterExit
<1>3. CASE WriterConnect
  <2>1. h' \in History
    BY <1>3 DEF WriterConnect, History
  <2> QED
    BY <1>3, <2>1, GotoType DEF WriterConnect
<1>9. CASE WriterSent
  <2>1. tt' \in Track
    BY <1>9 DEF WriterSent, Track
  <2> QED
    BY <1>9, <2>1, GotoType DEF WriterSent
<1>4. CASE WriterCheck
  BY <1>4, GotoType DEF WriterCheck
<1>5. CASE WriterWait
  BY <1>5, GotoType DEF WriterWait
<1>6. CASE WriterWrite
  <2>1. h' \in History
    BY <1>6 DEF WriterWrite, History, WriterLocals, Chunk
  <2> QED
    BY <1>6, <2>1, GotoType DEF WriterWrite
<1>7. CASE WriterCreditLoad
  <2>1. AtMost(tt.recvWindow + wr.pkt.len, MaxWindow) \in 0 .. MaxWindow
    BY Bounds DEF AtMost, Track, WriterLocals, Chunk
  <2>2. wr' \in WriterLocals
    BY <1>7, <2>1 DEF WriterCreditLoad, WriterLocals
  <2> QED
    BY <1>7, <2>2 DEF WriterCreditLoad
<1>8. CASE WriterCreditStore
  <2>1. tt' \in Track
    BY <1>8 DEF WriterCreditStore, WriterLocals, Track
  <2>2. wr' \in WriterLocals
    BY <1>8, Bounds DEF WriterCreditStore, WriterLocals, NoChunk, Chunk
  <2>3. h' \in History
    BY <1>8 DEF WriterCreditStore, History, WriterLocals, Chunk
  <2> QED
    BY <1>8, <2>1, <2>2, <2>3 DEF WriterCreditStore
<1> QED
  BY <1>1, <1>2, <1>3, <1>4, <1>5, <1>6, <1>7, <1>8, <1>9 DEF WriterStep

LEMMA EnvironmentType ==
    ASSUME TypeOK, Environment \/ PeerResets PROVE TypeOK'
<1> USE DEF TypeOK
<1>1. CASE Stop
  <2>1. tt' \in Track
    BY <1>1 DEF Stop, Track, Closed
  <2> QED
    BY <1>1, <2>1 DEF Stop, Table
<1>2. CASE ForeignClear
  <2>1. tt' \in Track
    BY <1>2 DEF ForeignClear, Track
  <2> QED
    BY <1>2, <2>1, WakeType DEF ForeignClear, Unmap, Table
<1>3. CASE Supersede
  BY <1>3 DEF Supersede, Unmap, Table
<1>5. CASE StopReturns
  BY <1>5 DEF StopReturns, Table
<1>4. CASE PeerResets
  <2>1. tt' \in Track
    BY <1>4 DEF PeerResets, Track
  <2> QED
    BY <1>4, <2>1 DEF PeerResets
<1> QED
  BY <1>1, <1>2, <1>3, <1>4, <1>5 DEF Environment

LEMMA TypeStep == ASSUME TypeOK, [Next]_vars PROVE TypeOK'
<1>1. CASE UNCHANGED vars
  BY <1>1 DEF vars, TypeOK
<1>2. CASE Next
  BY <1>2, RunType, SelectType, ReaderType, WriterType, EnvironmentType
     DEF Next, PeerStep, SocketStep
<1> QED
  BY <1>1, <1>2

\* Every field of the shared track and every local of the three goroutines
\* keeps its type: no window leaves 0 .. MaxWindow although two goroutines
\* update each without a lock, and no sequence number leaves 0 .. SeqMod-1.
THEOREM TypeCorrect == Spec => []TypeOK
<1> QED
  BY TypeInit, TypeStep, PTL DEF Spec
-----------------------------------------------------------------------------
(* How a track ends.  SocketReleased, Unblocked and GoneIsDoomed are made   *)
(* inductive by what the tun reader's and Stop's steps keep: a track that   *)
(* lost its place in the table, or that Stop has reached, is destroyed.     *)

UnmappedIsDoomed == (~table.mapped \/ tt.quitByOther) => tt.destroyed

\* HandlersReached, at every place of run()'s loop.
LoopStates ==
    ~RunGone => tt.state \in {"CLOSED", "SYN_RCVD", "ESTABLISHED",
                              "FIN_WAIT_1", "LAST_ACK"}

EndInv ==
    /\ TypeOK
    /\ SocketReleased /\ Unblocked /\ GoneIsDoomed
    /\ UnmappedIsDoomed /\ LoopStates

\* One step keeps the invariant and is a step of TrackLife.
EndStep == EndInv' /\ [Life!LifeNext]_(Life!lifeVars)

LEMMA EndInit == Init => EndInv /\ Life!LifeInit
BY TypeInit
   DEF Init, EndInv, SocketReleased, Unblocked, GoneIsDoomed, RunGone,
       UnmappedIsDoomed, LoopStates, Life!LifeInit

\* A step that leaves run() inside its loop, and the fate of the track alone.
LEMMA InLoop ==
    ASSUME EndInv, TypeOK',
           tt'.destroyed = tt.destroyed, tt'.quitBySelf = tt.quitBySelf,
           tt'.quitByOther = tt.quitByOther, table' = table,
           ~RunGone, ~RunGone',
           tt'.state \in {"CLOSED", "SYN_RCVD", "ESTABLISHED", "FIN_WAIT_1",
                          "LAST_ACK"}
    PROVE  EndStep
<1>1. EndInv'
  BY DEF EndInv, SocketReleased, Unblocked, GoneIsDoomed, UnmappedIsDoomed,
         LoopStates, RunGone
<1>2. UNCHANGED Life!lifeVars
  BY DEF Life!lifeVars
<1> QED
  BY <1>1, <1>2 DEF EndStep

\* A step of another goroutine, or of the peer, that may close the socket.
LEMMA NotRun ==
    ASSUME EndInv, TypeOK', run' = run, table'.mapped = table.mapped,
           tt'.destroyed \in {tt.destroyed, TRUE},
           tt'.quitBySelf = tt.quitBySelf, tt'.quitByOther = tt.quitByOther,
           tt'.state = tt.state,
           tt'.socksConn \in {tt.socksConn, "closed"}
             \/ (tt.socksConn = "open" /\ tt'.socksConn = "broken")
    PROVE  EndStep
<1>1. EndInv'
  BY DEF EndInv, SocketReleased, Unblocked, GoneIsDoomed, UnmappedIsDoomed,
         LoopStates, RunGone
<1>2. [Life!LifeNext]_(Life!lifeVars)
  BY DEF RunGone, Life!lifeVars, Life!LifeNext, Life!Doom
<1> QED
  BY <1>1, <1>2 DEF EndStep

\* run() leaves its loop through EndRun.
LEMMA Ending ==
    ASSUME EndInv, TypeOK', ~RunGone, run'.pc = "clear", table' = table,
           tt'.quitBySelf = TRUE, tt'.quitByOther = tt.quitByOther,
           tt'.destroyed \in {tt.destroyed, TRUE},
           tt'.socksConn \in {"nil", "closed"}
    PROVE  EndStep
<1>1. EndInv'
  BY DEF EndInv, SocketReleased, Unblocked, GoneIsDoomed, UnmappedIsDoomed,
         LoopStates, RunGone
<1>2. Life!End
  BY DEF RunGone, Life!End
<1> QED
  BY <1>1, <1>2 DEF EndStep, Life!LifeNext

LEMMA EndedEnds ==
    ASSUME NEW t \in Track
    PROVE  /\ Ended(t).quitBySelf = TRUE
           /\ Ended(t).quitByOther = t.quitByOther
           /\ Ended(t).destroyed = t.destroyed
           /\ Ended(t).state = t.state
           /\ Ended(t).socksConn \in {"nil", "closed"}
BY DEF Ended, Closed, Track

\* Acknowledging and taking a FIN decide nothing about the track's fate.
LEMMA SendsKeep ==
    ASSUME NEW t \in Track
    PROVE  \A u \in {Acked(t), FinAcked(t), FinTaken(t)} :
              /\ u.destroyed = t.destroyed
              /\ u.quitBySelf = t.quitBySelf
              /\ u.quitByOther = t.quitByOther
<1>1. [t EXCEPT !.rcvNxtSeq = SeqAdd(@, 1)] \in Track
  <2>1. SeqAdd(t.rcvNxtSeq, 1) \in Seqs
    BY Bounds, SeqAddType DEF Track
  <2> QED
    BY <2>1 DEF Track
<1>2. \A v \in Track : /\ Acked(v).destroyed = v.destroyed
                       /\ Acked(v).quitBySelf = v.quitBySelf
                       /\ Acked(v).quitByOther = v.quitByOther
                       /\ FinAcked(v).destroyed = v.destroyed
                       /\ FinAcked(v).quitBySelf = v.quitBySelf
                       /\ FinAcked(v).quitByOther = v.quitByOther
  BY DEF Acked, FinAcked, Track
<1>3. FinTaken(t).destroyed = t.destroyed
        /\ FinTaken(t).quitBySelf = t.quitBySelf
        /\ FinTaken(t).quitByOther = t.quitByOther
  <2>1. FinAcked([t EXCEPT !.rcvNxtSeq = SeqAdd(@, 1)]) \in Track
    BY <1>1, FinAckedType
  <2> QED
    BY <1>1, <1>2, <2>1 DEF FinTaken, Track
<1> QED
  BY <1>2, <1>3

LEMMA EndRunStep == ASSUME EndInv, TypeOK', RunStep PROVE EndStep
<1> USE DEF EndInv, TypeOK
<1>1. CASE RunTop
  <2>1. PICK idle \in {FALSE, tt.state = "ESTABLISHED"} :
           LET t == [tt EXCEPT !.destroyed = @ \/ idle]
           IN /\ tt' = IF t.destroyed THEN Ended(t) ELSE t
              /\ run' = [run EXCEPT
                           !.armed = @ \/ tt.state = "ESTABLISHED",
                           !.pc = IF t.destroyed THEN "clear" ELSE "select"]
    BY <1>1 DEF RunTop
  <2> DEFINE t == [tt EXCEPT !.destroyed = @ \/ idle]
  <2>2. t \in Track /\ t.destroyed \in {tt.destroyed, TRUE}
          /\ t.quitByOther = tt.quitByOther /\ t.quitBySelf = tt.quitBySelf
          /\ t.state = tt.state
    BY DEF Track
  <2>3. ~RunGone /\ table' = table
    BY <1>1 DEF RunTop, RunAt, RunGone
  <2>4. run'.pc = IF t.destroyed THEN "clear" ELSE "select"
    BY <2>1 DEF RunLocals
  <2>5. tt' = IF t.destroyed THEN Ended(t) ELSE t
    BY <2>1
  <2> HIDE DEF t
  <2>6. CASE t.destroyed
    BY <2>2, <2>3, <2>4, <2>5, <2>6, Ending, EndedEnds
  <2>7. CASE ~t.destroyed
    <3>1. t.destroyed = tt.destroyed
      BY <2>2, <2>7 DEF Track
    <3> QED
      BY <2>2, <2>3, <2>4, <2>5, <2>7, <3>1, InLoop
         DEF RunGone, LoopStates
  <2> QED
    BY <2>6, <2>7
<1>2. CASE SelectQuit
  <2>1. EndInv'
    BY <1>2 DEF SelectQuit, RunGoto, Closed, Track, RunLocals,
         SocketReleased, Unblocked, GoneIsDoomed, UnmappedIsDoomed,
         LoopStates, RunGone
  <2>2. Life!QuitOther
    BY <1>2 DEF SelectQuit, RunAt, RunGoto, RunGone, RunLocals, Track,
         Life!QuitOther
  <2> QED
    BY <2>1, <2>2 DEF EndStep, Life!LifeNext
<1>3. CASE ClearTrack
  <2>1. tt'.destroyed = TRUE /\ tt'.socksConn = tt.socksConn
          /\ tt'.quitBySelf = tt.quitBySelf
          /\ tt'.quitByOther = tt.quitByOther /\ run'.pc = "done"
    BY <1>3 DEF ClearTrack, Unmap, Table, RunGoto, RunLocals, Track,
         UnmappedIsDoomed
  <2>2. EndInv'
    BY <1>3, <2>1 DEF ClearTrack, RunAt, SocketReleased, Unblocked,
         GoneIsDoomed, UnmappedIsDoomed, LoopStates, RunGone
  <2>3. Life!Clear
    BY <1>3, <2>1 DEF ClearTrack, RunAt, RunGone, Life!Clear
  <2> QED
    BY <2>2, <2>3 DEF EndStep, Life!LifeNext
<1>12. CASE DialPanics
  <2>1. ~RunGone /\ ~RunGone' /\ tt' = tt /\ table' = table
    BY <1>12 DEF DialPanics, RunAt, RunGoto, RunGone, RunLocals
  <2> QED
    BY <2>1, InLoop DEF LoopStates
<1>4. CASE DialFails
  BY <1>4, Ending DEF DialFails, RunAt, RunGoto, RunGone, RunLocals, Track
<1>5. CASE DialSucceeds
  <2> DEFINE u == [tt EXCEPT !.rcvNxtSeq = SeqAdd(Isn, 1)]
  <2>1. u \in Track /\ u.destroyed = tt.destroyed
          /\ u.quitBySelf = tt.quitBySelf /\ u.quitByOther = tt.quitByOther
    <3>1. SeqAdd(Isn, 1) \in Seqs
      BY Bounds, SeqAddType DEF Seqs
    <3> QED
      BY <3>1 DEF Track
  <2>2. Acked(u) \in Track /\ Acked(u).destroyed = tt.destroyed
          /\ Acked(u).quitBySelf = tt.quitBySelf
          /\ Acked(u).quitByOther = tt.quitByOther
    BY <2>1, AckedType, SendsKeep
  <2>3. tt'.destroyed = tt.destroyed /\ tt'.quitBySelf = tt.quitBySelf
          /\ tt'.quitByOther = tt.quitByOther /\ tt'.state = "SYN_RCVD"
    BY <1>5, <2>2 DEF DialSucceeds, Track
  <2>4. ~RunGone /\ ~RunGone' /\ table' = table
    BY <1>5 DEF DialSucceeds, RunAt, RunGoto, RunGone, RunLocals
  <2> QED
    BY <2>3, <2>4, InLoop
<1>6. CASE RelayEnqueue
  <2>1. ~RunGone /\ ~RunGone' /\ table' = table
    BY <1>6 DEF RelayEnqueue, RunAt, RunGoto, RunGone, RunLocals
  <2>2. tt'.destroyed = tt.destroyed /\ tt'.quitBySelf = tt.quitBySelf
          /\ tt'.quitByOther = tt.quitByOther /\ tt'.state = tt.state
    BY <1>6 DEF RelayEnqueue, Track
  <2> QED
    BY <2>1, <2>2, InLoop DEF LoopStates
<1>7. ASSUME NEW fin \in BOOLEAN, RelayDone(fin), ~RunGone PROVE EndStep
  <2>1. ~RunGone' /\ table' = table
    BY <1>7 DEF RelayDone, RunGone, RunLocals
  <2>2. FinTaken(tt).state = "LAST_ACK"
    <3>1. [tt EXCEPT !.rcvNxtSeq = SeqAdd(@, 1)] \in Track
      <4>1. SeqAdd(tt.rcvNxtSeq, 1) \in Seqs
        BY Bounds, SeqAddType DEF Track
      <4> QED
        BY <4>1 DEF Track
    <3>2. FinAcked([tt EXCEPT !.rcvNxtSeq = SeqAdd(@, 1)]) \in Track
      BY <3>1, FinAckedType
    <3> QED
      BY <3>2 DEF FinTaken, Track
  <2>3. tt'.destroyed = tt.destroyed /\ tt'.quitBySelf = tt.quitBySelf
          /\ tt'.quitByOther = tt.quitByOther
          /\ tt'.state \in {tt.state, "LAST_ACK"}
    BY <1>7, <2>2, SendsKeep DEF RelayDone
  <2> QED
    BY <1>7, <2>1, <2>3, InLoop DEF LoopStates
<1>8. CASE RelayRefused
  BY <1>7, <1>8 DEF RelayRefused, RunAt, RunGone
<1>9. CASE RelayFin
  BY <1>7, <1>9 DEF RelayFin, RunAt, RunGone
<1>10. CASE RelayWindowLoad
  BY <1>10, InLoop DEF RelayWindowLoad, RunAt, RunGone, RunLocals, LoopStates
<1>11. CASE RelayWindowStore
  <2>1. ~RunGone /\ ~RunGone' /\ table' = table
    BY <1>11 DEF RelayWindowStore, RunAt, RunGone, RunLocals
  <2>2. tt'.destroyed = tt.destroyed /\ tt'.quitBySelf = tt.quitBySelf
          /\ tt'.quitByOther = tt.quitByOther /\ tt'.state = tt.state
    BY <1>11 DEF RelayWindowStore, Track
  <2> QED
    BY <2>1, <2>2, InLoop DEF LoopStates
<1> QED
  BY <1>1, <1>2, <1>3, <1>4, <1>5, <1>6, <1>8, <1>9, <1>10, <1>11, <1>12
     DEF RunStep

LEMMA EndSelectStep == ASSUME EndInv, TypeOK', SelectStep PROVE EndStep
<1> USE DEF EndInv, TypeOK
<1>1. CASE SelectTimeout
  BY <1>1, Ending, EndedEnds
     DEF SelectTimeout, RunAt, RunGoto, RunGone, RunLocals
<1>2. CASE SelectAck
  <2>1. ~RunGone /\ ~RunGone' /\ table' = table
    BY <1>2 DEF SelectAck, RunAt, RunGoto, RunGone, RunLocals
  <2>2. Acked(tt).state = tt.state
    BY DEF Acked, Track
  <2> QED
    BY <1>2, <2>1, <2>2, InLoop, SendsKeep DEF SelectAck, LoopStates
<1>3. CASE SelectData
  <2>1. ~RunGone /\ ~RunGone' /\ table' = table
    BY <1>3 DEF SelectData, RunAt, RunGoto, RunGone, RunLocals
  <2>2. tt'.destroyed = tt.destroyed /\ tt'.quitBySelf = tt.quitBySelf
          /\ tt'.quitByOther = tt.quitByOther /\ tt'.state = tt.state
    BY <1>3 DEF SelectData, Acked, Track
  <2> QED
    BY <2>1, <2>2, InLoop DEF LoopStates
<1>4. CASE SelectClose
  <2>1. ~RunGone /\ ~RunGone' /\ table' = table
    BY <1>4 DEF SelectClose, RunAt, RunGoto, RunGone, RunLocals
  <2>2. tt'.destroyed = tt.destroyed /\ tt'.quitBySelf = tt.quitBySelf
          /\ tt'.quitByOther = tt.quitByOther /\ tt'.state = "FIN_WAIT_1"
    <3> DEFINE u == FinAcked(tt)
    <3>1. /\ u \in Track /\ u.destroyed = tt.destroyed
          /\ u.quitBySelf = tt.quitBySelf
          /\ u.quitByOther = tt.quitByOther
      BY FinAckedType, SendsKeep
    <3>2. tt' = [u EXCEPT !.state = "FIN_WAIT_1"]
      BY <1>4 DEF SelectClose
    <3> HIDE DEF u
    <3> QED
      BY <3>1, <3>2 DEF Track
  <2> QED
    BY <2>1, <2>2, InLoop
<1>5. ASSUME NEW s \in Segments, SelectInput(s) PROVE EndStep
  <2> DEFINE t == [tt EXCEPT !.sendWindow = s.wnd]
  <2>0. ~RunGone /\ table' = table
    BY <1>5 DEF SelectInput, RunAt, RunGone
  <2>1. t \in Track
    BY Bounds DEF Track, Segments
  <2>2. t.destroyed = tt.destroyed /\ t.quitBySelf = tt.quitBySelf
          /\ t.quitByOther = tt.quitByOther /\ t.state = tt.state
    BY DEF Track
  <2>3. ASSUME NEW u \in Track, Finish(u), u.quitByOther = tt.quitByOther
        PROVE  EndStep
    <3> DEFINE v == Ended(u)
    <3>1. /\ v \in Track /\ v.quitBySelf = TRUE
          /\ v.quitByOther = tt.quitByOther
          /\ v.socksConn \in {"nil", "closed"}
      BY <2>3, EndedType, EndedEnds
    <3>4. tt' = [v EXCEPT !.destroyed = TRUE]
      BY <2>3 DEF Finish
    <3> HIDE DEF v
    <3>2. tt'.quitBySelf = TRUE /\ tt'.quitByOther = tt.quitByOther
            /\ tt'.destroyed = TRUE /\ tt'.socksConn \in {"nil", "closed"}
      BY <3>1, <3>4 DEF Track
    <3>3. run'.pc = "clear"
      BY <2>3 DEF Finish, RunGoto, RunLocals
    <3> QED
      BY <2>0, <3>2, <3>3, Ending
  <2>4. ASSUME NEW u \in Track, tt' = u,
               run'.pc \in {"top", "relay", "dial"},
               u.destroyed = tt.destroyed, u.quitBySelf = tt.quitBySelf,
               u.quitByOther = tt.quitByOther,
               u.state \in {tt.state, "ESTABLISHED", "LAST_ACK"}
        PROVE  EndStep
    <3>1. ~RunGone'
      BY <2>4 DEF RunGone
    <3> QED
      BY <2>0, <2>4, <3>1, InLoop DEF LoopStates
  <2>5. /\ \A u : Continue(u) => tt' = u /\ run'.pc = "top"
        /\ \A u, fin : Relay(u, s, fin) => tt' = u /\ run'.pc = "relay"
    BY DEF Continue, Relay, RunGoto, RunLocals
  <2>6. CASE StateClosed(t, s)
    <3>4. t.uid \in UidValues
      BY <2>1 DEF Track
    <3>1. PICK u \in UidValues : tt' = [t EXCEPT !.uid = u]
      BY <2>6, <3>4 DEF StateClosed, FindAppUid
    <3>2. tt' \in Track /\ tt'.destroyed = tt.destroyed
            /\ tt'.quitBySelf = tt.quitBySelf
            /\ tt'.quitByOther = tt.quitByOther /\ tt'.state = tt.state
      BY <2>1, <2>2, <3>1 DEF Track
    <3>3. run'.pc = "dial"
      BY <2>6 DEF StateClosed, RunGoto, RunLocals
    <3> QED
      BY <2>4, <3>2, <3>3
  <2>7. CASE StateSynRcvd(t, s)
    <3> DEFINE open == [t EXCEPT !.state = "ESTABLISHED"]
    <3>1. open \in Track /\ open.destroyed = tt.destroyed
            /\ open.quitBySelf = tt.quitBySelf
            /\ open.quitByOther = tt.quitByOther
            /\ open.state = "ESTABLISHED"
      BY <2>1, <2>2 DEF Track
    <3>2. \/ Finish(t) \/ Continue(t) \/ Continue(open)
          \/ Relay(open, s, "unread")
      BY <2>7 DEF StateSynRcvd
    <3> HIDE DEF t, open
    <3> QED
      BY <2>1, <2>2, <2>3, <2>4, <2>5, <3>1, <3>2
  <2>8. CASE StateEstablished(t, s)
    <3>1. Acked(t) \in Track /\ FinTaken(t) \in Track
      BY <2>1, AckedType, FinTakenType
    <3>2. Acked(t).state = t.state /\ FinTaken(t).state = "LAST_ACK"
      <4>1. [t EXCEPT !.rcvNxtSeq = SeqAdd(@, 1)] \in Track
        <5> HIDE DEF t
        <5>1. SeqAdd(t.rcvNxtSeq, 1) \in Seqs
          BY <2>1, Bounds, SeqAddType DEF Track
        <5> QED
          BY <2>1, <5>1 DEF Track
      <4>2. FinAcked([t EXCEPT !.rcvNxtSeq = SeqAdd(@, 1)]) \in Track
        BY <4>1, FinAckedType
      <4> QED
        BY <2>1, <4>2 DEF FinTaken, Acked, Track
    <3>3. \/ Continue(Acked(t)) \/ Finish(t) \/ Continue(t)
          \/ Relay(t, s, "yes") \/ Relay(t, s, "no") \/ Continue(FinTaken(t))
      BY <2>8 DEF StateEstablished
    <3>4. \A u \in {Acked(t), FinTaken(t)} :
             /\ u.destroyed = tt.destroyed /\ u.quitBySelf = tt.quitBySelf
             /\ u.quitByOther = tt.quitByOther
      BY <2>1, <2>2, SendsKeep
    <3> HIDE DEF t
    <3> QED
      BY <2>1, <2>2, <2>3, <2>4, <2>5, <3>1, <3>2, <3>3, <3>4
  <2>9. CASE StateFinWait1(t, s)
    <3> DEFINE u == Acked([t EXCEPT !.rcvNxtSeq = SeqAdd(@, 1)])
    <3>1. [t EXCEPT !.rcvNxtSeq = SeqAdd(@, 1)] \in Track
      <4> HIDE DEF t
      <4>1. SeqAdd(t.rcvNxtSeq, 1) \in Seqs
        BY <2>1, Bounds, SeqAddType DEF Track
      <4> QED
        BY <2>1, <4>1 DEF Track
    <3>2. u \in Track /\ u.quitByOther = tt.quitByOther
      <4> DEFINE r == [t EXCEPT !.rcvNxtSeq = SeqAdd(@, 1)]
      <4> HIDE DEF t
      <4>1. r.quitByOther = tt.quitByOther
        BY <2>1, <2>2 DEF Track
      <4>2. Acked(r).quitByOther = r.quitByOther /\ Acked(r) \in Track
        BY <3>1, AckedType, SendsKeep
      <4> QED
        BY <4>1, <4>2
    <3>3. \A st \in {"TIME_WAIT", "CLOSING"} :
             /\ [u EXCEPT !.state = st] \in Track
             /\ [u EXCEPT !.state = st].quitByOther = tt.quitByOther
      <4> HIDE DEF u
      <4> QED
        BY <3>2 DEF Track
    <3>4. [t EXCEPT !.state = "FIN_WAIT_2"] \in Track
            /\ [t EXCEPT !.state = "FIN_WAIT_2"].quitByOther = tt.quitByOther
      BY <2>1, <2>2 DEF Track
    <3>5. \/ \E st \in {"TIME_WAIT", "CLOSING"} :
                Finish([u EXCEPT !.state = st])
          \/ Finish([t EXCEPT !.state = "FIN_WAIT_2"]) \/ Finish(t)
      BY <2>9 DEF StateFinWait1
    <3> QED
      BY <2>1, <2>2, <2>3, <3>3, <3>4, <3>5
  <2>10. CASE StateLastAck(t, s)
    <3>1. [t EXCEPT !.state = "CLOSED"] \in Track
            /\ [t EXCEPT !.state = "CLOSED"].quitByOther = tt.quitByOther
      BY <2>1, <2>2 DEF Track
    <3>2. Finish([t EXCEPT !.state = "CLOSED"]) \/ Continue(t)
      BY <2>10 DEF StateLastAck
    <3> QED
      BY <2>1, <2>2, <2>3, <2>4, <2>5, <3>1, <3>2
  <2> QED
    BY <1>5, <2>6, <2>7, <2>8, <2>9, <2>10 DEF SelectInput
<1> QED
  BY <1>1, <1>2, <1>3, <1>4, <1>5 DEF SelectStep

\* The reader may close the socket and condemn the track, nothing more.
LEMMA EndReaderStep ==
    ASSUME EndInv, TypeOK',
           \/ ReaderStep \/ HandshakeFails \/ ReaderConnectReply
           \/ ReaderReadFails
           \/ \E r \in SocksReplies : HandshakeAnswered(r)
           \/ \E n \in 1 .. MaxSeg : ReaderRead(n)
    PROVE  EndStep
<1> USE DEF EndInv, TypeOK
<1>1. ASSUME NEW t \in Track
      PROVE  /\ Ready(t) \in Track
             /\ Ready(t).destroyed = t.destroyed
             /\ Ready(t).quitBySelf = t.quitBySelf
             /\ Ready(t).quitByOther = t.quitByOther
             /\ Ready(t).state = t.state
             /\ Ready(t).socksConn = t.socksConn
  <2>1. Ready(t) = t \/ Ready(t) = [t EXCEPT !.connectState = "ESTABLISHED"]
    BY DEF Ready
  <2>2. CASE Ready(t) = t
    BY <2>2
  <2>3. CASE Ready(t) = [t EXCEPT !.connectState = "ESTABLISHED"]
    BY <2>3 DEF Track
  <2> QED
    BY <2>1, <2>2, <2>3
<1>2. CASE ReaderBoot
  <2>1. PICK u \in UidValues :
           tt' \in {[tt EXCEPT !.uid = u], Ready([tt EXCEPT !.uid = u])}
    BY <1>2 DEF ReaderBoot, FindAppUid, Track
  <2>2. [tt EXCEPT !.uid = u] \in Track
    BY DEF Track
  <2>3. tt'.destroyed = tt.destroyed /\ tt'.quitBySelf = tt.quitBySelf
          /\ tt'.quitByOther = tt.quitByOther /\ tt'.state = tt.state
          /\ tt'.socksConn = tt.socksConn
    BY <1>1, <2>1, <2>2 DEF Track
  <2> QED
    BY <1>2, <2>3, NotRun DEF ReaderBoot
<1>3. ASSUME NEW r \in SocksReplies, HandshakeAnswered(r) PROVE EndStep
  <2>1. tt'.destroyed = tt.destroyed /\ tt'.quitBySelf = tt.quitBySelf
          /\ tt'.quitByOther = tt.quitByOther /\ tt'.state = tt.state
          /\ tt'.socksConn \in {tt.socksConn, "closed"}
    <3>1. \/ tt' = Ready(tt)
          \/ tt' = [Ready(tt) EXCEPT !.socksConn = "closed",
                                     !.socksCloseCh = TRUE]
      BY <1>3 DEF HandshakeAnswered
    <3> DEFINE u == Ready(tt)
    <3>2. /\ u \in Track
          /\ u.destroyed = tt.destroyed /\ u.quitBySelf = tt.quitBySelf
          /\ u.quitByOther = tt.quitByOther /\ u.state = tt.state
          /\ u.socksConn = tt.socksConn
      BY <1>1
    <3>3. tt' = u \/ tt' = [u EXCEPT !.socksConn = "closed",
                                    !.socksCloseCh = TRUE]
      BY <3>1
    <3> HIDE DEF u, EndInv, TypeOK
    <3>4. CASE tt' = u
      BY <3>2, <3>4
    <3>5. CASE tt' = [u EXCEPT !.socksConn = "closed", !.socksCloseCh = TRUE]
      BY <3>2, <3>5 DEF Track
    <3> QED
      BY <3>3, <3>4, <3>5
  <2> QED
    BY <1>3, <2>1, NotRun DEF HandshakeAnswered
<1>4. CASE HandshakeFails
  BY <1>4, NotRun DEF HandshakeFails, Track
<1>5. CASE ReaderFailed
  BY <1>5, NotRun DEF ReaderFailed, Track
<1>6. CASE ReaderConnectReply
  BY <1>6, NotRun DEF ReaderConnectReply, Track
<1>7. CASE ReaderPush
  BY <1>7, NotRun DEF ReaderPush, Track
<1>8. CASE ReaderShrinkWindow
  BY <1>8, NotRun DEF ReaderShrinkWindow, Track
<1>9. CASE ReaderEnd
  <2>1. tt' = tt \/ tt' = [tt EXCEPT !.socksCloseCh = TRUE]
    BY <1>9 DEF ReaderEnd
  <2>2. tt'.destroyed = tt.destroyed /\ tt'.quitBySelf = tt.quitBySelf
          /\ tt'.quitByOther = tt.quitByOther /\ tt'.state = tt.state
          /\ tt'.socksConn = tt.socksConn
    BY <2>1 DEF Track
  <2> QED
    BY <1>9, <2>2, NotRun DEF ReaderEnd
<1>10. ASSUME UNCHANGED <<tt, table, run>> PROVE EndStep
  BY <1>10, NotRun
<1>11. ASSUME NEW n \in 1 .. MaxSeg, ReaderRead(n) PROVE EndStep
  BY <1>10, <1>11 DEF ReaderRead
<1>12. CASE \/ ReaderLoop \/ ReaderWait \/ ReaderWoken \/ ReaderSpin
            \/ ReaderReadFails \/ ReaderBroadcast
  BY <1>10, <1>12 DEF ReaderLoop, ReaderWait, ReaderWoken, ReaderSpin,
     ReaderReadFails, ReaderBroadcast
<1> QED
  BY <1>2, <1>3, <1>4, <1>5, <1>6, <1>7, <1>8, <1>9, <1>11, <1>12
     DEF ReaderStep

LEMMA EndWriterStep ==
    ASSUME EndInv, TypeOK', WriterStep \/ WriterWrite PROVE EndStep
<1> USE DEF EndInv, TypeOK
<1>1. CASE WriterTake
  BY <1>1, NotRun DEF WriterTake, Track
<1>2. CASE WriterSent
  BY <1>2, NotRun DEF WriterSent, Track
<1>3. CASE WriterCreditStore
  BY <1>3, NotRun DEF WriterCreditStore, Track
<1>4. CASE \/ WriterExit \/ WriterConnect \/ WriterCheck \/ WriterWait
           \/ WriterWrite \/ WriterCreditLoad
  BY <1>4, NotRun DEF WriterExit, WriterConnect, WriterCheck, WriterWait,
     WriterWrite, WriterCreditLoad
<1> QED
  BY <1>1, <1>2, <1>3, <1>4 DEF WriterStep

LEMMA EndEnvironmentStep ==
    ASSUME EndInv, TypeOK', Environment \/ PeerResets PROVE EndStep
<1> USE DEF EndInv, TypeOK
<1>1. CASE Stop /\ table.mapped
  <2>1. tt'.destroyed = TRUE /\ tt'.quitBySelf = tt.quitBySelf
          /\ tt'.quitByOther = TRUE /\ tt'.state = tt.state
          /\ tt'.socksConn \in {"nil", "closed"}
    BY <1>1 DEF Stop, Closed, Track
  <2>2. EndInv'
    BY <1>1, <2>1 DEF Stop, SocketReleased, Unblocked, GoneIsDoomed,
       UnmappedIsDoomed, LoopStates, RunGone
  <2>3. Life!StopIt
    BY <1>1, <2>1 DEF Stop, RunGone, Life!StopIt
  <2> QED
    BY <2>2, <2>3 DEF EndStep, Life!LifeNext
<1>6. CASE (Stop /\ ~table.mapped) \/ StopReturns
  <2>1. tt' = tt /\ run' = run /\ table'.mapped = table.mapped
    BY <1>6 DEF Stop, StopReturns, Table
  <2> QED
    BY <2>1, NotRun
<1>2. ASSUME tt'.destroyed = TRUE, tt'.quitBySelf = tt.quitBySelf,
             tt'.quitByOther = tt.quitByOther, tt'.state = tt.state,
             tt'.socksConn = tt.socksConn, run' = run
      PROVE  EndStep
  <2>1. EndInv'
    BY <1>2 DEF SocketReleased, Unblocked, GoneIsDoomed, UnmappedIsDoomed,
       LoopStates, RunGone
  <2>2. Life!Doom
    BY <1>2 DEF RunGone, Life!Doom
  <2> QED
    BY <2>1, <2>2 DEF EndStep, Life!LifeNext
<1>3. CASE ForeignClear
  BY <1>2, <1>3 DEF ForeignClear, Track
<1>4. CASE Supersede
  BY <1>2, <1>4 DEF Supersede, Track
<1>5. CASE PeerResets
  BY <1>5, NotRun DEF PeerResets, Track
<1> QED
  BY <1>1, <1>3, <1>4, <1>5, <1>6 DEF Environment

LEMMA EndNext == ASSUME EndInv, [Next]_vars PROVE EndStep
<1>1. TypeOK'
  BY TypeStep DEF EndInv
<1>2. CASE UNCHANGED vars
  BY <1>1, <1>2, NotRun DEF vars, EndInv
<1>3. CASE Next
  BY <1>1, <1>3, EndRunStep, EndSelectStep, EndReaderStep, EndWriterStep,
     EndEnvironmentStep DEF Next, PeerStep, SocketStep
<1> QED
  BY <1>2, <1>3

LEMMA EndInvariant == Spec => []EndInv
<1>1. EndInv /\ [Next]_vars => EndInv'
  BY EndNext DEF EndStep
<1> QED
  BY <1>1, EndInit, PTL DEF Spec

\* However and whenever run() ends, the socket it opened is closed.
THEOREM SocketAlwaysReleased == Spec => []SocketReleased
<1>1. EndInv => SocketReleased
  BY DEF EndInv
<1> QED
  BY <1>1, EndInvariant, PTL

\* A dispatcher that delivers to a track whose run() is gone is not held up.
THEOREM NeverBlocked == Spec => []Unblocked
<1>1. EndInv => Unblocked
  BY DEF EndInv
<1> QED
  BY <1>1, EndInvariant, PTL

\* The flag that ends the reader and the writer is set when run() is gone,
\* although the timeout path leaves that to clearTCPConnTrack, which may find
\* another track in the table.
THEOREM AlwaysDoomed == Spec => []GoneIsDoomed
<1>1. EndInv => GoneIsDoomed
  BY DEF EndInv
<1> QED
  BY <1>1, EndInvariant, PTL

\* stateFinWait2 and stateClosing are never called.
THEOREM DeadHandlers == Spec => []HandlersReached
<1>1. EndInv => HandlersReached
  BY DEF EndInv, LoopStates, HandlersReached, RunGone
<1> QED
  BY <1>1, EndInvariant, PTL

\* Every behaviour of the track is one of TrackLife: the initial state maps
\* to an initial state and every step to a step or a stutter.
THEOREM Refinement == Spec => ImplementsTrackLife
<1>1. Init => Life!LifeInit
  BY EndInit
<1>2. EndInv /\ [Next]_vars => [Life!LifeNext]_(Life!lifeVars)
  BY EndNext DEF EndStep
<1> QED
  BY <1>1, <1>2, EndInvariant, PTL DEF Spec, ImplementsTrackLife, Life!LifeSpec
-----------------------------------------------------------------------------
(* How run()'s steps change what the remaining invariants read             *)

\* What a step about a segment does to the fields the properties below read.
\* The connection is dialled, given up, kept, handed payload, or half closed.
SameCounts ==
    /\ h'.relayed = h.relayed /\ h'.written = h.written
    /\ h'.delivered = h.delivered /\ h'.srvRead = h.srvRead
    /\ h'.lost = h.lost /\ h'.emitted = h.emitted /\ h'.answer = h.answer
    /\ h'.connects = h.connects

SameSocket ==
    /\ tt'.rcvNxtSeq = tt.rcvNxtSeq /\ tt'.nxtSeq = tt.nxtSeq
    /\ tt'.socksConn = tt.socksConn

Dials == /\ tt.state = "CLOSED" /\ tt'.state = "CLOSED" /\ run'.pc = "dial"
         /\ SameSocket /\ h'.fins = h.fins

GivesUp == /\ run'.pc = "clear" /\ h'.fins = h.fins
           /\ tt'.nxtSeq = tt.nxtSeq /\ tt'.socksConn \in {"nil", "closed"}
           /\ tt'.socksConn = "nil" => tt.socksConn = "nil"
           /\ \/ tt'.state = tt.state /\ tt'.rcvNxtSeq = tt.rcvNxtSeq
              \/ ~Served'

Keeps == /\ run'.pc = "top" /\ SameSocket /\ h'.fins = h.fins
         /\ \/ tt'.state = tt.state
            \/ tt.state = "SYN_RCVD" /\ tt'.state = "ESTABLISHED"

TakesPayload(s) ==
    /\ run'.pc = "relay" /\ validSeq(s) /\ s.len > 0
    /\ run'.pkt.off = s.seq - 1 /\ run'.pkt.len = s.len
    /\ SameSocket /\ h'.fins = h.fins
    /\ Served /\ tt'.state = "ESTABLISHED"

TakesFin == /\ run'.pc = "top" /\ tt.state = "ESTABLISHED"
            /\ tt'.state = "LAST_ACK" /\ tt'.socksConn \in {"nil", "closed"}
            /\ tt'.socksConn = "nil" => tt.socksConn = "nil"
            /\ tt'.nxtSeq = SeqAdd(tt.nxtSeq, 1) /\ h'.fins = h.fins + 1

InputEffect(s) ==
    /\ tt'.connectState = tt.connectState
    /\ tt'.uid = tt.uid \/ (tt.state = "CLOSED" /\ run'.pc = "dial")
    /\ tt'.toSocksCh = tt.toSocksCh /\ tt'.fromSocksCh = tt.fromSocksCh
    /\ tt'.socksCloseCh = tt.socksCloseCh
    /\ wr' = wr /\ run'.armed = run.armed /\ SameCounts
    /\ Dials \/ GivesUp \/ Keeps \/ TakesPayload(s) \/ TakesFin
    /\ IF tt.state = "SYN_RCVD" /\ tt'.state = "ESTABLISHED"
         THEN rd' = [rd EXCEPT !.pc = "boot"] ELSE WakeReader

\* The fields the properties below read of what the handlers compute.
SameFlow(t, u) ==
    /\ u.connectState = t.connectState /\ u.toSocksCh = t.toSocksCh
    /\ u.fromSocksCh = t.fromSocksCh /\ u.socksCloseCh = t.socksCloseCh
    /\ u.uid = t.uid

LEMMA AckedFlow ==
    ASSUME NEW t \in Track
    PROVE  /\ Acked(t) \in Track /\ SameFlow(t, Acked(t))
           /\ Acked(t).rcvNxtSeq = t.rcvNxtSeq
           /\ Acked(t).nxtSeq = t.nxtSeq
           /\ Acked(t).socksConn = t.socksConn /\ Acked(t).state = t.state
BY DEF Acked, Track, SameFlow

LEMMA FinAckedFlow ==
    ASSUME NEW t \in Track
    PROVE  /\ FinAcked(t) \in Track /\ SameFlow(t, FinAcked(t))
           /\ FinAcked(t).rcvNxtSeq = t.rcvNxtSeq
           /\ FinAcked(t).nxtSeq = SeqAdd(t.nxtSeq, 1)
           /\ FinAcked(t).socksConn = t.socksConn
           /\ FinAcked(t).state = t.state
<1> DEFINE u == Acked(t)
<1>1. /\ u \in Track /\ SameFlow(t, u) /\ u.nxtSeq = t.nxtSeq
      /\ u.rcvNxtSeq = t.rcvNxtSeq /\ u.socksConn = t.socksConn
      /\ u.state = t.state
  BY AckedFlow
<1>2. FinAcked(t) = [u EXCEPT !.nxtSeq = SeqAdd(@, 1)]
  BY DEF FinAcked
<1> HIDE DEF u
<1>3. /\ SameFlow(u, FinAcked(t)) /\ FinAcked(t).state = u.state
      /\ FinAcked(t).rcvNxtSeq = u.rcvNxtSeq
      /\ FinAcked(t).nxtSeq = SeqAdd(u.nxtSeq, 1)
      /\ FinAcked(t).socksConn = u.socksConn
  BY <1>1, <1>2 DEF SameFlow, Track
<1> QED
  BY <1>1, <1>3, FinAckedType DEF SameFlow

LEMMA EndedFlow ==
    ASSUME NEW t \in Track
    PROVE  /\ Ended(t) \in Track /\ SameFlow(t, Ended(t))
           /\ Ended(t).rcvNxtSeq = t.rcvNxtSeq
           /\ Ended(t).nxtSeq = t.nxtSeq
           /\ Ended(t).socksConn \in {"nil", "closed"}
           /\ Ended(t).socksConn = "nil" => t.socksConn = "nil"
           /\ Ended(t).state = t.state
BY DEF Ended, Closed, Track, SameFlow

LEMMA FinTakenFlow ==
    ASSUME NEW t \in Track
    PROVE  /\ FinTaken(t) \in Track /\ SameFlow(t, FinTaken(t))
           /\ FinTaken(t).nxtSeq = SeqAdd(t.nxtSeq, 1)
           /\ FinTaken(t).socksConn \in {"nil", "closed"}
           /\ FinTaken(t).socksConn = "nil" => t.socksConn = "nil"
           /\ FinTaken(t).state = "LAST_ACK"
<1> DEFINE r == [t EXCEPT !.rcvNxtSeq = SeqAdd(@, 1)]
           u == FinAcked(r)
<1>1. r \in Track /\ SameFlow(t, r) /\ r.nxtSeq = t.nxtSeq
        /\ r.socksConn = t.socksConn
  <2>1. SeqAdd(t.rcvNxtSeq, 1) \in Seqs
    BY Bounds, SeqAddType DEF Track
  <2> QED
    BY <2>1 DEF Track, SameFlow
<1>2. u \in Track /\ SameFlow(r, u) /\ u.nxtSeq = SeqAdd(t.nxtSeq, 1)
        /\ u.socksConn = t.socksConn
  <2> HIDE DEF r
  <2> QED
    BY <1>1, FinAckedFlow
<1>3. FinTaken(t) = [u EXCEPT !.state = "LAST_ACK", !.socksConn = Closed(@)]
  BY DEF FinTaken
<1> HIDE DEF r, u
<1> QED
  BY <1>1, <1>2, <1>3, FinTakenType DEF SameFlow, Track, Closed

\* The two steps of run() that change several fields at once.
LEMMA TopFlow ==
    ASSUME TypeOK, RunTop
    PROVE  /\ SameFlow(tt, tt') /\ tt'.state = tt.state
           /\ tt'.rcvNxtSeq = tt.rcvNxtSeq /\ tt'.nxtSeq = tt.nxtSeq
           /\ tt'.socksConn \in {tt.socksConn, "nil", "closed"}
           /\ tt'.socksConn = "nil" => tt.socksConn = "nil"
           /\ run'.pc = "select" => tt'.socksConn = tt.socksConn
           /\ run.pc = "top" /\ run'.pc \in {"clear", "select"}
           /\ run'.armed = (run.armed \/ tt.state = "ESTABLISHED")
           /\ rd' = rd /\ wr' = wr /\ h' = h
<1> USE DEF TypeOK
<1>1. PICK idle \in {FALSE, tt.state = "ESTABLISHED"} :
         LET t == [tt EXCEPT !.destroyed = @ \/ idle]
         IN /\ tt' = IF t.destroyed THEN Ended(t) ELSE t
            /\ run' = [run EXCEPT
                         !.armed = @ \/ tt.state = "ESTABLISHED",
                         !.pc = IF t.destroyed THEN "clear" ELSE "select"]
  BY DEF RunTop
<1> DEFINE t == [tt EXCEPT !.destroyed = @ \/ idle]
<1>2. /\ t \in Track /\ SameFlow(tt, t) /\ t.state = tt.state
      /\ t.rcvNxtSeq = tt.rcvNxtSeq /\ t.nxtSeq = tt.nxtSeq
      /\ t.socksConn = tt.socksConn
  BY DEF Track, SameFlow
<1>3. /\ run'.pc = IF t.destroyed THEN "clear" ELSE "select"
      /\ run'.armed = (run.armed \/ tt.state = "ESTABLISHED")
  BY <1>1 DEF RunLocals
<1>4. tt' = IF t.destroyed THEN Ended(t) ELSE t
  BY <1>1
<1> HIDE DEF t
<1>5. /\ SameFlow(tt, tt') /\ tt'.state = tt.state
      /\ tt'.rcvNxtSeq = tt.rcvNxtSeq /\ tt'.nxtSeq = tt.nxtSeq
      /\ tt'.socksConn \in {tt.socksConn, "nil", "closed"}
      /\ tt'.socksConn = "nil" => tt.socksConn = "nil"
      /\ run'.pc = "select" => tt'.socksConn = tt.socksConn
  <2>1. CASE t.destroyed
    BY <1>2, <1>3, <1>4, <2>1, EndedFlow DEF SameFlow
  <2>2. CASE ~t.destroyed
    BY <1>2, <1>4, <2>2
  <2> QED
    BY <2>1, <2>2
<1> QED
  BY <1>3, <1>5 DEF RunTop, RunAt

LEMMA DialFlow ==
    ASSUME TypeOK, DialSucceeds
    PROVE  /\ SameFlow(tt, tt') /\ tt'.state = "SYN_RCVD"
           /\ tt'.rcvNxtSeq = SeqAdd(Isn, 1) /\ tt'.nxtSeq = 2
           /\ run.pc = "dial" /\ run'.pc = "top" /\ run'.armed = run.armed
           /\ rd' = rd /\ wr' = wr
           /\ h'.relayed = h.relayed /\ h'.written = h.written
           /\ h'.delivered = h.delivered /\ h'.srvRead = h.srvRead
           /\ h'.lost = h.lost /\ h'.emitted = h.emitted
           /\ h'.fins = h.fins /\ h'.connects = h.connects
<1> USE DEF TypeOK
<1> DEFINE u == [tt EXCEPT !.rcvNxtSeq = SeqAdd(Isn, 1)]
           v == Acked(u)
<1>1. u \in Track /\ SameFlow(tt, u) /\ u.rcvNxtSeq = SeqAdd(Isn, 1)
  <2>1. SeqAdd(Isn, 1) \in Seqs
    BY Bounds, SeqAddType DEF Seqs
  <2> QED
    BY <2>1 DEF Track, SameFlow
<1>2. v \in Track /\ SameFlow(tt, v) /\ v.rcvNxtSeq = SeqAdd(Isn, 1)
  <2> HIDE DEF u
  <2> QED
    BY <1>1, AckedFlow DEF SameFlow
<1>3. tt' = [v EXCEPT !.socksConn = "open", !.state = "SYN_RCVD",
                      !.nxtSeq = 2]
  BY DEF DialSucceeds
<1> HIDE DEF u, v
<1>4. /\ SameFlow(tt, tt') /\ tt'.state = "SYN_RCVD"
      /\ tt'.rcvNxtSeq = SeqAdd(Isn, 1) /\ tt'.nxtSeq = 2
  BY <1>2, <1>3 DEF SameFlow, Track
<1>5. PICK early \in EarlyConnects :
         h' = [h EXCEPT !.answer = "synack", !.early = early]
  BY DEF DialSucceeds
<1>6. /\ h'.relayed = h.relayed /\ h'.written = h.written
      /\ h'.delivered = h.delivered /\ h'.srvRead = h.srvRead
      /\ h'.lost = h.lost /\ h'.emitted = h.emitted /\ h'.fins = h.fins
      /\ h'.connects = h.connects
  BY <1>5 DEF History
<1> QED
  BY <1>4, <1>6 DEF DialSucceeds, RunAt, RunGoto, RunLocals

\* The other events of the select touch none of this but fromSocksCh.
LEMMA EventFlow ==
    ASSUME TypeOK,
           SelectTimeout \/ SelectAck \/ SelectData \/ SelectClose
    PROVE  /\ tt'.connectState = tt.connectState
           /\ tt'.toSocksCh = tt.toSocksCh
           /\ tt'.socksCloseCh = tt.socksCloseCh
           /\ h'.relayed = h.relayed /\ h'.written = h.written
           /\ h'.delivered = h.delivered /\ h'.connects = h.connects
           /\ tt'.uid = tt.uid
           /\ tt'.socksConn \in {tt.socksConn, "nil", "closed"}
           /\ rd' = rd /\ wr' = wr
<1> USE DEF TypeOK
<1>1. CASE SelectTimeout
  BY <1>1, EndedFlow DEF SelectTimeout, SameFlow
<1>2. CASE SelectAck
  BY <1>2, AckedFlow DEF SelectAck, SameFlow
<1>3. CASE SelectData
  <2> DEFINE u == Acked(tt)
  <2>1. u \in Track /\ SameFlow(tt, u) /\ u.socksConn = tt.socksConn
    BY AckedFlow
  <2>2. \E n : tt' = [u EXCEPT !.nxtSeq = SeqAdd(@, n),
                               !.fromSocksCh = Tail(@)]
    BY <1>3 DEF SelectData
  <2> HIDE DEF u
  <2>3. /\ tt'.connectState = tt.connectState
        /\ tt'.toSocksCh = tt.toSocksCh
        /\ tt'.socksCloseCh = tt.socksCloseCh
        /\ tt'.uid = tt.uid /\ tt'.socksConn = tt.socksConn
    BY <2>1, <2>2 DEF SameFlow, Track
  <2>4. /\ h'.relayed = h.relayed /\ h'.written = h.written
        /\ h'.delivered = h.delivered /\ h'.connects = h.connects
    BY <1>3 DEF SelectData, History
  <2> QED
    BY <1>3, <2>3, <2>4 DEF SelectData
<1>4. CASE SelectClose
  <2> DEFINE u == FinAcked(tt)
  <2>1. u \in Track /\ SameFlow(tt, u) /\ u.socksConn = tt.socksConn
    BY FinAckedFlow
  <2>2. tt' = [u EXCEPT !.state = "FIN_WAIT_1"]
    BY <1>4 DEF SelectClose
  <2> HIDE DEF u
  <2>3. SameFlow(tt, tt') /\ tt'.socksConn = tt.socksConn
    BY <2>1, <2>2 DEF SameFlow, Track
  <2>4. /\ h'.relayed = h.relayed /\ h'.written = h.written
        /\ h'.delivered = h.delivered /\ h'.connects = h.connects
    BY <1>4 DEF SelectClose, CountFin, History
  <2> QED
    BY <1>4, <2>3, <2>4 DEF SelectClose, SameFlow
<1> QED
  BY <1>1, <1>2, <1>3, <1>4

LEMMA Inputs ==
    ASSUME TypeOK, NEW s \in Segments, SelectInput(s)
    PROVE  InputEffect(s)
<1> USE DEF TypeOK
<1> DEFINE t == [tt EXCEPT !.sendWindow = s.wnd]
<1>1. /\ t \in Track /\ SameFlow(tt, t) /\ t.rcvNxtSeq = tt.rcvNxtSeq
      /\ t.nxtSeq = tt.nxtSeq /\ t.socksConn = tt.socksConn
      /\ t.state = tt.state
  BY Bounds DEF Track, Segments, SameFlow
<1>2. /\ wr' = wr
      /\ IF tt.state = "SYN_RCVD" /\ tt'.state = "ESTABLISHED"
           THEN rd' = [rd EXCEPT !.pc = "boot"] ELSE WakeReader
  BY DEF SelectInput
<1>3. ASSUME NEW u \in Track, SameFlow(tt, u), Finish(u), h' = h,
             u.nxtSeq = tt.nxtSeq, u.socksConn = tt.socksConn,
             \/ u.state = tt.state /\ u.rcvNxtSeq = tt.rcvNxtSeq
             \/ u.state \notin {"SYN_RCVD", "ESTABLISHED"}
      PROVE  InputEffect(s)
  <2> DEFINE v == Ended(u)
  <2>1. /\ v \in Track /\ SameFlow(tt, v) /\ v.nxtSeq = tt.nxtSeq
        /\ v.socksConn \in {"nil", "closed"} /\ v.state = u.state
        /\ v.socksConn = "nil" => tt.socksConn = "nil"
        /\ v.rcvNxtSeq = u.rcvNxtSeq
    BY <1>3, EndedFlow DEF SameFlow
  <2>2. tt' = [v EXCEPT !.destroyed = TRUE]
    BY <1>3 DEF Finish
  <2> HIDE DEF v
  <2>3. /\ SameFlow(tt, tt') /\ tt'.nxtSeq = tt.nxtSeq
        /\ tt'.socksConn \in {"nil", "closed"} /\ tt'.state = u.state
        /\ tt'.socksConn = "nil" => tt.socksConn = "nil"
        /\ tt'.rcvNxtSeq = u.rcvNxtSeq
    BY <2>1, <2>2 DEF SameFlow, Track
  <2>4. run'.pc = "clear" /\ run'.armed = run.armed
    BY <1>3 DEF Finish, RunGoto, RunLocals
  <2> QED
    BY <1>2, <1>3, <2>3, <2>4
       DEF InputEffect, GivesUp, SameCounts, SameFlow, Served
<1>4. ASSUME NEW u \in Track, SameFlow(tt, u), Continue(u), h' = h,
             u.nxtSeq = tt.nxtSeq, u.rcvNxtSeq = tt.rcvNxtSeq,
             u.socksConn = tt.socksConn,
             \/ u.state = tt.state
             \/ tt.state = "SYN_RCVD" /\ u.state = "ESTABLISHED"
      PROVE  InputEffect(s)
  <2>1. run'.pc = "top" /\ run'.armed = run.armed /\ tt' = u
    BY <1>4 DEF Continue, RunGoto, RunLocals
  <2> QED
    BY <1>2, <1>4, <2>1
       DEF InputEffect, Keeps, SameSocket, SameCounts, SameFlow
<1>5. ASSUME NEW u \in Track, NEW fin, SameFlow(tt, u), Relay(u, s, fin),
             h' = h, validSeq(s), s.len > 0, Served,
             u.nxtSeq = tt.nxtSeq, u.rcvNxtSeq = tt.rcvNxtSeq,
             u.socksConn = tt.socksConn, u.state = "ESTABLISHED"
      PROVE  InputEffect(s)
  <2>1. /\ run'.pc = "relay" /\ run'.armed = run.armed /\ tt' = u
        /\ run'.pkt.off = s.seq - 1 /\ run'.pkt.len = s.len
    BY <1>5 DEF Relay, RunLocals
  <2> QED
    BY <1>2, <1>5, <2>1
       DEF InputEffect, TakesPayload, SameSocket, SameCounts, SameFlow
<1>6. CASE StateClosed(t, s)
  <2>1. PICK u \in UidValues : tt' = [t EXCEPT !.uid = u]
    BY <1>1, <1>6 DEF StateClosed, FindAppUid, Track
  <2>2. /\ tt'.connectState = tt.connectState
        /\ tt'.toSocksCh = tt.toSocksCh /\ tt'.fromSocksCh = tt.fromSocksCh
        /\ tt'.socksCloseCh = tt.socksCloseCh /\ tt'.nxtSeq = tt.nxtSeq
        /\ tt'.rcvNxtSeq = tt.rcvNxtSeq /\ tt'.socksConn = tt.socksConn
        /\ tt'.state = tt.state
    <3> HIDE DEF t
    <3> QED
      BY <1>1, <2>1 DEF SameFlow, Track
  <2>3. run'.pc = "dial" /\ run'.armed = run.armed /\ tt.state = "CLOSED"
    BY <1>1, <1>6 DEF StateClosed, RunGoto, RunLocals
  <2>4. SameCounts /\ h'.fins = h.fins
    BY <1>6 DEF StateClosed, SameCounts, History
  <2> QED
    BY <1>2, <2>2, <2>3, <2>4 DEF InputEffect, Dials, SameSocket
<1>7. CASE StateSynRcvd(t, s)
  <2> DEFINE u == [t EXCEPT !.state = "ESTABLISHED"]
  <2>1. /\ u \in Track /\ SameFlow(tt, u) /\ u.rcvNxtSeq = tt.rcvNxtSeq
        /\ u.nxtSeq = tt.nxtSeq /\ u.socksConn = tt.socksConn
        /\ u.state = "ESTABLISHED"
    <3> HIDE DEF t
    <3> QED
      BY <1>1 DEF SameFlow, Track
  <2>2. h' = h /\ tt.state = "SYN_RCVD"
    BY <1>1, <1>7 DEF StateSynRcvd
  <2>3. \/ Finish(t) \/ Continue(t) \/ Continue(u)
        \/ Relay(u, s, "unread") /\ validSeq(s) /\ s.len > 0
    BY <1>7 DEF StateSynRcvd, Segments
  <2> HIDE DEF t, u
  <2> QED
    BY <1>1, <1>3, <1>4, <1>5, <2>1, <2>2, <2>3 DEF Served
<1>8. CASE StateEstablished(t, s)
  <2> HIDE DEF t
  <2>1. tt.state = "ESTABLISHED"
    BY <1>1, <1>8 DEF StateEstablished
  <2>2. \/ /\ h' = h
           /\ \/ Continue(Acked(t)) \/ Finish(t) \/ Continue(t)
              \/ /\ Relay(t, s, "yes") \/ Relay(t, s, "no")
                 /\ validSeq(s) /\ s.len > 0
        \/ Continue(FinTaken(t)) /\ CountFin
    BY <1>8 DEF StateEstablished
  <2>3. CASE Continue(FinTaken(t)) /\ CountFin
    <3> DEFINE u == FinTaken(t)
    <3>1. /\ u \in Track /\ SameFlow(tt, u)
          /\ u.nxtSeq = SeqAdd(tt.nxtSeq, 1)
          /\ u.socksConn \in {"nil", "closed"} /\ u.state = "LAST_ACK"
          /\ u.socksConn = "nil" => tt.socksConn = "nil"
      BY <1>1, FinTakenFlow DEF SameFlow
    <3>2. run'.pc = "top" /\ run'.armed = run.armed /\ tt' = u
      BY <2>3 DEF Continue, RunGoto, RunLocals
    <3>3. SameCounts /\ h'.fins = h.fins + 1
      BY <2>3 DEF CountFin, SameCounts, History
    <3> HIDE DEF u
    <3> QED
      BY <1>2, <2>1, <3>1, <3>2, <3>3 DEF InputEffect, TakesFin, SameFlow
  <2>4. /\ Acked(t) \in Track /\ SameFlow(tt, Acked(t))
        /\ Acked(t).rcvNxtSeq = tt.rcvNxtSeq
        /\ Acked(t).nxtSeq = tt.nxtSeq
        /\ Acked(t).socksConn = tt.socksConn /\ Acked(t).state = tt.state
    BY <1>1, AckedFlow DEF SameFlow
  <2> QED
    BY <1>1, <1>3, <1>4, <1>5, <2>1, <2>2, <2>3, <2>4 DEF Served
<1>9. CASE StateFinWait1(t, s)
  <2> HIDE DEF t
  <2> DEFINE r == [t EXCEPT !.rcvNxtSeq = SeqAdd(@, 1)]
             u == Acked(r)
  <2>1. /\ r \in Track /\ SameFlow(tt, r) /\ r.nxtSeq = tt.nxtSeq
        /\ r.socksConn = tt.socksConn
    <3>1. SeqAdd(t.rcvNxtSeq, 1) \in Seqs
      BY <1>1, Bounds, SeqAddType DEF Track
    <3> QED
      BY <1>1, <3>1 DEF Track, SameFlow
  <2>2. /\ u \in Track /\ SameFlow(tt, u) /\ u.nxtSeq = tt.nxtSeq
        /\ u.socksConn = tt.socksConn
    <3> HIDE DEF r
    <3> QED
      BY <2>1, AckedFlow DEF SameFlow
  <2>3. /\ h' = h
        /\ \/ \E st \in {"TIME_WAIT", "CLOSING"} :
                 Finish([u EXCEPT !.state = st])
           \/ Finish([t EXCEPT !.state = "FIN_WAIT_2"]) \/ Finish(t)
    BY <1>9 DEF StateFinWait1
  <2> HIDE DEF r, u
  <2>4. ASSUME NEW v \in Track, SameFlow(tt, v), v.nxtSeq = tt.nxtSeq,
               v.socksConn = tt.socksConn,
               NEW st \in {"TIME_WAIT", "CLOSING", "FIN_WAIT_2"},
               Finish([v EXCEPT !.state = st])
        PROVE  InputEffect(s)
    <3> DEFINE x == [v EXCEPT !.state = st]
    <3>1. /\ x \in Track /\ SameFlow(tt, x) /\ x.nxtSeq = tt.nxtSeq
          /\ x.socksConn = tt.socksConn /\ x.state = st
      BY <2>4 DEF Track, SameFlow
    <3>2. Finish(x)
      BY <2>4
    <3> HIDE DEF x
    <3> QED
      BY <1>3, <2>3, <3>1, <3>2
  <2> QED
    BY <1>1, <1>3, <2>2, <2>3, <2>4
<1>10. CASE StateLastAck(t, s)
  <2> HIDE DEF t
  <2> DEFINE u == [t EXCEPT !.state = "CLOSED"]
  <2>1. /\ u \in Track /\ SameFlow(tt, u) /\ u.nxtSeq = tt.nxtSeq
        /\ u.socksConn = tt.socksConn /\ u.state = "CLOSED"
    BY <1>1 DEF Track, SameFlow
  <2>2. h' = h /\ (Finish(u) \/ Continue(t))
    BY <1>10 DEF StateLastAck
  <2> HIDE DEF u
  <2> QED
    BY <1>1, <1>3, <1>4, <2>1, <2>2
<1> QED
  BY <1>6, <1>7, <1>8, <1>9, <1>10 DEF SelectInput
-----------------------------------------------------------------------------
(* While the connection is being opened nothing is under way: the reader    *)
(* starts with ESTABLISHED, and the writer when the proxy has answered.     *)

Opening ==
    /\ tt.state \in {"CLOSED", "SYN_RCVD"} /\ ~RunGone =>
          /\ rd.pc = "none" /\ ~run.armed
          /\ h.relayed = 0 /\ h.written = 0 /\ h.delivered = 0
          /\ h.srvRead = 0 /\ h.lost = 0 /\ h.emitted = 0
    /\ tt.state \in {"CLOSED", "SYN_RCVD", "ESTABLISHED"} /\ ~RunGone =>
          h.fins = 0
    /\ rd.pc \in {"none", "boot", "handshake"} =>
          wr.pc = "none" /\ tt.connectState # "ESTABLISHED"
    /\ wr.pc = "sent" => tt.connectState = "NOT_SENT"
    /\ run.pc = "dial" => tt.state = "CLOSED"
    /\ run.pc \in {"relay", "wndload", "wndstore", "fin"} =>
          tt.state = "ESTABLISHED"

OpenInv == TypeOK /\ Opening

LEMMA OpenInit == Init => OpenInv
BY TypeInit DEF Init, OpenInv, Opening

LEMMA OpenRunStep == ASSUME OpenInv, RunStep PROVE Opening'
<1> USE DEF OpenInv, TypeOK
<1>1. CASE RunTop
  BY <1>1, TopFlow DEF SameFlow, RunGone, Opening
<1>2. CASE SelectQuit
  BY <1>2 DEF SelectQuit, RunAt, RunGoto, RunGone, RunLocals, Track, Opening
<1>3. CASE ClearTrack
  BY <1>3 DEF ClearTrack, RunAt, RunGoto, RunGone, RunLocals, Track, Opening,
     WakeReader, WakeWriter, ReaderLocals, WriterLocals
<1>12. CASE DialPanics
  BY <1>12 DEF DialPanics, RunAt, RunGoto, RunGone, RunLocals, Opening
<1>4. CASE DialFails
  BY <1>4 DEF DialFails, RunAt, RunGoto, RunGone, RunLocals, Track, Opening
<1>5. CASE DialSucceeds
  BY <1>5, DialFlow DEF SameFlow, RunGone, Opening
<1>6. CASE RelayEnqueue
  <2>1. /\ tt'.state = tt.state /\ tt'.connectState = tt.connectState
        /\ run.pc = "relay" /\ run'.pc = "wndload" /\ h'.fins = h.fins
    BY <1>6 DEF RelayEnqueue, RunAt, RunGoto, RunLocals, Track, History
  <2> QED
    BY <1>6, <2>1 DEF RelayEnqueue, RunGone, Opening
<1>7. ASSUME NEW fin \in BOOLEAN, RelayDone(fin),
             run.pc \in {"relay", "fin"}
      PROVE  Opening'
  <2>1. \/ tt' = tt /\ h' = h
        \/ tt'.state = "LAST_ACK" /\ tt'.connectState = tt.connectState
    BY <1>7, FinTakenFlow DEF RelayDone, SameFlow
  <2>2. run'.pc = "top" /\ rd' = rd /\ wr' = wr
    BY <1>7 DEF RelayDone, RunLocals
  <2> QED
    BY <1>7, <2>1, <2>2 DEF RunGone, Opening
<1>8. CASE RelayRefused
  BY <1>7, <1>8 DEF RelayRefused, RunAt
<1>9. CASE RelayFin
  BY <1>7, <1>9 DEF RelayFin, RunAt
<1>10. CASE RelayWindowLoad
  BY <1>10 DEF RelayWindowLoad, RunAt, RunGone, RunLocals, Opening
<1>11. CASE RelayWindowStore
  BY <1>11 DEF RelayWindowStore, RunAt, RunGone, RunLocals, Track, Opening
<1> QED
  BY <1>1, <1>2, <1>3, <1>4, <1>5, <1>6, <1>8, <1>9, <1>10, <1>11, <1>12
     DEF RunStep

LEMMA OpenSelectStep == ASSUME OpenInv, SelectStep PROVE Opening'
<1> USE DEF OpenInv, TypeOK
<1>1. CASE SelectTimeout
  BY <1>1, EndedFlow DEF SelectTimeout, RunAt, RunGoto, RunGone, RunLocals,
     SameFlow, Opening
<1>2. CASE SelectAck
  <2>1. tt'.state = tt.state /\ tt'.connectState = tt.connectState
    BY <1>2, AckedFlow DEF SelectAck, SameFlow
  <2> QED
    BY <1>2, <2>1
       DEF SelectAck, RunAt, RunGoto, RunGone, RunLocals, Opening
<1>3. CASE SelectData
  <2>1. tt'.state = tt.state /\ tt'.connectState = tt.connectState
    BY <1>3 DEF SelectData, Acked, Track
  <2>2. h'.fins = h.fins
    BY <1>3 DEF SelectData, History
  <2> QED
    BY <1>3, <2>1, <2>2
       DEF SelectData, RunAt, RunGoto, RunGone, RunLocals, Opening
<1>4. CASE SelectClose
  <2>1. tt'.state = "FIN_WAIT_1" /\ tt'.connectState = tt.connectState
    BY <1>4, FinAckedFlow DEF SelectClose, SameFlow, Track
  <2> QED
    BY <1>4, <2>1
       DEF SelectClose, RunAt, RunGoto, RunGone, RunLocals, Opening
<1>5. ASSUME NEW s \in Segments, SelectInput(s) PROVE Opening'
  <2>1. InputEffect(s) /\ run.pc = "select"
    BY <1>5, Inputs DEF SelectInput, RunAt
  <2>2. CASE tt.state = "SYN_RCVD" /\ tt'.state = "ESTABLISHED"
    <3>1. rd'.pc = "boot"
      BY <2>1, <2>2 DEF InputEffect, ReaderLocals
    <3>2. run'.pc # "dial" /\ h'.fins = h.fins
      BY <2>1, <2>2 DEF InputEffect, Dials, GivesUp, Keeps, TakesPayload,
         TakesFin
    <3> QED
      BY <2>1, <2>2, <3>1, <3>2 DEF InputEffect, RunGone, Opening
  <2>3. CASE ~(tt.state = "SYN_RCVD" /\ tt'.state = "ESTABLISHED")
    <3>1. /\ rd.pc = "none" => rd'.pc = "none"
          /\ rd'.pc \in {"none", "boot", "handshake"} => rd'.pc = rd.pc
      BY <2>1, <2>3 DEF InputEffect, WakeReader, ReaderLocals
    <3>2. /\ wr' = wr /\ tt'.connectState = tt.connectState /\ SameCounts
          /\ run'.armed = run.armed
          /\ Dials \/ GivesUp \/ Keeps \/ TakesPayload(s) \/ TakesFin
      BY <2>1 DEF InputEffect
    <3>3. CASE GivesUp \/ TakesFin
      BY <3>1, <3>2, <3>3 DEF GivesUp, TakesFin, RunGone, Opening
    <3>4. CASE Dials \/ Keeps
      BY <2>1, <2>3, <3>1, <3>2, <3>4
         DEF Dials, Keeps, SameCounts, RunGone, Opening
    <3>5. CASE TakesPayload(s)
      BY <2>1, <2>3, <3>1, <3>2, <3>5
         DEF TakesPayload, Served, RunGone, Opening
    <3> QED
      BY <3>2, <3>3, <3>4, <3>5
  <2> QED
    BY <2>2, <2>3
<1> QED
  BY <1>1, <1>2, <1>3, <1>4, <1>5 DEF SelectStep

LEMMA ReadyFlow ==
    ASSUME NEW t \in Track
    PROVE  /\ Ready(t) \in Track /\ Ready(t).state = t.state
           /\ Ready(t).uid = t.uid
           /\ Ready(t).rcvNxtSeq = t.rcvNxtSeq
           /\ Ready(t).nxtSeq = t.nxtSeq
           /\ Ready(t).socksConn = t.socksConn
           /\ Ready(t).toSocksCh = t.toSocksCh
           /\ Ready(t).fromSocksCh = t.fromSocksCh
           /\ Ready(t).socksCloseCh = t.socksCloseCh
           /\ Ready(t).connectState \in {t.connectState, "ESTABLISHED"}
<1>1. Ready(t) = t \/ Ready(t) = [t EXCEPT !.connectState = "ESTABLISHED"]
  BY DEF Ready
<1>2. CASE Ready(t) = t
  BY <1>2
<1>3. CASE Ready(t) = [t EXCEPT !.connectState = "ESTABLISHED"]
  BY <1>3 DEF Track
<1> QED
  BY <1>1, <1>2, <1>3

\* What the reader's steps leave alone, and what they need to have happened.
LEMMA OpenReaderStep ==
    ASSUME OpenInv,
           \/ ReaderStep \/ HandshakeFails \/ ReaderConnectReply
           \/ ReaderReadFails
           \/ \E r \in SocksReplies : HandshakeAnswered(r)
           \/ \E n \in 1 .. MaxSeg : ReaderRead(n)
    PROVE  Opening'
<1> USE DEF OpenInv, TypeOK
<1>a. ASSUME wr' = wr \/ WakeWriter,
             tt'.connectState = tt.connectState \/ tt.connectState = "SENT"
      PROVE  wr'.pc = "sent" => tt'.connectState = "NOT_SENT"
  BY <1>a DEF Opening, WakeWriter, WriterLocals
<1>b. ASSUME StartWriter
      PROVE  wr'.pc = "sent" => tt'.connectState = "NOT_SENT"
  BY <1>b DEF StartWriter, WriterLocals
<1>0. ASSUME rd.pc # "none", run' = run, tt'.state = tt.state,
             h'.fins = h.fins,
             wr'.pc = "sent" => tt'.connectState = "NOT_SENT",
             rd'.pc \in {"none", "boot", "handshake"} =>
                /\ rd.pc \in {"boot", "handshake"} /\ wr' = wr
                /\ tt'.connectState = tt.connectState
      PROVE  Opening'
  BY <1>0 DEF Opening, RunGone
<1>1. CASE ReaderBoot
  <2>1. PICK u \in UidValues :
           LET t == [tt EXCEPT !.uid = u]
           IN \/ tt' = t /\ RdGoto("handshake") /\ UNCHANGED wr
              \/ tt' = Ready(t) /\ StartWriter
    BY <1>1 DEF ReaderBoot, FindAppUid, Track
  <2> DEFINE t == [tt EXCEPT !.uid = u]
  <2>2. /\ t \in Track /\ t.state = tt.state
        /\ t.connectState = tt.connectState
    BY DEF Track
  <2>3. \/ /\ tt' = t /\ rd'.pc = "handshake" /\ wr' = wr
        \/ /\ tt' = Ready(t) /\ rd'.pc = "loop" /\ StartWriter
    BY <2>1 DEF RdGoto, StartWriter, ReaderLocals
  <2> HIDE DEF t
  <2>4. tt'.state = tt.state
    BY <2>2, <2>3, ReadyFlow
  <2> QED
    BY <1>0, <1>1, <1>a, <1>b, <2>2, <2>3, <2>4 DEF ReaderBoot, RdAt
<1>2. ASSUME NEW r \in SocksReplies, HandshakeAnswered(r) PROVE Opening'
  <2> DEFINE u == Ready(tt)
  <2>1. u \in Track /\ u.state = tt.state
    BY ReadyFlow
  <2>2. tt' = u \/ tt' = [u EXCEPT !.socksConn = "closed",
                                  !.socksCloseCh = TRUE]
    BY <1>2 DEF HandshakeAnswered
  <2> HIDE DEF u
  <2>3. tt'.state = tt.state
    BY <2>1, <2>2 DEF Track
  <2>4. h'.fins = h.fins
    BY <1>2 DEF HandshakeAnswered, Swallow, History
  <2>5. rd'.pc = "loop"
    BY <1>2 DEF HandshakeAnswered, StartWriter, RdGoto, ReaderLocals
  <2> QED
    BY <1>0, <1>2, <1>b, <2>3, <2>4, <2>5 DEF HandshakeAnswered, RdAt
<1>3. CASE HandshakeFails \/ ReaderFailed
  BY <1>0, <1>a, <1>3 DEF HandshakeFails, ReaderFailed, RdAt, RdGoto, ReaderLocals,
     Track
<1>4. CASE ReaderConnectReply
  <2>1. h'.fins = h.fins
    BY <1>4 DEF ReaderConnectReply, Swallow, History
  <2> QED
    BY <1>0, <1>a, <1>4, <2>1 DEF ReaderConnectReply, RdAt, RdGoto, ReaderLocals,
       Track
<1>5. ASSUME NEW n \in 1 .. MaxSeg, ReaderRead(n) PROVE Opening'
  BY <1>0, <1>a, <1>5 DEF ReaderRead, RdAt, ReaderLocals, History
<1>6. CASE ReaderPush \/ ReaderShrinkWindow \/ ReaderEnd
  BY <1>0, <1>a, <1>6 DEF ReaderPush, ReaderShrinkWindow, ReaderEnd, RdAt, RdGoto,
     ReaderLocals, Track
<1>7. LeaveLoop => rd'.pc = "end"
  BY DEF LeaveLoop
<1>8. CASE ReaderLoop
  <2>1. rd.pc = "loop" /\ rd'.pc \in {"end", "park", "read"}
    BY <1>7, <1>8 DEF ReaderLoop, RdAt, ReaderLocals
  <2> QED
    BY <1>0, <1>a, <1>8, <2>1 DEF ReaderLoop
<1>9. CASE ReaderWoken
  <2>1. rd.pc = "woken" /\ rd'.pc \in {"stuck", "read"}
    BY <1>9 DEF ReaderWoken, RdAt, ReaderLocals
  <2> QED
    BY <1>0, <1>a, <1>9, <2>1 DEF ReaderWoken
<1>10. CASE ReaderWait \/ ReaderSpin \/ ReaderReadFails \/ ReaderBroadcast
  BY <1>0, <1>a, <1>7, <1>10 DEF ReaderWait, ReaderSpin, ReaderReadFails,
     ReaderBroadcast, RdAt, RdGoto, ReaderLocals
<1> QED
  BY <1>1, <1>2, <1>3, <1>4, <1>5, <1>6, <1>8, <1>9, <1>10 DEF ReaderStep

LEMMA OpenWriterStep ==
    ASSUME OpenInv, WriterStep \/ WriterWrite PROVE Opening'
<1> USE DEF OpenInv, TypeOK
<1>0. ASSUME wr.pc # "none", run' = run, rd' = rd, tt'.state = tt.state,
             h'.fins = h.fins,
             wr'.pc = "sent" => tt'.connectState = "NOT_SENT"
      PROVE  Opening'
  BY <1>0 DEF Opening, RunGone
<1>1. CASE WriterTake \/ WriterSent
  BY <1>0, <1>1 DEF WriterTake, WriterSent, WrAt, WrGoto, WriterLocals,
     Track
<1>5. CASE WriterConnect
  BY <1>0, <1>5 DEF WriterConnect, WrAt, WrGoto, WriterLocals, History
<1>2. CASE WriterCreditStore
  BY <1>0, <1>2 DEF WriterCreditStore, WrAt, Track, History
<1>3. CASE WriterWrite
  BY <1>0, <1>3 DEF WriterWrite, WrAt, WrGoto, WriterLocals, History
<1>4. CASE WriterExit \/ WriterCheck \/ WriterWait \/ WriterCreditLoad
  BY <1>0, <1>4 DEF WriterExit, WriterCheck, WriterWait, WriterCreditLoad,
     WrAt, WrGoto, WriterLocals
<1> QED
  BY <1>1, <1>2, <1>3, <1>4, <1>5 DEF WriterStep

LEMMA OpenEnvironmentStep ==
    ASSUME OpenInv, Environment \/ PeerResets PROVE Opening'
<1> USE DEF OpenInv, TypeOK
<1>1. CASE Stop \/ StopReturns \/ Supersede \/ PeerResets
  <2>1. /\ tt'.state = tt.state /\ tt'.connectState = tt.connectState
        /\ run' = run /\ rd' = rd /\ wr' = wr /\ h' = h
    BY <1>1 DEF Stop, StopReturns, Supersede, PeerResets, Track
  <2> QED
    BY <2>1 DEF Opening, RunGone
<1>2. CASE ForeignClear
  BY <1>2 DEF ForeignClear, WakeReader, WakeWriter, ReaderLocals,
     WriterLocals, Track, Opening, RunGone
<1> QED
  BY <1>1, <1>2 DEF Environment

LEMMA OpenNext == ASSUME OpenInv, [Next]_vars PROVE OpenInv'
<1>1. TypeOK'
  BY TypeStep DEF OpenInv
<1>2. CASE UNCHANGED vars
  BY <1>2 DEF vars, OpenInv, TypeOK, Opening, RunGone
<1>3. CASE Next
  BY <1>1, <1>3, OpenRunStep, OpenSelectStep, OpenReaderStep,
     OpenWriterStep, OpenEnvironmentStep
     DEF OpenInv, Next, PeerStep, SocketStep
<1> QED
  BY <1>2, <1>3

LEMMA OpenInvariant == Spec => []OpenInv
<1> QED
  BY OpenInit, OpenNext, PTL DEF Spec

-----------------------------------------------------------------------------
(* socksCloseCh is closed once, provided the proxy does not refuse:         *)
(* callSocks reports a refusal as a success, and the reader it starts       *)
(* closes again.                                                            *)

CloseInv ==
    /\ ClosedOnce
    /\ tt.socksCloseCh => rd.pc \in {"failed", "done"}

LEMMA CloseStep ==
    ASSUME "refused" \notin SocksReplies, OpenInv, CloseInv, [Next]_vars
    PROVE  CloseInv'
<1> USE DEF CloseInv, ClosedOnce
<1>0. TypeOK
  BY DEF OpenInv
<1> USE DEF TypeOK
<1>1. ASSUME tt'.socksCloseCh = tt.socksCloseCh, rd' = rd PROVE CloseInv'
  BY <1>1
<1>2. ASSUME tt'.socksCloseCh = tt.socksCloseCh, WakeReader PROVE CloseInv'
  BY <1>0, <1>2 DEF WakeReader, ReaderLocals
<1>3. ASSUME tt'.socksCloseCh = tt.socksCloseCh,
             rd.pc \notin {"failed", "done"}, rd'.pc # "panic"
      PROVE  CloseInv'
  BY <1>3
<1>4. CASE UNCHANGED vars
  BY <1>1, <1>4 DEF vars
<1>5. CASE RunStep
  <2>1. CASE RunTop \/ DialSucceeds
    BY <1>0, <1>1, <2>1, TopFlow, DialFlow DEF SameFlow
  <2>3. ASSUME \/ SelectQuit \/ DialPanics \/ DialFails \/ RelayEnqueue
               \/ RelayWindowLoad \/ RelayWindowStore
        PROVE  tt'.socksCloseCh = tt.socksCloseCh /\ rd' = rd
    BY <1>0, <2>3 DEF SelectQuit, DialPanics, DialFails, RelayEnqueue,
       RelayWindowLoad, RelayWindowStore, Track
  <2>4. ASSUME RelayRefused \/ RelayFin
        PROVE  tt'.socksCloseCh = tt.socksCloseCh /\ rd' = rd
    <3>1. SameFlow(tt, FinTaken(tt))
      BY <1>0, FinTakenFlow
    <3> QED
      BY <2>4, <3>1 DEF RelayRefused, RelayFin, RelayDone, SameFlow
  <2>5. ASSUME ClearTrack
        PROVE  /\ tt'.socksCloseCh = tt.socksCloseCh
               /\ rd' = rd \/ WakeReader
    BY <1>0, <2>5 DEF ClearTrack, Track
  <2> QED
    BY <1>1, <1>2, <1>5, <2>1, <2>3, <2>4, <2>5 DEF RunStep
<1>6. CASE SelectStep
  <2>1. ASSUME NEW s \in Segments, SelectInput(s) PROVE CloseInv'
    <3>1. InputEffect(s) /\ ~RunGone
      BY <1>0, <2>1, Inputs DEF SelectInput, RunAt, RunGone
    <3>2. CASE tt.state = "SYN_RCVD" /\ tt'.state = "ESTABLISHED"
      BY <1>0, <1>3, <3>1, <3>2
         DEF InputEffect, ReaderLocals, OpenInv, Opening
    <3> QED
      BY <1>2, <3>1, <3>2 DEF InputEffect
  <2>2. CASE SelectTimeout \/ SelectAck \/ SelectData \/ SelectClose
    BY <1>0, <1>1, <2>2, EventFlow
  <2> QED
    BY <1>6, <2>1, <2>2 DEF SelectStep
<1>7. CASE \/ ReaderStep \/ HandshakeFails \/ ReaderConnectReply
           \/ ReaderReadFails
           \/ \E r \in SocksReplies : HandshakeAnswered(r)
           \/ \E n \in 1 .. MaxSeg : ReaderRead(n)
  <2>1. CASE ReaderBoot
    <3>1. PICK u \in UidValues :
             LET t == [tt EXCEPT !.uid = u]
             IN /\ tt' = t \/ tt' = Ready(t)
                /\ RdGoto("handshake") \/ RdGoto("loop")
      BY <1>0, <2>1 DEF ReaderBoot, FindAppUid, StartWriter, Track
    <3> DEFINE t == [tt EXCEPT !.uid = u]
    <3>2. t \in Track /\ t.socksCloseCh = tt.socksCloseCh
      BY <1>0 DEF Track
    <3>3. tt' = t \/ tt' = Ready(t)
      BY <3>1
    <3> HIDE DEF t
    <3>4. Ready(t).socksCloseCh = tt.socksCloseCh
      BY <3>2, ReadyFlow
    <3> QED
      BY <1>0, <1>3, <2>1, <3>1, <3>2, <3>3, <3>4
         DEF ReaderBoot, RdAt, RdGoto, ReaderLocals
  <2>2. ASSUME NEW r \in SocksReplies, HandshakeAnswered(r) PROVE CloseInv'
    <3>1. tt' = Ready(tt) /\ rd.pc = "handshake" /\ RdGoto("loop")
      BY <2>2 DEF HandshakeAnswered, StartWriter, RdAt
    <3>2. Ready(tt).socksCloseCh = tt.socksCloseCh
      BY <1>0, ReadyFlow
    <3> QED
      BY <1>0, <1>3, <3>1, <3>2 DEF RdGoto, ReaderLocals
  <2>3. CASE HandshakeFails
    BY <1>0, <2>3 DEF HandshakeFails, RdGoto, ReaderLocals
  <2>4. CASE ReaderFailed
    BY <1>0, <2>4 DEF ReaderFailed, RdGoto, ReaderLocals
  <2>5. CASE ReaderEnd
    BY <1>0, <2>5 DEF ReaderEnd, RdAt, RdGoto, ReaderLocals, Track
  <2>6. CASE ReaderConnectReply \/ ReaderPush \/ ReaderShrinkWindow
    BY <1>0, <1>3, <2>6 DEF ReaderConnectReply, ReaderPush,
       ReaderShrinkWindow, RdAt, RdGoto, ReaderLocals, Track
  <2>7. LeaveLoop => rd'.pc = "end"
    BY DEF LeaveLoop
  <2>8. CASE ReaderLoop
    <3>1. rd.pc = "loop" /\ rd'.pc \in {"end", "park", "read"}
      BY <1>0, <2>7, <2>8 DEF ReaderLoop, RdAt, ReaderLocals
    <3> QED
      BY <1>3, <2>8, <3>1 DEF ReaderLoop
  <2>9. CASE ReaderWoken
    <3>1. rd.pc = "woken" /\ rd'.pc \in {"stuck", "read"}
      BY <1>0, <2>9 DEF ReaderWoken, RdAt, ReaderLocals
    <3> QED
      BY <1>3, <2>9, <3>1 DEF ReaderWoken
  <2>10. CASE ReaderWait \/ ReaderSpin \/ ReaderReadFails \/ ReaderBroadcast
    BY <1>0, <1>3, <2>7, <2>10 DEF ReaderWait, ReaderSpin, ReaderReadFails,
       ReaderBroadcast, RdAt, RdGoto, ReaderLocals
  <2>11. ASSUME NEW n \in 1 .. MaxSeg, ReaderRead(n) PROVE CloseInv'
    BY <1>0, <1>3, <2>11 DEF ReaderRead, RdAt, ReaderLocals
  <2> QED
    BY <1>7, <2>1, <2>2, <2>3, <2>4, <2>5, <2>6, <2>8, <2>9, <2>10, <2>11
       DEF ReaderStep
<1>8. CASE WriterStep \/ WriterWrite
  <2>1. rd' = rd /\ tt'.socksCloseCh = tt.socksCloseCh
    <3>1. CASE WriterTake \/ WriterSent \/ WriterCreditStore
      BY <1>0, <3>1
         DEF WriterTake, WriterSent, WriterCreditStore, Track
    <3>2. CASE \/ WriterExit \/ WriterConnect \/ WriterCheck \/ WriterWait
               \/ WriterWrite \/ WriterCreditLoad
      BY <3>2 DEF WriterExit, WriterConnect, WriterCheck, WriterWait,
         WriterWrite, WriterCreditLoad
    <3> QED
      BY <1>8, <3>1, <3>2 DEF WriterStep
  <2> QED
    BY <1>1, <2>1
<1>9. CASE Environment \/ PeerResets
  <2>1. /\ tt'.socksCloseCh = tt.socksCloseCh
        /\ rd' = rd \/ WakeReader
    <3>1. CASE Stop
      BY <1>0, <3>1 DEF Stop, Track
    <3>2. CASE StopReturns \/ ForeignClear \/ Supersede \/ PeerResets
      BY <1>0, <3>2 DEF StopReturns, ForeignClear, Supersede, PeerResets,
         Track
    <3> QED
      BY <1>9, <3>1, <3>2 DEF Environment
  <2> QED
    BY <1>1, <1>2, <2>1
<1> QED
  BY <1>4, <1>5, <1>6, <1>7, <1>8, <1>9 DEF Next, PeerStep, SocketStep

\* Where the proxy refuses nothing, socksCloseCh is closed once: the reader
\* that callSocks started does not close it behind a failed handshake.
THEOREM AlwaysClosedOnce ==
    "refused" \notin SocksReplies => (Spec => []ClosedOnce)
<1> SUFFICES ASSUME "refused" \notin SocksReplies
             PROVE  Spec => []ClosedOnce
  OBVIOUS
<1>1. Init => CloseInv
  BY DEF Init, CloseInv, ClosedOnce
<1>2. OpenInv /\ CloseInv /\ [Next]_vars => CloseInv'
  BY CloseStep
<1>3. CloseInv => ClosedOnce
  BY DEF CloseInv
<1> QED
  BY <1>1, <1>2, <1>3, OpenInvariant, PTL DEF Spec

-----------------------------------------------------------------------------
(* One CONNECT precedes every byte.  A tunnel's writer is either still in   *)
(* front of its first packet, with connectState "NOT_SENT", or between      *)
(* writing the CONNECT and recording it, or it has asked: then connectState *)
(* is another for good, and a socket that is open has the CONNECT.          *)

Tunnels == Port = "443" /\ proxyType(tt.uid) = "http"
Asked == /\ h.connects \in 0 .. 1
         /\ tt.socksConn = "open" => h.connects = 1
Unasked == wr.pc \in {"loop", "got", "done"} /\ h.connects = 0

ConnectInv ==
    /\ wr.pc = "none" => /\ tt.connectState = "NOT_SENT"
                         /\ h.connects = 0 /\ h.delivered = 0
    /\ Tunnels /\ wr.pc # "none" =>
          /\ h.delivered > 0 => h.connects = 1
          /\ IF tt.connectState = "NOT_SENT"
               THEN h.delivered = 0 /\ (Unasked \/ (wr.pc = "sent" /\ Asked))
               ELSE wr.pc # "sent" /\ Asked

LEMMA ConnectStep ==
    ASSUME OpenInv, ConnectInv, [Next]_vars PROVE ConnectInv'
<1> USE DEF ConnectInv, Tunnels, Asked, Unasked
<1>0. TypeOK
  BY DEF OpenInv
<1> USE DEF TypeOK
<1>1. ASSUME tt'.connectState = tt.connectState, tt'.uid = tt.uid,
             tt'.socksConn = "open" => tt.socksConn = "open",
             h'.delivered = h.delivered, h'.connects = h.connects,
             wr' = wr \/ WakeWriter
      PROVE  ConnectInv'
  BY <1>0, <1>1 DEF WakeWriter, WriterLocals
<1>2. CASE UNCHANGED vars
  BY <1>1, <1>2 DEF vars
<1>a. ASSUME run.pc \in {"dial", "select"}, tt.state = "CLOSED",
             tt'.connectState = tt.connectState, wr' = wr,
             h'.delivered = h.delivered, h'.connects = h.connects
      PROVE  ConnectInv'
  BY <1>0, <1>a DEF OpenInv, Opening, RunGone
<1>3. CASE RunStep
  <2>1. CASE RunTop
    BY <1>0, <1>1, <2>1, TopFlow DEF SameFlow
  <2>2. CASE DialSucceeds
    BY <1>0, <1>a, <2>2, DialFlow DEF SameFlow, OpenInv, Opening
  <2>3. CASE SelectQuit \/ RelayWindowLoad \/ RelayWindowStore
    BY <1>0, <1>1, <2>3 DEF SelectQuit, RelayWindowLoad,
       RelayWindowStore, Track, Closed
  <2>7. CASE DialPanics \/ DialFails
    BY <1>0, <1>1, <2>7 DEF DialPanics, DialFails, Track
  <2>4. CASE RelayEnqueue
    <3>1. /\ tt'.connectState = tt.connectState /\ tt'.uid = tt.uid
          /\ tt'.socksConn = tt.socksConn
          /\ h'.delivered = h.delivered /\ h'.connects = h.connects
      BY <1>0, <2>4 DEF RelayEnqueue, Track, History
    <3> QED
      BY <1>1, <2>4, <3>1 DEF RelayEnqueue
  <2>5. ASSUME NEW fin \in BOOLEAN, RelayDone(fin) PROVE ConnectInv'
    <3>1. /\ SameFlow(tt, FinTaken(tt))
          /\ FinTaken(tt).socksConn \in {"nil", "closed"}
      BY <1>0, FinTakenFlow
    <3>2. h'.delivered = h.delivered /\ h'.connects = h.connects
      BY <1>0, <2>5 DEF RelayDone, CountFin, History
    <3> QED
      BY <1>1, <2>5, <3>1, <3>2 DEF RelayDone, SameFlow
  <2>6. CASE ClearTrack
    BY <1>0, <1>1, <2>6 DEF ClearTrack, Track
  <2> QED
    BY <1>1, <1>3, <2>1, <2>2, <2>3, <2>4, <2>5, <2>6, <2>7
       DEF RunStep, RelayRefused, RelayFin
<1>4. CASE SelectStep
  <2>1. ASSUME NEW s \in Segments, SelectInput(s) PROVE ConnectInv'
    <3>1. InputEffect(s) /\ run.pc = "select"
      BY <1>0, <2>1, Inputs DEF SelectInput, RunAt
    <3>2. CASE tt'.uid = tt.uid /\ ~Dials
      BY <1>1, <3>1, <3>2
         DEF InputEffect, SameCounts, GivesUp, Keeps, TakesPayload,
             TakesFin, SameSocket
    <3>3. CASE tt.state = "CLOSED"
      BY <1>a, <3>1, <3>3 DEF InputEffect, SameCounts
    <3> QED
      BY <3>1, <3>2, <3>3 DEF InputEffect, Dials
  <2>2. CASE SelectTimeout \/ SelectAck \/ SelectData \/ SelectClose
    BY <1>0, <1>1, <2>2, EventFlow
  <2> QED
    BY <1>4, <2>1, <2>2 DEF SelectStep
<1>5. CASE \/ ReaderStep \/ HandshakeFails \/ ReaderConnectReply
           \/ ReaderReadFails
           \/ \E r \in SocksReplies : HandshakeAnswered(r)
           \/ \E n \in 1 .. MaxSeg : ReaderRead(n)
  <2>0. ASSUME NEW t \in Track, rd.pc \in {"boot", "handshake"},
               t.connectState = tt.connectState, tt'.uid = t.uid,
               \/ tt'.connectState = t.connectState /\ wr' = wr
               \/ tt'.connectState = Ready(t).connectState /\ StartWriter,
               h'.delivered = h.delivered, h'.connects = h.connects
        PROVE  ConnectInv'
    <3>1. wr.pc = "none"
      BY <2>0 DEF OpenInv, Opening
    <3>2. CASE tt'.connectState = t.connectState /\ wr' = wr
      BY <2>0, <3>1, <3>2
    <3>3. CASE tt'.connectState = Ready(t).connectState /\ StartWriter
      <4>1. wr'.pc = "loop"
        BY <1>0, <3>3 DEF StartWriter, WriterLocals
      <4>2. proxyType(t.uid) = "http" /\ Port = "443" =>
               tt'.connectState = t.connectState
        BY <3>3 DEF Ready
      <4> QED
        BY <2>0, <3>1, <4>1, <4>2
    <3> QED
      BY <2>0, <3>2, <3>3
  <2>1. CASE ReaderBoot
    <3>1. PICK u \in UidValues :
             LET t == [tt EXCEPT !.uid = u]
             IN \/ tt' = t /\ wr' = wr
                \/ tt' = Ready(t) /\ StartWriter
      BY <1>0, <2>1 DEF ReaderBoot, FindAppUid, Track
    <3> DEFINE t == [tt EXCEPT !.uid = u]
    <3>2. t \in Track /\ t.connectState = tt.connectState
      BY <1>0 DEF Track
    <3>3. \/ tt' = t /\ wr' = wr
          \/ tt' = Ready(t) /\ StartWriter
      BY <3>1
    <3> HIDE DEF t
    <3>4. Ready(t).uid = t.uid
      BY <3>2, ReadyFlow
    <3> QED
      BY <2>0, <2>1, <3>2, <3>3, <3>4 DEF ReaderBoot, RdAt
  <2>2. ASSUME NEW r \in SocksReplies, HandshakeAnswered(r)
        PROVE  ConnectInv'
    <3> DEFINE u == Ready(tt)
    <3>1. u \in Track /\ u.uid = tt.uid
      BY <1>0, ReadyFlow
    <3>2. tt' = u \/ tt' = [u EXCEPT !.socksConn = "closed",
                                    !.socksCloseCh = TRUE]
      BY <2>2 DEF HandshakeAnswered
    <3> HIDE DEF u
    <3>3. tt'.connectState = u.connectState /\ tt'.uid = tt.uid
      BY <3>1, <3>2 DEF Track
    <3>4. h'.delivered = h.delivered /\ h'.connects = h.connects
      <4>1. \/ h' = h
            \/ \E n \in 0 .. MaxSeg :
                  h' = [h EXCEPT !.srvRead = @ + n, !.lost = @ + n]
        BY <2>2 DEF HandshakeAnswered, Swallow
      <4> QED
        BY <1>0, <4>1 DEF History
    <3> QED
      BY <1>0, <2>0, <2>2, <3>3, <3>4 DEF HandshakeAnswered, RdAt, u
  <2>3. CASE HandshakeFails \/ ReaderFailed
    BY <1>0, <1>1, <2>3 DEF HandshakeFails, ReaderFailed, Track
  <2>4. CASE ReaderConnectReply
    <3>1. h'.delivered = h.delivered /\ h'.connects = h.connects
      BY <1>0, <2>4 DEF ReaderConnectReply, Swallow, History
    <3>2. /\ tt.connectState = "SENT" /\ tt'.connectState = "ESTABLISHED"
          /\ tt'.uid = tt.uid /\ tt'.socksConn = tt.socksConn
          /\ WakeWriter
      BY <1>0, <2>4 DEF ReaderConnectReply, Track
    <3>3. /\ (wr'.pc = "none") = (wr.pc = "none")
          /\ (wr'.pc = "sent") = (wr.pc = "sent")
      BY <1>0, <3>2 DEF WakeWriter, WriterLocals
    <3> QED
      BY <3>1, <3>2, <3>3
  <2>5. CASE ReaderPush \/ ReaderShrinkWindow \/ ReaderEnd
    BY <1>0, <1>1, <2>5 DEF ReaderPush, ReaderShrinkWindow, ReaderEnd, Track
  <2>6. ASSUME NEW n \in 1 .. MaxSeg, ReaderRead(n) PROVE ConnectInv'
    <3>1. h'.delivered = h.delivered /\ h'.connects = h.connects
      BY <1>0, <2>6 DEF ReaderRead, History
    <3> QED
      BY <1>1, <2>6, <3>1 DEF ReaderRead
  <2>7. CASE \/ ReaderLoop \/ ReaderWait \/ ReaderWoken \/ ReaderSpin
             \/ ReaderReadFails \/ ReaderBroadcast
    BY <1>1, <2>7 DEF ReaderLoop, ReaderWait, ReaderWoken, ReaderSpin,
       ReaderReadFails, ReaderBroadcast
  <2> QED
    BY <1>5, <2>1, <2>2, <2>3, <2>4, <2>5, <2>6, <2>7 DEF ReaderStep
<1>6. CASE WriterStep \/ WriterWrite
  <2>1. CASE WriterTake
    <3>1. /\ wr.pc = "loop" /\ wr'.pc = "got" /\ h' = h
          /\ tt'.connectState = tt.connectState /\ tt'.uid = tt.uid
          /\ tt'.socksConn = tt.socksConn
      BY <1>0, <2>1 DEF WriterTake, WrAt, WriterLocals, Track
    <3> QED
      BY <3>1
  <2>6. CASE WriterExit \/ WriterWait \/ WriterCreditLoad
    BY <1>0, <2>6 DEF WriterExit, WriterWait, WriterCreditLoad, WrAt,
       WrGoto, WriterLocals
  <2>2. CASE WriterConnect
    <3>1. wr.pc = "got" /\ tt' = tt /\ h'.delivered = h.delivered
      BY <1>0, <2>2 DEF WriterConnect, WrAt, History
    <3>2. CASE tt.connectState = "NOT_SENT"
      <4>1. /\ wr'.pc = "sent"
            /\ h'.connects = IF tt.socksConn = "open" THEN h.connects + 1
                                                      ELSE h.connects
        BY <1>0, <2>2, <3>2 DEF WriterConnect, WrGoto, WriterLocals, History
      <4> QED
        BY <1>0, <3>1, <3>2, <4>1 DEF History
    <3>3. CASE tt.connectState # "NOT_SENT"
      <4>1. wr'.pc = "check" /\ h' = h
        BY <1>0, <2>2, <3>3 DEF WriterConnect, WrGoto, WriterLocals
      <4> QED
        BY <3>1, <3>3, <4>1
    <3> QED
      BY <3>2, <3>3
  <2>7. CASE WriterSent
    <3>1. /\ wr.pc = "sent" /\ wr'.pc = "check" /\ h' = h
          /\ tt'.connectState = "SENT" /\ tt'.uid = tt.uid
          /\ tt'.socksConn = tt.socksConn
      BY <1>0, <2>7 DEF WriterSent, WrAt, WrGoto, WriterLocals, Track
    <3> QED
      BY <3>1
  <2>3. CASE WriterCheck
    <3>1. /\ wr.pc = "check" /\ tt' = tt /\ h' = h
          /\ wr'.pc \in {"wait", "write"}
      BY <1>0, <2>3 DEF WriterCheck, WrAt, WrGoto, WriterLocals
    <3> QED
      BY <3>1
  <2>4. CASE WriterWrite
    <3>1. /\ wr.pc = "write" /\ wr'.pc = "credit" /\ tt' = tt
          /\ h'.connects = h.connects
          /\ tt.socksConn # "open" => h'.delivered = h.delivered
      BY <1>0, <2>4 DEF WriterWrite, WrAt, WrGoto, WriterLocals, History
    <3> QED
      BY <3>1
  <2>5. CASE WriterCreditStore
    <3>1. /\ wr.pc = "store" /\ wr'.pc = "loop"
          /\ tt'.connectState = tt.connectState /\ tt'.uid = tt.uid
          /\ tt'.socksConn = tt.socksConn
          /\ h'.delivered = h.delivered /\ h'.connects = h.connects
      BY <1>0, <2>5 DEF WriterCreditStore, WrAt, Track, History
    <3> QED
      BY <3>1
  <2> QED
    BY <1>6, <2>1, <2>2, <2>3, <2>4, <2>5, <2>6, <2>7 DEF WriterStep
<1>7. CASE Environment \/ PeerResets
  <2>1. CASE Stop
    BY <1>0, <1>1, <2>1 DEF Stop, Track, Closed
  <2>2. CASE StopReturns \/ ForeignClear \/ Supersede \/ PeerResets
    BY <1>0, <1>1, <2>2
       DEF StopReturns, ForeignClear, Supersede, PeerResets, Track
  <2> QED
    BY <1>7, <2>1, <2>2 DEF Environment
<1> QED
  BY <1>2, <1>3, <1>4, <1>5, <1>6, <1>7 DEF Next, PeerStep, SocketStep

\* No byte of the client reaches a proxy that wants a CONNECT before the writer
\* has written it one, and it writes no second, whichever of reader and writer
\* runs first (tcp.go:554-576).
THEOREM AlwaysConnectFirst == Spec => []ConnectFirst
<1>1. Init => ConnectInv
  BY DEF Init, ConnectInv
<1>2. OpenInv /\ ConnectInv /\ [Next]_vars => ConnectInv'
  BY ConnectStep
<1>3. OpenInv /\ ConnectInv => ConnectFirst
  BY DEF OpenInv, TypeOK, History, ConnectInv, ConnectFirst, Tunnels
<1> QED
  BY <1>1, <1>2, <1>3, OpenInvariant, PTL DEF Spec

-----------------------------------------------------------------------------
(* Queues of consecutive chunks                                            *)

LEMMA ContiguousAppend ==
    ASSUME NEW q \in Seq(Chunk), NEW c \in Chunk, NEW lo \in Nat,
           NEW hi \in Nat, Contiguous(q, lo, hi), c.off = hi
    PROVE  Contiguous(Append(q, c), lo, hi + c.len)
<1> DEFINE a == Append(q, c)
<1>1. /\ Len(a) = Len(q) + 1 /\ a[Len(q) + 1] = c /\ Len(q) \in Nat
      /\ \A i \in 1 .. Len(q) : a[i] = q[i]
  OBVIOUS
<1>2. a # <<>>
  BY <1>1
<1> HIDE DEF a
<1>3. CASE q = <<>>
  <2>1. Len(q) = 0
    BY <1>3
  <2> QED
    BY <1>1, <1>2, <1>3, <2>1 DEF Contiguous, a
<1>4. CASE q # <<>>
  <2>1. Len(q) \in Nat \ {0}
    BY <1>4
  <2>2. a[1] = q[1] /\ a[Len(q)] = q[Len(q)]
    BY <1>1, <2>1
  <2>3. ASSUME NEW i \in 1 .. Len(a) - 1
        PROVE  a[i].off + a[i].len = a[i + 1].off
    <3>1. CASE i = Len(q)
      BY <1>1, <1>4, <2>2, <3>1 DEF Contiguous
    <3>2. CASE i # Len(q)
      <4>1. i \in 1 .. Len(q) - 1 /\ i + 1 \in 1 .. Len(q)
        BY <1>1, <2>1, <2>3, <3>2
      <4> QED
        BY <1>1, <4>1 DEF Contiguous
    <3> QED
      BY <3>1, <3>2
  <2> QED
    BY <1>1, <1>2, <1>4, <2>2, <2>3 DEF Contiguous, a
<1> QED
  BY <1>3, <1>4

LEMMA ContiguousTail ==
    ASSUME NEW q \in Seq(Chunk), q # <<>>, NEW lo \in Nat, NEW hi \in Nat,
           Contiguous(q, lo, hi)
    PROVE  /\ Head(q) \in Chunk /\ Tail(q) \in Seq(Chunk)
           /\ Head(q).off = lo
           /\ Contiguous(Tail(q), lo + Head(q).len, hi)
<1> DEFINE r == Tail(q)
<1>1. /\ Head(q) = q[1] /\ q[1] \in Chunk /\ r \in Seq(Chunk)
      /\ Len(r) = Len(q) - 1 /\ Len(q) \in Nat \ {0}
      /\ \A i \in 1 .. Len(r) : r[i] = q[i + 1]
  OBVIOUS
<1> HIDE DEF r
<1>2. Head(q).off = lo
  BY <1>1 DEF Contiguous
<1>3. CASE r = <<>>
  <2>1. Len(r) = 0 /\ Len(q) = 1
    BY <1>1, <1>3
  <2>2. lo + Head(q).len = hi
    BY <1>1, <1>2, <2>1 DEF Contiguous
  <2>3. Contiguous(r, lo + Head(q).len, hi)
    BY <1>3, <2>1, <2>2 DEF Contiguous
  <2> QED
    BY <1>1, <1>2, <2>3 DEF r
<1>4. CASE r # <<>>
  <2>1. Len(r) \in Nat \ {0}
    BY <1>1, <1>4
  <2>2. r[1] = q[2] /\ r[Len(r)] = q[Len(q)]
    BY <1>1, <2>1
  <2>3. q[1].off + q[1].len = q[2].off
    BY <1>1, <2>1 DEF Contiguous
  <2>4. ASSUME NEW i \in 1 .. Len(r) - 1
        PROVE  r[i].off + r[i].len = r[i + 1].off
    <3>1. /\ r[i] = q[i + 1] /\ r[i + 1] = q[(i + 1) + 1]
          /\ i + 1 \in 1 .. Len(q) - 1
      BY <1>1, <2>1
    <3> QED
      BY <3>1 DEF Contiguous
  <2>5. Contiguous(r, lo + Head(q).len, hi)
    BY <1>1, <1>2, <1>4, <2>2, <2>3, <2>4 DEF Contiguous
  <2> QED
    BY <1>1, <1>2, <2>5 DEF r
<1> QED
  BY <1>3, <1>4

\* Two positions of a stream shorter than SeqMod have different numbers, and
\* numbers add up.
LEMMA SeqAddInjective ==
    ASSUME NEW a \in Seqs, NEW m \in 0 .. SeqMod - 1,
           NEW n \in 0 .. SeqMod - 1, SeqAdd(a, m) = SeqAdd(a, n)
    PROVE  m = n
BY Bounds DEF SeqAdd, Seqs

LEMMA SeqAddAssociative ==
    ASSUME NEW a \in Seqs, NEW m \in Nat, NEW n \in Nat, m + n < SeqMod
    PROVE  SeqAdd(SeqAdd(a, m), n) = SeqAdd(a, m + n)
BY Bounds DEF SeqAdd, Seqs
-----------------------------------------------------------------------------
(* The client's bytes.  The invariant adds where the payload in run()'s      *)
(* hands belongs: a segment passes validSeq only at the place the track has *)
(* acknowledged, because the stream is shorter than the number space.       *)

UpInv ==
    /\ UpstreamFifo
    /\ h.relayed <= ClientBytes
    /\ run.pc = "relay" => /\ run.pkt.off = h.relayed
                           /\ run.pkt.off + run.pkt.len <= ClientBytes

SameUp ==
    /\ h'.relayed = h.relayed /\ h'.written = h.written
    /\ h'.delivered = h.delivered

LEMMA UpFrame ==
    ASSUME TypeOK, UpInv,
           tt'.toSocksCh = tt.toSocksCh,
           tt'.socksConn = "open" => tt.socksConn = "open",
           Served' => Served /\ tt'.rcvNxtSeq = tt.rcvNxtSeq,
           h'.relayed = h.relayed, h'.written = h.written,
           h'.delivered = h.delivered,
           run'.pc = "relay" => run.pc = "relay" /\ run'.pkt = run.pkt,
           \/ wr'.pc = wr.pc /\ wr'.pkt = wr.pkt
           \/ WakeWriter
           \/ wr.pc = "none" /\ wr'.pc \in {"none", "loop", "done"}
           \/ /\ wr.pc \in {"got", "sent", "check", "wait", "parked"}
              /\ wr'.pc \in {"sent", "check", "wait", "parked", "write"}
              /\ wr'.pkt = wr.pkt
           \/ wr.pc = "loop" /\ wr'.pc = "done"
           \/ wr.pc = "credit" /\ wr'.pc = "store" /\ wr'.pkt = wr.pkt
    PROVE  UpInv'
<1>1. /\ Holding' = Holding
      /\ Holding => wr'.pkt = wr.pkt
      /\ (wr'.pc \in {"credit", "store"}) = (wr.pc \in {"credit", "store"})
  BY DEF TypeOK, Holding, WakeWriter, WriterLocals
<1>2. Contiguous(tt.toSocksCh,
                 h.written + (IF Holding THEN wr.pkt.len ELSE 0), h.relayed)'
  BY <1>1 DEF UpInv, UpstreamFifo
<1>3. /\ (Holding => wr.pkt.off = h.written)'
      /\ (tt.socksConn = "open" =>
            h.delivered = h.written + (IF wr.pc \in {"credit", "store"}
                                         THEN wr.pkt.len ELSE 0))'
  BY <1>1 DEF UpInv, UpstreamFifo, Holding
<1>4. (Served => tt.rcvNxtSeq = SeqAdd(Isn, h.relayed + 1))'
  BY DEF UpInv, UpstreamFifo
<1> QED
  BY <1>2, <1>3, <1>4 DEF UpInv, UpstreamFifo

LEMMA UpRunStep == ASSUME OpenInv, UpInv, RunStep PROVE UpInv'
<1>0. TypeOK /\ Opening
  BY DEF OpenInv
<1> USE DEF TypeOK
<1>1. CASE RunTop
  BY <1>0, <1>1, TopFlow, UpFrame DEF SameFlow, Served
<1>2. CASE SelectQuit \/ DialFails
  <2>1. /\ tt'.toSocksCh = tt.toSocksCh /\ tt'.rcvNxtSeq = tt.rcvNxtSeq
        /\ tt'.state = tt.state /\ tt'.socksConn # "open"
    BY <1>0, <1>2 DEF SelectQuit, DialFails, Track, Closed
  <2>2. run'.pc # "relay" /\ wr' = wr /\ h' = h
    BY <1>0, <1>2 DEF SelectQuit, DialFails, RunGoto, RunLocals
  <2> QED
    BY <1>0, <2>1, <2>2, UpFrame DEF Served
<1>3. CASE ClearTrack
  <2>1. /\ tt'.toSocksCh = tt.toSocksCh /\ tt'.rcvNxtSeq = tt.rcvNxtSeq
        /\ tt'.state = tt.state /\ tt'.socksConn = tt.socksConn
        /\ run'.pc # "relay" /\ h' = h
        /\ wr' = wr \/ WakeWriter
    BY <1>0, <1>3 DEF ClearTrack, RunGoto, RunLocals, Track
  <2> QED
    BY <1>0, <2>1, UpFrame DEF Served
<1>4. CASE DialSucceeds
  <2>1. /\ h.relayed = 0 /\ h.written = 0 /\ h.delivered = 0
        /\ wr.pc = "none"
    BY <1>0, <1>4, DialFlow DEF Opening, RunGone
  <2>2. /\ h'.relayed = 0 /\ h'.written = 0 /\ h'.delivered = 0
        /\ wr' = wr /\ tt'.toSocksCh = tt.toSocksCh
        /\ tt'.rcvNxtSeq = SeqAdd(Isn, 1) /\ run'.pc = "top"
    BY <1>0, <1>4, <2>1, DialFlow DEF SameFlow
  <2> QED
    BY <2>1, <2>2, Bounds DEF UpInv, UpstreamFifo, Holding
<1>5. CASE RelayEnqueue
  <2> DEFINE c == [off |-> run.pkt.off, len |-> run.pkt.len]
             held == IF Holding THEN wr.pkt.len ELSE 0
  <2>1. /\ c \in Chunk /\ c.off = h.relayed /\ c.len = run.pkt.len
        /\ run.pkt.len \in Nat /\ h.relayed \in Nat
        /\ h.relayed + run.pkt.len <= ClientBytes
    BY <1>0, <1>5, Bounds DEF RelayEnqueue, RunAt, RunLocals, Packet, Chunk,
       History, UpInv
  <2>2. held \in Nat /\ h.written \in Nat /\ tt.toSocksCh \in Seq(Chunk)
    BY <1>0, Bounds DEF WriterLocals, Chunk, History, Track
  <2>3. Contiguous(tt.toSocksCh, h.written + held, h.relayed)
    BY DEF UpInv, UpstreamFifo
  <2>4. /\ tt'.toSocksCh = Append(tt.toSocksCh, c)
        /\ tt'.rcvNxtSeq = SeqAdd(tt.rcvNxtSeq, run.pkt.len)
        /\ tt'.state = tt.state /\ tt'.socksConn = tt.socksConn
    BY <1>0, <1>5 DEF RelayEnqueue, Track
  <2>5. /\ h'.relayed = h.relayed + run.pkt.len /\ h'.written = h.written
        /\ h'.delivered = h.delivered
    BY <1>0, <1>5 DEF RelayEnqueue, History
  <2>6. wr' = wr /\ run'.pc = "wndload"
    BY <1>0, <1>5 DEF RelayEnqueue, RunGoto, RunLocals
  <2> HIDE DEF c, held
  <2>7. Contiguous(tt'.toSocksCh, h.written + held, h.relayed + run.pkt.len)
    BY <2>1, <2>2, <2>3, <2>4, ContiguousAppend
  <2>8. (Served => tt.rcvNxtSeq = SeqAdd(Isn, h.relayed + 1))'
    <3>1. Served => tt.rcvNxtSeq = SeqAdd(Isn, h.relayed + 1)
      BY DEF UpInv, UpstreamFifo
    <3>2. SeqAdd(SeqAdd(Isn, h.relayed + 1), run.pkt.len)
            = SeqAdd(Isn, (h.relayed + 1) + run.pkt.len)
      <4> DEFINE m == h.relayed + 1
                 n == run.pkt.len
      <4>1. m \in Nat /\ n \in Nat /\ m + n < SeqMod /\ Isn \in Seqs
        BY <2>1, Bounds DEF Seqs
      <4> HIDE DEF m, n
      <4>2. SeqAdd(SeqAdd(Isn, m), n) = SeqAdd(Isn, m + n)
        BY <4>1, SeqAddAssociative
      <4> QED
        BY <4>2 DEF m, n
    <3>3. (h.relayed + 1) + run.pkt.len = h'.relayed + 1
      BY <2>1, <2>5
    <3> QED
      BY <2>4, <3>1, <3>2, <3>3 DEF Served
  <2>9. Contiguous(tt.toSocksCh,
                   h.written + (IF Holding THEN wr.pkt.len ELSE 0),
                   h.relayed)'
    BY <2>5, <2>6, <2>7 DEF held, Holding
  <2> QED
    BY <2>1, <2>4, <2>5, <2>6, <2>8, <2>9 DEF UpInv, UpstreamFifo, Holding
<1>6. ASSUME NEW fin \in BOOLEAN, RelayDone(fin) PROVE UpInv'
  <2>1. /\ tt'.toSocksCh = tt.toSocksCh
        /\ tt'.socksConn = "open" => tt.socksConn = "open"
        /\ Served' => Served /\ tt'.rcvNxtSeq = tt.rcvNxtSeq
    BY <1>0, <1>6, FinTakenFlow DEF RelayDone, SameFlow, Served
  <2>2. /\ h'.relayed = h.relayed /\ h'.written = h.written
        /\ h'.delivered = h.delivered
    BY <1>0, <1>6 DEF RelayDone, CountFin, History
  <2>3. wr' = wr /\ run'.pc = "top"
    BY <1>0, <1>6 DEF RelayDone, RunLocals
  <2> QED
    BY <1>0, <2>1, <2>2, <2>3, UpFrame
<1>7. CASE RelayWindowLoad \/ RelayWindowStore
  <2>1. /\ tt'.toSocksCh = tt.toSocksCh /\ tt'.rcvNxtSeq = tt.rcvNxtSeq
        /\ tt'.state = tt.state /\ tt'.socksConn = tt.socksConn
        /\ run'.pc # "relay" /\ wr' = wr /\ h' = h
    BY <1>0, <1>7 DEF RelayWindowLoad, RelayWindowStore, RunLocals, Track
  <2> QED
    BY <1>0, <2>1, UpFrame DEF Served
<1>8. CASE DialPanics
  BY <1>0, <1>8, UpFrame DEF DialPanics, RunGoto, RunLocals, Served
<1> QED
  BY <1>1, <1>2, <1>3, <1>4, <1>5, <1>6, <1>7, <1>8
     DEF RunStep, RelayRefused, RelayFin

LEMMA UpSelectStep == ASSUME OpenInv, UpInv, SelectStep PROVE UpInv'
<1>0. TypeOK
  BY DEF OpenInv
<1> USE DEF TypeOK
<1>1. /\ SameFlow(tt, Ended(tt)) /\ SameFlow(tt, Acked(tt))
      /\ SameFlow(tt, FinAcked(tt)) /\ FinAcked(tt) \in Track
      /\ Acked(tt) \in Track /\ Ended(tt).state = tt.state
      /\ Acked(tt).state = tt.state
      /\ Ended(tt).rcvNxtSeq = tt.rcvNxtSeq
      /\ Acked(tt).rcvNxtSeq = tt.rcvNxtSeq
      /\ Ended(tt).socksConn # "open"
      /\ Acked(tt).socksConn = tt.socksConn
      /\ FinAcked(tt).socksConn = tt.socksConn
  BY <1>0, EndedFlow, AckedFlow, FinAckedFlow
<1>2. ASSUME SelectTimeout \/ SelectAck \/ SelectData \/ SelectClose
      PROVE  UpInv'
  <2>1. /\ h'.relayed = h.relayed /\ h'.written = h.written
        /\ h'.delivered = h.delivered /\ wr' = wr
        /\ tt'.toSocksCh = tt.toSocksCh
    BY <1>0, <1>2, EventFlow
  <2>2. run'.pc # "relay"
    BY <1>0, <1>2 DEF SelectTimeout, SelectAck, SelectData, SelectClose,
       RunGoto, RunLocals
  <2>3. CASE SelectTimeout \/ SelectAck
    BY <1>0, <1>1, <2>1, <2>2, <2>3, UpFrame
       DEF SelectTimeout, SelectAck, SameFlow, Served
  <2>4. CASE SelectData
    <3>1. /\ tt'.toSocksCh = tt.toSocksCh /\ tt'.rcvNxtSeq = tt.rcvNxtSeq
          /\ tt'.state = tt.state /\ tt'.socksConn = tt.socksConn
      BY <1>1, <2>4 DEF SelectData, SameFlow, Track
    <3> QED
      BY <1>0, <2>1, <2>2, <3>1, UpFrame DEF Served
  <2>5. CASE SelectClose
    <3>1. /\ tt'.toSocksCh = tt.toSocksCh /\ tt'.state = "FIN_WAIT_1"
          /\ tt'.socksConn = tt.socksConn
      BY <1>1, <2>5 DEF SelectClose, SameFlow, Track
    <3> QED
      BY <1>0, <2>1, <2>2, <3>1, UpFrame DEF Served
  <2> QED
    BY <1>2, <2>3, <2>4, <2>5
<1>3. ASSUME NEW s \in Segments, SelectInput(s) PROVE UpInv'
  <2>1. /\ tt'.toSocksCh = tt.toSocksCh /\ wr' = wr /\ SameCounts
        /\ Dials \/ GivesUp \/ Keeps \/ TakesPayload(s) \/ TakesFin
    BY <1>0, <1>3, Inputs DEF InputEffect
  <2>2. CASE Dials \/ GivesUp \/ Keeps \/ TakesFin
    BY <1>0, <2>1, <2>2, UpFrame
       DEF Dials, GivesUp, Keeps, TakesFin, SameCounts, SameSocket, Served
  <2>3. CASE TakesPayload(s)
    <3>1. h.relayed \in Nat /\ h.relayed <= ClientBytes
      BY <1>0 DEF History, UpInv
    <3>2. /\ s.seq \in Nat /\ s.len \in Nat /\ s.seq >= 1
          /\ s.seq + s.len <= ClientBytes + 1
      BY <2>3, Bounds DEF TakesPayload, Segments
    <3>3. SeqAdd(Isn, s.seq) = SeqAdd(Isn, h.relayed + 1)
      BY <2>3 DEF TakesPayload, validSeq, UpInv, UpstreamFifo
    <3>4. /\ s.seq \in 0 .. SeqMod - 1 /\ Isn \in Seqs
          /\ h.relayed + 1 \in 0 .. SeqMod - 1
      BY <3>1, <3>2, <2>3, Bounds DEF TakesPayload, Seqs
    <3>5. s.seq = h.relayed + 1
      BY <3>3, <3>4, SeqAddInjective
    <3>6. run'.pkt.off = h.relayed /\ run'.pkt.len = s.len
      BY <2>3, <3>1, <3>5 DEF TakesPayload
    <3>7. UpstreamFifo'
      BY <2>1, <2>3 DEF TakesPayload, SameCounts, SameSocket, UpInv,
         UpstreamFifo, Holding, Served
    <3>8. h.relayed + s.len <= ClientBytes
      BY <3>1, <3>2, <3>5, Bounds
    <3> QED
      BY <2>1, <3>1, <3>6, <3>7, <3>8 DEF UpInv, SameCounts
  <2> QED
    BY <2>1, <2>2, <2>3
<1> QED
  BY <1>2, <1>3 DEF SelectStep

LEMMA UpReaderStep ==
    ASSUME OpenInv, UpInv,
           \/ ReaderStep \/ HandshakeFails \/ ReaderConnectReply
           \/ ReaderReadFails
           \/ \E r \in SocksReplies : HandshakeAnswered(r)
           \/ \E n \in 1 .. MaxSeg : ReaderRead(n)
    PROVE  UpInv'
<1>0. TypeOK /\ Opening
  BY DEF OpenInv
<1> USE DEF TypeOK
<1>1. ASSUME tt'.toSocksCh = tt.toSocksCh, tt'.rcvNxtSeq = tt.rcvNxtSeq,
             tt'.state = tt.state,
             tt'.socksConn = "open" => tt.socksConn = "open",
             run' = run, SameUp,
             \/ wr' = wr \/ WakeWriter
             \/ rd.pc \in {"boot", "handshake"} /\ StartWriter
      PROVE  UpInv'
  <2>1. CASE wr' = wr \/ WakeWriter
    BY <1>0, <1>1, <2>1, UpFrame DEF Served, SameUp
  <2>2. CASE rd.pc \in {"boot", "handshake"} /\ StartWriter
    <3>1. wr.pc = "none" /\ wr'.pc = "loop"
      BY <1>0, <2>2 DEF Opening, StartWriter, WriterLocals
    <3> QED
      BY <1>0, <1>1, <3>1, UpFrame DEF Served, SameUp
  <2> QED
    BY <1>1, <2>1, <2>2
<1>2. CASE ReaderBoot
  <2>1. PICK u \in UidValues :
           LET t == [tt EXCEPT !.uid = u]
           IN /\ tt' = t \/ tt' = Ready(t)
              /\ wr' = wr \/ StartWriter
    BY <1>0, <1>2 DEF ReaderBoot, FindAppUid, Track
  <2> DEFINE t == [tt EXCEPT !.uid = u]
  <2>2. /\ t \in Track /\ t.toSocksCh = tt.toSocksCh /\ t.state = tt.state
        /\ t.rcvNxtSeq = tt.rcvNxtSeq /\ t.socksConn = tt.socksConn
    BY <1>0 DEF Track
  <2>3. tt' = t \/ tt' = Ready(t)
    BY <2>1
  <2> HIDE DEF t
  <2>4. /\ tt'.toSocksCh = tt.toSocksCh /\ tt'.rcvNxtSeq = tt.rcvNxtSeq
        /\ tt'.state = tt.state /\ tt'.socksConn = tt.socksConn
    BY <2>2, <2>3, ReadyFlow
  <2> QED
    BY <1>1, <1>2, <2>1, <2>4 DEF ReaderBoot, RdAt, SameUp
<1>3. ASSUME NEW r \in SocksReplies, HandshakeAnswered(r) PROVE UpInv'
  <2> DEFINE u == Ready(tt)
  <2>1. /\ u \in Track /\ u.toSocksCh = tt.toSocksCh /\ u.state = tt.state
        /\ u.rcvNxtSeq = tt.rcvNxtSeq /\ u.socksConn = tt.socksConn
    BY <1>0, ReadyFlow
  <2>2. tt' = u \/ tt' = [u EXCEPT !.socksConn = "closed",
                                  !.socksCloseCh = TRUE]
    BY <1>3 DEF HandshakeAnswered
  <2> HIDE DEF u
  <2>3. /\ tt'.toSocksCh = tt.toSocksCh /\ tt'.rcvNxtSeq = tt.rcvNxtSeq
        /\ tt'.state = tt.state
        /\ tt'.socksConn = "open" => tt.socksConn = "open"
    BY <2>1, <2>2 DEF Track
  <2>4. SameUp
    BY <1>0, <1>3 DEF HandshakeAnswered, Swallow, History, SameUp
  <2> QED
    BY <1>1, <1>3, <2>3, <2>4 DEF HandshakeAnswered, RdAt
<1>4. CASE HandshakeFails \/ ReaderFailed
  BY <1>0, <1>1, <1>4 DEF HandshakeFails, ReaderFailed, Track, SameUp
<1>5. CASE ReaderConnectReply
  <2>1. SameUp
    BY <1>0, <1>5 DEF ReaderConnectReply, Swallow, History, SameUp
  <2> QED
    BY <1>0, <1>1, <1>5, <2>1 DEF ReaderConnectReply, Track
<1>6. CASE ReaderPush \/ ReaderShrinkWindow
  BY <1>0, <1>1, <1>6 DEF ReaderPush, ReaderShrinkWindow, Track, SameUp
<1>7. CASE ReaderEnd
  BY <1>0, <1>1, <1>7 DEF ReaderEnd, Track, SameUp
<1>8. ASSUME NEW n \in 1 .. MaxSeg, ReaderRead(n) PROVE UpInv'
  <2>1. SameUp
    BY <1>0, <1>8 DEF ReaderRead, History, SameUp
  <2> QED
    BY <1>1, <1>8, <2>1 DEF ReaderRead
<1>9. CASE \/ ReaderLoop \/ ReaderWait \/ ReaderWoken \/ ReaderSpin
           \/ ReaderReadFails \/ ReaderBroadcast
  BY <1>1, <1>9 DEF ReaderLoop, ReaderWait, ReaderWoken, ReaderSpin,
     ReaderReadFails, ReaderBroadcast, SameUp
<1> QED
  BY <1>2, <1>3, <1>4, <1>5, <1>6, <1>7, <1>8, <1>9 DEF ReaderStep

LEMMA UpWriterStep ==
    ASSUME OpenInv, UpInv, WriterStep \/ WriterWrite PROVE UpInv'
<1>0. TypeOK
  BY DEF OpenInv
<1> USE DEF TypeOK
<1>1. CASE WriterTake
  <2> DEFINE q == tt.toSocksCh
             c == Head(q)
  <2>1. /\ q \in Seq(Chunk) /\ q # <<>> /\ wr.pc = "loop"
        /\ h.written \in Nat /\ h.relayed \in Nat
    BY <1>0, <1>1 DEF WriterTake, WrAt, Track, History
  <2>2. Contiguous(q, h.written, h.relayed)
    <3>1. h.written + 0 = h.written
      BY <2>1
    <3> QED
      BY <2>1, <3>1 DEF UpInv, UpstreamFifo, Holding
  <2>3. c \in Chunk /\ c.off = h.written
          /\ Contiguous(Tail(q), h.written + c.len, h.relayed)
    <3> HIDE DEF q
    <3> QED
      BY <2>1, <2>2, ContiguousTail
  <2>4. /\ tt'.toSocksCh = Tail(q) /\ tt'.rcvNxtSeq = tt.rcvNxtSeq
        /\ tt'.state = tt.state /\ tt'.socksConn = tt.socksConn
        /\ run' = run /\ h' = h
    BY <1>0, <1>1 DEF WriterTake, Track
  <2>5. wr'.pc = "got" /\ wr'.pkt = c
    BY <1>0, <1>1 DEF WriterTake, WriterLocals
  <2> HIDE DEF q, c
  <2> QED
    BY <2>1, <2>3, <2>4, <2>5 DEF UpInv, UpstreamFifo, Holding, Served
<1>2. CASE WriterWrite
  <2>1. /\ tt' = tt /\ run' = run /\ wr.pc = "write" /\ wr'.pc = "credit"
        /\ wr'.pkt = wr.pkt
    BY <1>0, <1>2 DEF WriterWrite, WrAt, WrGoto, WriterLocals
  <2>2. /\ h'.relayed = h.relayed /\ h'.written = h.written
        /\ tt.socksConn = "open" =>
              h'.delivered = h.delivered + wr.pkt.len
    BY <1>0, <1>2 DEF WriterWrite, History
  <2>3. h.written \in Nat
    BY <1>0 DEF History
  <2> QED
    BY <2>1, <2>2, <2>3 DEF UpInv, UpstreamFifo, Holding, Served
<1>3. CASE WriterCreditStore
  <2>1. /\ tt'.toSocksCh = tt.toSocksCh /\ tt'.rcvNxtSeq = tt.rcvNxtSeq
        /\ tt'.state = tt.state /\ tt'.socksConn = tt.socksConn
        /\ run' = run /\ wr.pc = "store" /\ wr'.pc = "loop"
    BY <1>0, <1>3 DEF WriterCreditStore, WrAt, Track
  <2>2. /\ h'.relayed = h.relayed /\ h'.delivered = h.delivered
        /\ h'.written = h.written + wr.pkt.len
        /\ h'.written \in Nat
    BY <1>0, <1>3, Bounds DEF WriterCreditStore, History, WriterLocals, Chunk
  <2>3. h'.written + 0 = h'.written
    BY <2>2
  <2> QED
    BY <2>1, <2>2, <2>3 DEF UpInv, UpstreamFifo, Holding, Served
<1>4. CASE WriterConnect
  <2>1. SameUp
    BY <1>0, <1>4 DEF WriterConnect, History, SameUp
  <2> QED
    BY <1>0, <1>4, <2>1, UpFrame
       DEF WriterConnect, WrAt, WrGoto, WriterLocals, Served, SameUp
<1>8. CASE WriterSent
  BY <1>0, <1>8, UpFrame
     DEF WriterSent, WrAt, WrGoto, WriterLocals, Track, Served
<1>5. CASE WriterCheck \/ WriterWait
  BY <1>0, <1>5, UpFrame
     DEF WriterCheck, WriterWait, WrAt, WrGoto, WriterLocals, Served
<1>6. CASE WriterExit
  BY <1>0, <1>6, UpFrame DEF WriterExit, WrAt, WrGoto, WriterLocals, Served
<1>7. CASE WriterCreditLoad
  BY <1>0, <1>7, UpFrame DEF WriterCreditLoad, WrAt, WriterLocals, Served
<1> QED
  BY <1>1, <1>2, <1>3, <1>4, <1>5, <1>6, <1>7, <1>8 DEF WriterStep

LEMMA UpStep == ASSUME OpenInv, UpInv, [Next]_vars PROVE UpInv'
<1>0. TypeOK
  BY DEF OpenInv
<1>1. CASE UNCHANGED vars
  BY <1>0, <1>1, UpFrame DEF vars, Served
<1>2. CASE Stop
  <2>1. /\ tt'.toSocksCh = tt.toSocksCh /\ tt'.rcvNxtSeq = tt.rcvNxtSeq
        /\ tt'.state = tt.state
        /\ tt'.socksConn = "open" => tt.socksConn = "open"
    BY <1>0, <1>2 DEF TypeOK, Stop, Closed, Track
  <2> QED
    BY <1>0, <1>2, <2>1, UpFrame DEF Stop, Served
<1>3. CASE StopReturns \/ ForeignClear \/ Supersede \/ PeerResets
  <2>1. /\ tt'.toSocksCh = tt.toSocksCh /\ tt'.rcvNxtSeq = tt.rcvNxtSeq
        /\ tt'.state = tt.state
        /\ tt'.socksConn = "open" => tt.socksConn = "open"
    BY <1>0, <1>3 DEF TypeOK, StopReturns, ForeignClear, Supersede,
       PeerResets, Track
  <2> QED
    BY <1>0, <1>3, <2>1, UpFrame
       DEF StopReturns, ForeignClear, Supersede, PeerResets, Served
<1>4. CASE Next
  BY <1>2, <1>3, <1>4, UpRunStep, UpSelectStep, UpReaderStep, UpWriterStep
     DEF Next, PeerStep, SocketStep, Environment
<1> QED
  BY <1>1, <1>4

\* For streams, segments, windows and queues of any size, and whatever the
\* first sequence number: the client's bytes reach the writer's socket in
\* order, none twice and none skipped, and the track acknowledges what it has
\* queued and no more.
THEOREM AlwaysUpstreamFifo == Spec => []UpstreamFifo
<1>1. Init => UpInv
  BY Bounds DEF Init, UpInv, UpstreamFifo, Contiguous, Holding, Served
<1>2. OpenInv /\ UpInv /\ [Next]_vars => UpInv'
  BY UpStep
<1>3. UpInv => UpstreamFifo
  BY DEF UpInv
<1> QED
  BY <1>1, <1>2, <1>3, OpenInvariant, PTL DEF Spec
-----------------------------------------------------------------------------
(* The server's bytes.  The invariant adds that nothing is queued before     *)
(* the proxy has answered (what comes with the answer is dropped, and so    *)
(* must come first), and bounds that keep the sum of bytes and FINs below   *)
(* SeqMod.                                                                  *)

DownInv ==
    /\ DownstreamFifo
    /\ h.srvRead <= ServerBytes
    /\ h.lost + h.emitted <= ServerBytes
    /\ \A i \in 1 .. Len(tt.fromSocksCh) :
          tt.fromSocksCh[i].off + tt.fromSocksCh[i].len <= ServerBytes
    /\ h.fins <= MaxFins
    /\ tt.connectState # "ESTABLISHED" =>
          tt.fromSocksCh = <<>> /\ rd.pc # "push"

SameDown ==
    /\ h'.srvRead = h.srvRead /\ h'.lost = h.lost
    /\ h'.emitted = h.emitted /\ h'.answer = h.answer

\* The FINs counted keep step with the sequence numbers they use.
Numbered ==
    \/ tt'.nxtSeq = tt.nxtSeq /\ h'.fins = h.fins
    \/ /\ tt'.nxtSeq = SeqAdd(tt.nxtSeq, 1) /\ h'.fins = h.fins + 1
       /\ h.fins < MaxFins

LEMMA NumberedFifo ==
    ASSUME TypeOK, DownInv, Numbered, SameDown
    PROVE  /\ (h.answer = "synack" =>
                 tt.nxtSeq = SeqAdd(2, h.emitted + h.fins))'
           /\ h'.fins <= MaxFins
<1> DEFINE x == h.emitted + h.fins
<1>1. /\ h.emitted \in Nat /\ h.fins \in Nat /\ h.lost \in Nat
      /\ h.emitted <= ServerBytes /\ h.fins <= MaxFins
  <2>1. h.emitted \in Nat /\ h.fins \in Nat /\ h.lost \in Nat
    <3>1. h \in History
      BY DEF TypeOK
    <3> QED
      BY <3>1 DEF History
  <2>2. h.lost + h.emitted <= ServerBytes /\ h.fins <= MaxFins
    BY DEF DownInv
  <2> QED
    BY <2>1, <2>2, Bounds
<1>2. h.answer = "synack" => tt.nxtSeq = SeqAdd(2, x)
  BY DEF DownInv, DownstreamFifo
<1>3. CASE tt'.nxtSeq = tt.nxtSeq /\ h'.fins = h.fins
  BY <1>1, <1>2, <1>3 DEF SameDown
<1>4. CASE /\ tt'.nxtSeq = SeqAdd(tt.nxtSeq, 1) /\ h'.fins = h.fins + 1
           /\ h.fins < MaxFins
  <2>1. x \in Nat /\ x + 1 < SeqMod /\ 2 \in Seqs
    BY <1>1, <1>4, Bounds DEF Seqs
  <2>2. h'.emitted + h'.fins = x + 1 /\ h'.fins <= MaxFins
    BY <1>1, <1>4, Bounds DEF SameDown
  <2> HIDE DEF x
  <2>3. SeqAdd(SeqAdd(2, x), 1) = SeqAdd(2, x + 1)
    BY <2>1, SeqAddAssociative
  <2> QED
    BY <1>2, <1>4, <2>2, <2>3 DEF SameDown
<1> QED
  BY <1>3, <1>4 DEF Numbered

LEMMA DownFrame ==
    ASSUME TypeOK, DownInv, Numbered, SameDown,
           tt'.fromSocksCh = tt.fromSocksCh,
           tt'.connectState # "ESTABLISHED" =>
              tt.connectState # "ESTABLISHED",
           rd'.pc = "push" => rd.pc = "push" /\ rd'.buf = rd.buf,
           rd.pc = "push" => rd'.pc = "push"
    PROVE  DownInv'
<1>1. /\ (h.answer = "synack" =>
            tt.nxtSeq = SeqAdd(2, h.emitted + h.fins))'
      /\ h'.fins <= MaxFins
  BY NumberedFifo
<1>2. Contiguous(tt.fromSocksCh, h.lost + h.emitted,
                 IF rd.pc = "push" THEN rd.buf.off ELSE h.srvRead)'
  BY DEF DownInv, DownstreamFifo, SameDown
<1>3. (rd.pc = "push" => rd.buf.off + rd.buf.len = h.srvRead)'
  BY DEF DownInv, DownstreamFifo, SameDown
<1> QED
  BY <1>1, <1>2, <1>3 DEF DownInv, DownstreamFifo, SameDown

\* Nothing is queued yet, so what is dropped leaves no gap.
LEMMA DownSwallow ==
    ASSUME TypeOK, DownInv, NEW n \in 0 .. MaxSeg, Swallow(n),
           tt.connectState # "ESTABLISHED", rd'.pc # "push",
           tt'.fromSocksCh = tt.fromSocksCh, tt'.nxtSeq = tt.nxtSeq
    PROVE  DownInv'
<1>1. /\ h'.srvRead = h.srvRead + n /\ h'.lost = h.lost + n
      /\ h'.emitted = h.emitted /\ h'.fins = h.fins
      /\ h'.answer = h.answer /\ h.srvRead + n <= ServerBytes
  BY DEF Swallow, TypeOK, History
<1>2. /\ h.srvRead \in Nat /\ h.lost \in Nat /\ h.emitted \in Nat
      /\ n \in Nat
  BY Bounds DEF TypeOK, History
<1>3. tt.fromSocksCh = <<>> /\ h.lost + h.emitted = h.srvRead
  BY DEF DownInv, DownstreamFifo, Contiguous
<1>4. h'.lost + h'.emitted = h'.srvRead
  BY <1>1, <1>2, <1>3
<1>5. Len(tt.fromSocksCh) = 0
  BY <1>3
<1>6. Contiguous(tt'.fromSocksCh, h'.lost + h'.emitted, h'.srvRead)
  BY <1>3, <1>4, <1>5 DEF Contiguous
<1> QED
  BY <1>1, <1>3, <1>4, <1>6 DEF DownInv, DownstreamFifo

LEMMA DownRunStep == ASSUME OpenInv, DownInv, RunStep PROVE DownInv'
<1>0. TypeOK /\ Opening
  BY DEF OpenInv
<1> USE DEF TypeOK
<1>1. CASE RunTop
  BY <1>0, <1>1, TopFlow, DownFrame DEF SameFlow, SameDown, Numbered
<1>2. CASE \/ SelectQuit \/ DialPanics \/ DialFails
           \/ RelayWindowLoad \/ RelayWindowStore
  <2>1. /\ tt'.fromSocksCh = tt.fromSocksCh /\ tt'.nxtSeq = tt.nxtSeq
        /\ tt'.connectState = tt.connectState /\ rd' = rd /\ h' = h
    BY <1>0, <1>2 DEF SelectQuit, DialPanics, DialFails,
       RelayWindowLoad, RelayWindowStore, Track
  <2> QED
    BY <1>0, <2>1, DownFrame DEF SameDown, Numbered
<1>3. CASE ClearTrack
  <2>1. /\ tt'.fromSocksCh = tt.fromSocksCh /\ tt'.nxtSeq = tt.nxtSeq
        /\ tt'.connectState = tt.connectState /\ h' = h
    BY <1>0, <1>3 DEF ClearTrack, Track
  <2>2. /\ rd'.pc = "push" => rd.pc = "push" /\ rd'.buf = rd.buf
        /\ rd.pc = "push" => rd'.pc = "push"
    BY <1>0, <1>3 DEF ClearTrack, WakeReader, ReaderLocals
  <2> QED
    BY <1>0, <2>1, <2>2, DownFrame DEF SameDown, Numbered
<1>4. CASE DialSucceeds
  <2>1. /\ h.emitted = 0 /\ h.fins = 0 /\ h.lost = 0
    BY <1>0, <1>4, DialFlow DEF Opening, RunGone
  <2>2. SeqAdd(2, 0 + 0) = 2
    BY Bounds DEF SeqAdd
  <2>3. /\ h'.emitted = 0 /\ h'.fins = 0 /\ h'.lost = h.lost
        /\ h'.srvRead = h.srvRead /\ rd' = rd /\ tt'.nxtSeq = 2
        /\ tt'.fromSocksCh = tt.fromSocksCh
        /\ tt'.connectState = tt.connectState
    BY <1>0, <1>4, <2>1, DialFlow DEF SameFlow
  <2> QED
    BY <2>1, <2>2, <2>3 DEF DownInv, DownstreamFifo
<1>5. CASE RelayEnqueue
  <2>1. /\ tt'.fromSocksCh = tt.fromSocksCh /\ tt'.nxtSeq = tt.nxtSeq
        /\ tt'.connectState = tt.connectState /\ rd' = rd
    BY <1>0, <1>5 DEF RelayEnqueue, Track
  <2>2. SameDown /\ h'.fins = h.fins
    BY <1>0, <1>5 DEF RelayEnqueue, History, SameDown
  <2> QED
    BY <1>0, <2>1, <2>2, DownFrame DEF Numbered
<1>6. ASSUME NEW fin \in BOOLEAN, RelayDone(fin),
             run.pc \in {"relay", "fin"}
      PROVE  DownInv'
  <2>1. tt'.fromSocksCh = tt.fromSocksCh /\ rd' = rd
          /\ tt'.connectState = tt.connectState
    BY <1>0, <1>6, FinTakenFlow DEF RelayDone, SameFlow
  <2>2. h.fins = 0 /\ h.fins < MaxFins
    BY <1>0, <1>6, Bounds DEF Opening, RunGone
  <2>3. SameDown
    BY <1>0, <1>6 DEF RelayDone, CountFin, History, SameDown
  <2>4. Numbered
    <3>1. CASE fin
      <4>1. h'.fins = h.fins + 1
        BY <1>0, <1>6, <3>1 DEF RelayDone, CountFin, History
      <4> QED
        BY <1>0, <1>6, <2>2, <3>1, <4>1, FinTakenFlow
           DEF RelayDone, Numbered
    <3>2. CASE ~fin
      BY <1>6, <3>2 DEF RelayDone, Numbered
    <3> QED
      BY <3>1, <3>2
  <2> QED
    BY <1>0, <2>1, <2>3, <2>4, DownFrame
<1>7. CASE RelayRefused
  BY <1>6, <1>7 DEF RelayRefused, RunAt
<1>8. CASE RelayFin
  BY <1>6, <1>8 DEF RelayFin, RunAt
<1> QED
  BY <1>1, <1>2, <1>3, <1>4, <1>5, <1>7, <1>8 DEF RunStep

LEMMA DownSelectStep == ASSUME OpenInv, DownInv, SelectStep PROVE DownInv'
<1>0. TypeOK /\ Opening
  BY DEF OpenInv
<1> USE DEF TypeOK
<1>1. CASE SelectTimeout \/ SelectAck
  <2>1. /\ SameFlow(tt, Ended(tt)) /\ Ended(tt).nxtSeq = tt.nxtSeq
        /\ SameFlow(tt, Acked(tt)) /\ Acked(tt).nxtSeq = tt.nxtSeq
    BY <1>0, EndedFlow, AckedFlow
  <2> QED
    BY <1>0, <1>1, <2>1, DownFrame
       DEF SelectTimeout, SelectAck, SameFlow, SameDown, Numbered
<1>2. CASE SelectClose
  <2> DEFINE u == FinAcked(tt)
  <2>1. u \in Track /\ SameFlow(tt, u) /\ u.nxtSeq = SeqAdd(tt.nxtSeq, 1)
    BY <1>0, FinAckedFlow
  <2>2. tt' = [u EXCEPT !.state = "FIN_WAIT_1"]
    BY <1>2 DEF SelectClose
  <2> HIDE DEF u
  <2>3. SameFlow(tt, tt') /\ tt'.nxtSeq = SeqAdd(tt.nxtSeq, 1)
    BY <2>1, <2>2 DEF SameFlow, Track
  <2>4. SameDown /\ h'.fins = h.fins + 1 /\ h.fins < MaxFins /\ rd' = rd
    BY <1>0, <1>2 DEF SelectClose, CountFin, History, SameDown
  <2> QED
    BY <1>0, <2>3, <2>4, DownFrame DEF Numbered, SameFlow
<1>3. CASE SelectData
  <2> DEFINE q == tt.fromSocksCh
             c == Head(q)
             hi == IF rd.pc = "push" THEN rd.buf.off ELSE h.srvRead
             u == Acked(tt)
  <2>0. hi \in Nat
    BY <1>0 DEF History, ReaderLocals, Chunk
  <2>1. /\ q \in Seq(Chunk) /\ q # <<>>
        /\ h.lost \in Nat /\ h.emitted \in Nat /\ h.fins \in Nat
        /\ h.lost + h.emitted \in Nat /\ h.fins <= MaxFins
    BY <1>0, <1>3 DEF SelectData, Track, History, DownInv
  <2>2. Contiguous(q, h.lost + h.emitted, hi)
    BY DEF DownInv, DownstreamFifo
  <2>3. /\ u \in Track /\ u.nxtSeq = tt.nxtSeq /\ u.fromSocksCh = q
        /\ u.connectState = tt.connectState
    BY <1>0, AckedFlow DEF SameFlow
  <2>4. tt' = [u EXCEPT !.nxtSeq = SeqAdd(@, c.len), !.fromSocksCh = Tail(@)]
          /\ h' = [h EXCEPT !.emitted = @ + c.len] /\ rd' = rd
    BY <1>3 DEF SelectData
  <2>5. \A i \in 1 .. Len(q) : q[i].off + q[i].len <= ServerBytes
    BY DEF DownInv
  <2> HIDE DEF q, hi, u
  <2>6. /\ c \in Chunk /\ Tail(q) \in Seq(Chunk)
        /\ c.off = h.lost + h.emitted
        /\ Contiguous(Tail(q), (h.lost + h.emitted) + c.len, hi)
    BY <2>0, <2>1, <2>2, ContiguousTail
  <2>7. c.off + c.len <= ServerBytes /\ c.len \in Nat
    <3>1. 1 \in 1 .. Len(q) /\ c = q[1]
      BY <2>1
    <3> QED
      BY <2>5, <2>6, <3>1, Bounds DEF Chunk
  <2>8. \A i \in 1 .. Len(Tail(q)) :
           Tail(q)[i].off + Tail(q)[i].len <= ServerBytes
    <3>1. /\ Len(Tail(q)) = Len(q) - 1 /\ Len(q) \in Nat
          /\ \A i \in 1 .. Len(Tail(q)) : Tail(q)[i] = q[i + 1]
      BY <2>1
    <3>2. \A i \in 1 .. Len(Tail(q)) : i + 1 \in 1 .. Len(q)
      BY <3>1
    <3> QED
      BY <2>5, <3>1, <3>2
  <2>9. /\ tt'.nxtSeq = SeqAdd(tt.nxtSeq, c.len)
        /\ tt'.fromSocksCh = Tail(q) /\ tt'.connectState = tt.connectState
    BY <2>3, <2>4 DEF Track
  <2>10. /\ h'.emitted = h.emitted + c.len /\ h'.lost = h.lost
         /\ h'.srvRead = h.srvRead /\ h'.fins = h.fins
         /\ h'.answer = h.answer
    <3> HIDE DEF c
    <3> QED
      BY <1>0, <2>4 DEF History
  <2> HIDE DEF c
  <2>11. h'.lost + h'.emitted = (h.lost + h.emitted) + c.len
    BY <2>1, <2>7, <2>10
  <2>12. (h.answer = "synack" =>
            tt.nxtSeq = SeqAdd(2, h.emitted + h.fins))'
    <3> DEFINE x == h.emitted + h.fins
    <3>0. h.emitted + c.len <= ServerBytes
      BY <2>1, <2>6, <2>7, Bounds
    <3>1. /\ x \in Nat /\ x + c.len < SeqMod /\ 2 \in Seqs
      <4>1. /\ 2 \in Seqs /\ SeqMod \in Nat /\ ServerBytes \in Nat
            /\ MaxFins \in Nat /\ ServerBytes + MaxFins < SeqMod
        BY Bounds DEF Seqs
      <4>2. /\ h.emitted \in Nat /\ h.fins \in Nat /\ c.len \in Nat
            /\ h.fins <= MaxFins
        BY <2>1, <2>7
      <4> QED
        BY <3>0, <4>1, <4>2
    <3>2. h'.emitted + h'.fins = x + c.len
      BY <2>1, <2>7, <2>10
    <3>3. h.answer = "synack" => tt.nxtSeq = SeqAdd(2, x)
      BY DEF DownInv, DownstreamFifo
    <3> HIDE DEF x
    <3>4. SeqAdd(SeqAdd(2, x), c.len) = SeqAdd(2, x + c.len)
      BY <2>7, <3>1, SeqAddAssociative
    <3> QED
      BY <2>9, <2>10, <3>2, <3>3, <3>4
  <2>13. tt.connectState = "ESTABLISHED"
    BY <2>1 DEF DownInv, q
  <2>14. Contiguous(tt.fromSocksCh, h.lost + h.emitted,
                    IF rd.pc = "push" THEN rd.buf.off ELSE h.srvRead)'
    BY <2>4, <2>6, <2>9, <2>10, <2>11 DEF hi
  <2>15. (rd.pc = "push" => rd.buf.off + rd.buf.len = h.srvRead)'
    BY <2>4, <2>10 DEF DownInv, DownstreamFifo
  <2>16. h'.lost + h'.emitted <= ServerBytes /\ h'.srvRead <= ServerBytes
    BY <2>6, <2>7, <2>10, <2>11 DEF DownInv
  <2> QED
    BY <2>1, <2>8, <2>9, <2>10, <2>12, <2>13, <2>14, <2>15, <2>16
       DEF DownInv, DownstreamFifo
<1>4. ASSUME NEW s \in Segments, SelectInput(s) PROVE DownInv'
  <2>1. /\ tt'.fromSocksCh = tt.fromSocksCh
        /\ tt'.connectState = tt.connectState /\ SameDown
        /\ Dials \/ GivesUp \/ Keeps \/ TakesPayload(s) \/ TakesFin
        /\ IF tt.state = "SYN_RCVD" /\ tt'.state = "ESTABLISHED"
             THEN rd' = [rd EXCEPT !.pc = "boot"] ELSE WakeReader
    BY <1>0, <1>4, Inputs DEF InputEffect, SameCounts, SameDown
  <2>2. ~RunGone
    BY <1>4 DEF SelectInput, RunAt, RunGone
  <2>3. /\ rd'.pc = "push" => rd.pc = "push" /\ rd'.buf = rd.buf
        /\ rd.pc = "push" => rd'.pc = "push"
    <3>1. tt.state = "SYN_RCVD" => rd.pc = "none"
      BY <1>0, <2>2 DEF Opening
    <3> QED
      BY <1>0, <2>1, <3>1 DEF WakeReader, ReaderLocals
  <2>4. Numbered
    <3>1. CASE TakesFin
      BY <1>0, <2>2, <3>1, Bounds DEF TakesFin, Opening, Numbered
    <3>2. CASE Dials \/ GivesUp \/ Keeps \/ TakesPayload(s)
      BY <3>2 DEF Dials, GivesUp, Keeps, TakesPayload, SameSocket, Numbered
    <3> QED
      BY <2>1, <3>1, <3>2
  <2> QED
    BY <1>0, <2>1, <2>3, <2>4, DownFrame
<1> QED
  BY <1>1, <1>2, <1>3, <1>4 DEF SelectStep

LEMMA DownReaderStep ==
    ASSUME OpenInv, DownInv,
           \/ ReaderStep \/ HandshakeFails \/ ReaderConnectReply
           \/ ReaderReadFails
           \/ \E r \in SocksReplies : HandshakeAnswered(r)
           \/ \E n \in 1 .. MaxSeg : ReaderRead(n)
    PROVE  DownInv'
<1>0. TypeOK /\ Opening
  BY DEF OpenInv
<1> USE DEF TypeOK
<1>1. ASSUME tt'.fromSocksCh = tt.fromSocksCh, tt'.nxtSeq = tt.nxtSeq,
             tt'.connectState \in {tt.connectState, "ESTABLISHED"},
             h' = h, rd.pc # "push", rd'.pc # "push"
      PROVE  DownInv'
  BY <1>0, <1>1, DownFrame DEF SameDown, Numbered
<1>2. CASE ReaderBoot
  <2>1. PICK u \in UidValues :
           LET t == [tt EXCEPT !.uid = u]
           IN /\ tt' = t \/ tt' = Ready(t)
              /\ RdGoto("handshake") \/ RdGoto("loop")
    BY <1>0, <1>2 DEF ReaderBoot, FindAppUid, StartWriter, Track
  <2> DEFINE t == [tt EXCEPT !.uid = u]
  <2>2. /\ t \in Track /\ t.fromSocksCh = tt.fromSocksCh
        /\ t.connectState = tt.connectState /\ t.nxtSeq = tt.nxtSeq
    BY <1>0 DEF Track
  <2>3. tt' = t \/ tt' = Ready(t)
    BY <2>1
  <2> HIDE DEF t
  <2>4. /\ tt'.fromSocksCh = tt.fromSocksCh /\ tt'.nxtSeq = tt.nxtSeq
        /\ tt'.connectState \in {tt.connectState, "ESTABLISHED"}
    BY <2>2, <2>3, ReadyFlow
  <2>5. rd.pc = "boot" /\ rd'.pc \in {"handshake", "loop"}
    BY <1>0, <1>2, <2>1 DEF ReaderBoot, RdAt, RdGoto, ReaderLocals
  <2> QED
    BY <1>1, <1>2, <2>4, <2>5 DEF ReaderBoot
<1>3. ASSUME NEW r \in SocksReplies, HandshakeAnswered(r) PROVE DownInv'
  <2> DEFINE u == Ready(tt)
  <2>1. /\ u \in Track /\ u.fromSocksCh = tt.fromSocksCh
        /\ u.nxtSeq = tt.nxtSeq
        /\ u.connectState \in {tt.connectState, "ESTABLISHED"}
    BY <1>0, ReadyFlow
  <2>2. tt' = u \/ tt' = [u EXCEPT !.socksConn = "closed",
                                  !.socksCloseCh = TRUE]
    BY <1>3 DEF HandshakeAnswered
  <2> HIDE DEF u
  <2>3. /\ tt'.fromSocksCh = tt.fromSocksCh /\ tt'.nxtSeq = tt.nxtSeq
        /\ tt'.connectState \in {tt.connectState, "ESTABLISHED"}
    BY <2>1, <2>2 DEF Track
  <2>4. rd.pc = "handshake" /\ rd'.pc = "loop"
    BY <1>0, <1>3
       DEF HandshakeAnswered, StartWriter, RdAt, RdGoto, ReaderLocals
  <2>5. tt.connectState # "ESTABLISHED"
    BY <1>0, <2>4 DEF Opening
  <2>6. h' = h \/ \E n \in 0 .. MaxSeg : Swallow(n)
    BY <1>3 DEF HandshakeAnswered
  <2> QED
    BY <1>0, <1>1, <2>3, <2>4, <2>5, <2>6, DownSwallow
<1>4. CASE ReaderConnectReply
  <2>1. /\ tt.connectState # "ESTABLISHED" /\ rd'.pc = "bcast"
        /\ tt'.fromSocksCh = tt.fromSocksCh /\ tt'.nxtSeq = tt.nxtSeq
    BY <1>0, <1>4 DEF ReaderConnectReply, RdGoto, ReaderLocals, Track
  <2>2. PICK n \in 0 .. MaxSeg : Swallow(n)
    BY <1>4 DEF ReaderConnectReply
  <2> QED
    BY <1>0, <2>1, <2>2, DownSwallow
<1>5. ASSUME NEW n \in 1 .. MaxSeg, ReaderRead(n) PROVE DownInv'
  <2>1. /\ tt' = tt /\ rd.pc = "read" /\ rd'.pc = "push"
        /\ rd'.buf.off = h.srvRead /\ rd'.buf.len = n
        /\ tt.connectState = "ESTABLISHED"
        /\ h.srvRead + n <= ServerBytes
    BY <1>0, <1>5 DEF ReaderRead, RdAt, ReaderLocals
  <2>2. /\ h'.srvRead = h.srvRead + n /\ h'.lost = h.lost
        /\ h'.emitted = h.emitted /\ h'.fins = h.fins
        /\ h'.answer = h.answer
    BY <1>0, <1>5 DEF ReaderRead, History
  <2> QED
    BY <2>1, <2>2 DEF DownInv, DownstreamFifo
<1>6. CASE ReaderPush
  <2> DEFINE q == tt.fromSocksCh
             c == rd.buf
  <2>0. q \in Seq(Chunk) /\ rd.pc = "push"
    BY <1>0, <1>6 DEF ReaderPush, RdAt, Track
  <2>1. c \in Chunk /\ c.off \in Nat /\ h.lost + h.emitted \in Nat
    BY <1>0 DEF ReaderLocals, Chunk, History
  <2>2. /\ Contiguous(q, h.lost + h.emitted, c.off)
        /\ c.off + c.len = h.srvRead /\ h.srvRead <= ServerBytes
        /\ tt.connectState = "ESTABLISHED"
        /\ \A i \in 1 .. Len(q) : q[i].off + q[i].len <= ServerBytes
    BY <2>0 DEF DownInv, DownstreamFifo
  <2>3. /\ tt'.fromSocksCh = Append(q, c) /\ tt'.nxtSeq = tt.nxtSeq
        /\ tt'.connectState = tt.connectState /\ rd'.pc = "cas" /\ h' = h
    BY <1>0, <1>6 DEF ReaderPush, RdGoto, ReaderLocals, Track
  <2> HIDE DEF q, c
  <2>4. Contiguous(Append(q, c), h.lost + h.emitted, c.off + c.len)
    BY <2>0, <2>1, <2>2, ContiguousAppend
  <2>5. \A i \in 1 .. Len(Append(q, c)) :
           Append(q, c)[i].off + Append(q, c)[i].len <= ServerBytes
    <3>1. /\ Len(Append(q, c)) = Len(q) + 1 /\ Len(q) \in Nat
          /\ Append(q, c)[Len(q) + 1] = c
          /\ \A i \in 1 .. Len(q) : Append(q, c)[i] = q[i]
      BY <2>0, <2>1
    <3> QED
      BY <2>2, <3>1
  <2> QED
    BY <2>2, <2>3, <2>4, <2>5 DEF DownInv, DownstreamFifo
<1>7. CASE HandshakeFails \/ ReaderFailed \/ ReaderShrinkWindow
  <2>1. /\ tt'.fromSocksCh = tt.fromSocksCh /\ tt'.nxtSeq = tt.nxtSeq
        /\ tt'.connectState = tt.connectState /\ h' = h
    BY <1>0, <1>7
       DEF HandshakeFails, ReaderFailed, ReaderShrinkWindow, Track
  <2>2. rd.pc # "push" /\ rd'.pc # "push"
    BY <1>0, <1>7 DEF HandshakeFails, ReaderFailed, ReaderShrinkWindow,
       RdAt, RdGoto, ReaderLocals
  <2> QED
    BY <1>1, <2>1, <2>2
<1>8. CASE ReaderEnd
  <2>1. /\ tt'.fromSocksCh = tt.fromSocksCh /\ tt'.nxtSeq = tt.nxtSeq
        /\ tt'.connectState = tt.connectState /\ h' = h
    BY <1>0, <1>8 DEF ReaderEnd, Track
  <2>2. rd.pc # "push" /\ rd'.pc # "push"
    BY <1>0, <1>8 DEF ReaderEnd, RdAt, RdGoto, ReaderLocals
  <2> QED
    BY <1>1, <2>1, <2>2
<1>9. CASE ReaderLoop \/ ReaderWoken
  <2>0. LeaveLoop => rd'.pc = "end"
    BY DEF LeaveLoop
  <2>1. rd.pc # "push" /\ rd'.pc # "push"
    BY <1>0, <1>9, <2>0 DEF ReaderLoop, ReaderWoken, RdAt, ReaderLocals
  <2> QED
    BY <1>1, <1>9, <2>1 DEF ReaderLoop, ReaderWoken
<1>10. CASE \/ ReaderWait \/ ReaderSpin \/ ReaderReadFails
            \/ ReaderBroadcast
  <2>1. rd.pc # "push" /\ rd'.pc # "push"
    BY <1>0, <1>10 DEF ReaderWait, ReaderSpin, ReaderReadFails,
       ReaderBroadcast, LeaveLoop, RdAt, RdGoto, ReaderLocals
  <2> QED
    BY <1>1, <1>10, <2>1 DEF ReaderWait, ReaderSpin, ReaderReadFails,
       ReaderBroadcast
<1> QED
  BY <1>2, <1>3, <1>4, <1>5, <1>6, <1>7, <1>8, <1>9, <1>10 DEF ReaderStep

LEMMA DownWriterStep ==
    ASSUME OpenInv, DownInv, WriterStep \/ WriterWrite PROVE DownInv'
<1>0. TypeOK /\ Opening
  BY DEF OpenInv
<1> USE DEF TypeOK
<1>1. CASE WriterTake \/ WriterSent
  <2>1. /\ tt'.fromSocksCh = tt.fromSocksCh /\ tt'.nxtSeq = tt.nxtSeq
        /\ tt'.connectState # "ESTABLISHED" =>
              tt.connectState # "ESTABLISHED"
    BY <1>0, <1>1 DEF WriterTake, WriterSent, WrAt, Opening, Track
  <2> QED
    BY <1>0, <1>1, <2>1, DownFrame
       DEF WriterTake, WriterSent, SameDown, Numbered
<1>2. CASE WriterConnect \/ WriterWrite
  <2>1. SameDown /\ h'.fins = h.fins
    BY <1>0, <1>2 DEF WriterConnect, WriterWrite, History, SameDown
  <2> QED
    BY <1>0, <1>2, <2>1, DownFrame DEF WriterConnect, WriterWrite, Numbered
<1>3. CASE WriterCreditStore
  <2>1. SameDown /\ h'.fins = h.fins
    BY <1>0, <1>3 DEF WriterCreditStore, History, SameDown
  <2>2. /\ tt'.fromSocksCh = tt.fromSocksCh /\ tt'.nxtSeq = tt.nxtSeq
        /\ tt'.connectState = tt.connectState
    BY <1>0, <1>3 DEF WriterCreditStore, Track
  <2> QED
    BY <1>0, <1>3, <2>1, <2>2, DownFrame DEF WriterCreditStore, Numbered
<1>4. CASE WriterExit \/ WriterCheck \/ WriterWait \/ WriterCreditLoad
  BY <1>0, <1>4, DownFrame DEF WriterExit, WriterCheck, WriterWait,
     WriterCreditLoad, SameDown, Numbered
<1> QED
  BY <1>1, <1>2, <1>3, <1>4 DEF WriterStep

LEMMA DownStep == ASSUME OpenInv, DownInv, [Next]_vars PROVE DownInv'
<1>0. TypeOK
  BY DEF OpenInv
<1>1. CASE UNCHANGED vars
  BY <1>0, <1>1, DownFrame DEF vars, SameDown, Numbered
<1>2. CASE Stop \/ StopReturns \/ Supersede \/ PeerResets
  <2>1. /\ tt'.fromSocksCh = tt.fromSocksCh /\ tt'.nxtSeq = tt.nxtSeq
        /\ tt'.connectState = tt.connectState
    BY <1>0, <1>2 DEF TypeOK, Stop, StopReturns, Supersede,
       PeerResets, Track
  <2> QED
    BY <1>0, <1>2, <2>1, DownFrame
       DEF Stop, StopReturns, Supersede, PeerResets, SameDown, Numbered
<1>3. CASE ForeignClear
  <2>1. /\ tt'.fromSocksCh = tt.fromSocksCh /\ tt'.nxtSeq = tt.nxtSeq
        /\ tt'.connectState = tt.connectState
    BY <1>0, <1>3 DEF TypeOK, ForeignClear, Track
  <2>2. /\ rd'.pc = "push" => rd.pc = "push" /\ rd'.buf = rd.buf
        /\ rd.pc = "push" => rd'.pc = "push"
    BY <1>0, <1>3 DEF TypeOK, ForeignClear, WakeReader, ReaderLocals
  <2> QED
    BY <1>0, <1>3, <2>1, <2>2, DownFrame
       DEF ForeignClear, SameDown, Numbered
<1>4. CASE Next
  BY <1>2, <1>3, <1>4, DownRunStep, DownSelectStep, DownReaderStep,
     DownWriterStep DEF Next, PeerStep, SocketStep, Environment
<1> QED
  BY <1>1, <1>4

\* For streams, windows and queues of any size: the server's bytes are sent to
\* the device in the order they were read, none twice and none skipped behind
\* the proxy's reply, each with the sequence number of its place.
THEOREM AlwaysDownstreamFifo == Spec => []DownstreamFifo
<1>1. Init => DownInv
  BY Bounds DEF Init, DownInv, DownstreamFifo, Contiguous
<1>2. OpenInv /\ DownInv /\ [Next]_vars => DownInv'
  BY DownStep
<1>3. DownInv => DownstreamFifo
  BY DEF DownInv
<1> QED
  BY <1>1, <1>2, <1>3, OpenInvariant, PTL DEF Spec
-----------------------------------------------------------------------------
(* How much is on the way.  No induction over a queue is available, so the  *)
(* invariant says of every chunk that what was put on the way since fits in *)
(* it and in the chunks behind it; the first chunk then bounds the whole.   *)

Packed(q, hi) ==
    \A i \in 1 .. Len(q) :
       /\ q[i].off <= hi
       /\ hi - q[i].off <= ((Len(q) - i) + 1) * MaxSeg

LEMMA OneMore ==
    ASSUME NEW n \in Nat
    PROVE  /\ n * MaxSeg \in Nat
           /\ (n + 1) * MaxSeg = n * MaxSeg + MaxSeg
BY Bounds

LEMMA NoMore ==
    ASSUME NEW m \in Nat, NEW n \in Nat, m <= n
    PROVE  m * MaxSeg <= n * MaxSeg
BY Bounds

LEMMA PackedAppend ==
    ASSUME NEW q \in Seq(Chunk), NEW c \in Chunk, NEW hi \in Nat,
           Packed(q, hi), c.off = hi
    PROVE  Packed(Append(q, c), hi + c.len)
<1> DEFINE a == Append(q, c)
<1>1. /\ Len(a) = Len(q) + 1 /\ a[Len(q) + 1] = c /\ Len(q) \in Nat
      /\ \A i \in 1 .. Len(q) : a[i] = q[i] /\ q[i] \in Chunk
  OBVIOUS
<1>2. c.len \in Nat /\ c.len <= MaxSeg /\ MaxSeg \in Nat
  BY Bounds DEF Chunk
<1> HIDE DEF a
<1>3. ASSUME NEW i \in 1 .. Len(a)
      PROVE  /\ a[i].off <= hi + c.len
             /\ (hi + c.len) - a[i].off <= ((Len(a) - i) + 1) * MaxSeg
  <2>1. CASE i = Len(q) + 1
    <3>1. (Len(a) - i) + 1 = 1
      BY <1>1, <2>1
    <3>2. 1 * MaxSeg = MaxSeg
      BY <1>2
    <3> QED
      BY <1>1, <1>2, <2>1, <3>1, <3>2
  <2>2. CASE i # Len(q) + 1
    <3> DEFINE n == (Len(q) - i) + 1
    <3>1. i \in 1 .. Len(q) /\ n \in Nat /\ (Len(a) - i) + 1 = n + 1
      BY <1>1, <1>3, <2>2
    <3>2. /\ a[i] = q[i] /\ q[i].off \in Nat /\ q[i].off <= hi
          /\ hi - q[i].off <= n * MaxSeg
      BY <1>1, <3>1 DEF Packed, Chunk
    <3> HIDE DEF n
    <3>3. n * MaxSeg \in Nat /\ (n + 1) * MaxSeg = n * MaxSeg + MaxSeg
      BY <3>1, OneMore
    <3>4. ((Len(a) - i) + 1) * MaxSeg = n * MaxSeg + MaxSeg
      BY <3>1, <3>3
    <3> DEFINE p == n * MaxSeg
    <3>5. p \in Nat /\ hi - q[i].off <= p
      BY <3>2, <3>3
    <3> HIDE DEF p
    <3> DEFINE off == q[i].off
               len == c.len
    <3>6. /\ off \in Nat /\ off <= hi /\ hi - off <= p
          /\ len \in Nat /\ len <= MaxSeg
      BY <1>2, <3>2, <3>5
    <3>7. (hi + c.len) - q[i].off <= p + MaxSeg /\ q[i].off <= hi + c.len
      <4> HIDE DEF off, len
      <4>1. (hi + len) - off <= p + MaxSeg /\ off <= hi + len
        BY <1>2, <3>5, <3>6
      <4> QED
        BY <4>1 DEF off, len
    <3> QED
      BY <3>2, <3>4, <3>7 DEF p
  <2> QED
    BY <2>1, <2>2
<1> QED
  BY <1>3 DEF Packed, a

LEMMA PackedTail ==
    ASSUME NEW q \in Seq(Chunk), q # <<>>, NEW hi \in Nat, Packed(q, hi)
    PROVE  Packed(Tail(q), hi) /\ Len(Tail(q)) = Len(q) - 1
<1> DEFINE r == Tail(q)
<1>1. /\ Len(r) = Len(q) - 1 /\ Len(q) \in Nat \ {0}
      /\ \A i \in 1 .. Len(r) : r[i] = q[i + 1]
  OBVIOUS
<1> HIDE DEF r
<1>2. ASSUME NEW i \in 1 .. Len(r)
      PROVE  /\ r[i].off <= hi
             /\ hi - r[i].off <= ((Len(r) - i) + 1) * MaxSeg
  <2>1. /\ i + 1 \in 1 .. Len(q) /\ r[i] = q[i + 1]
        /\ (Len(q) - (i + 1)) + 1 = (Len(r) - i) + 1
    BY <1>1
  <2> QED
    BY <2>1 DEF Packed
<1> QED
  BY <1>1, <1>2 DEF Packed, r

\* So a queue of at most cap chunks holds at most cap * MaxSeg bytes.
LEMMA PackedBound ==
    ASSUME NEW q \in Seq(Chunk), NEW lo \in Nat, NEW hi \in Nat,
           NEW cap \in Nat, Contiguous(q, lo, hi), Packed(q, hi),
           Len(q) <= cap
    PROVE  /\ cap * MaxSeg \in Nat
           /\ lo <= hi /\ hi - lo <= cap * MaxSeg
<1>0. cap * MaxSeg \in Nat
  BY OneMore
<1>1. CASE q = <<>>
  BY <1>0, <1>1 DEF Contiguous
<1>2. CASE q # <<>>
  <2>1. Len(q) \in Nat \ {0} /\ 1 \in 1 .. Len(q)
    BY <1>2
  <2>2. (Len(q) - 1) + 1 = Len(q)
    BY <2>1
  <2>3. /\ q[1].off = lo /\ q[1].off <= hi
        /\ hi - q[1].off <= Len(q) * MaxSeg
    BY <1>2, <2>1, <2>2 DEF Contiguous, Packed
  <2>4. Len(q) * MaxSeg <= cap * MaxSeg /\ Len(q) * MaxSeg \in Nat
    BY <2>1, NoMore, OneMore
  <2> QED
    BY <1>0, <2>3, <2>4
<1> QED
  BY <1>1, <1>2
-----------------------------------------------------------------------------
(* The way to the server.  The socket is dialled once, in CLOSED, and never  *)
(* opens again, so that a way once cut stays cut.                            *)

ServerCut == tt.socksConn \in {"broken", "closed"}

Undialled == ~RunGone => (tt.state = "CLOSED" <=> tt.socksConn = "nil")

UpPipe ==
    /\ Undialled
    /\ Len(tt.toSocksCh) <= ToSocksCap
    /\ Packed(tt.toSocksCh, h.relayed)

QuietUp ==
    /\ tt'.toSocksCh = tt.toSocksCh
    /\ h'.relayed = h.relayed /\ h'.delivered = h.delivered

\* What any step does to the way: three steps move bytes, the others none.
UpMove ==
    /\ Undialled'
    /\ ServerCut => ServerCut'
    /\ QuietUp \/ RelayEnqueue \/ WriterTake \/ WriterWrite

LEMMA UpMoveFrame ==
    ASSUME TypeOK', Undialled,
           tt'.socksConn = "nil" => tt.socksConn = "nil",
           tt'.socksConn = "open" => tt.socksConn = "open",
           \/ RunGone'
           \/ /\ ~RunGone
              /\ tt'.state = "CLOSED" <=> tt.state = "CLOSED"
              /\ tt.socksConn = "nil" => tt'.socksConn = "nil",
           QuietUp \/ RelayEnqueue \/ WriterTake \/ WriterWrite
    PROVE  UpMove
<1>1. Undialled'
  BY DEF Undialled
<1>2. ServerCut => ServerCut'
  BY DEF ServerCut, TypeOK, Track
<1> QED
  BY <1>1, <1>2 DEF UpMove

LEMMA UpMoveRunStep ==
    ASSUME OpenInv, Undialled, TypeOK', RunStep PROVE UpMove
<1>0. TypeOK /\ Opening
  BY DEF OpenInv
<1>1. CASE RunTop
  BY <1>0, <1>1, TopFlow, UpMoveFrame DEF SameFlow, QuietUp, RunGone
<1>2. CASE SelectQuit
  <2>1. /\ tt'.toSocksCh = tt.toSocksCh /\ h' = h /\ RunGone'
        /\ tt'.socksConn = "nil" => tt.socksConn = "nil"
        /\ tt'.socksConn # "open"
    BY <1>0, <1>2
       DEF SelectQuit, Closed, RunGoto, RunGone, TypeOK, RunLocals, Track
  <2> QED
    BY <2>1, UpMoveFrame DEF QuietUp
<1>3. CASE ClearTrack
  <2>1. /\ tt'.toSocksCh = tt.toSocksCh /\ h' = h /\ RunGone'
        /\ tt'.socksConn = tt.socksConn
    BY <1>0, <1>3 DEF ClearTrack, RunGoto, RunGone, TypeOK, RunLocals, Track
  <2> QED
    BY <2>1, UpMoveFrame DEF QuietUp
<1>4. CASE DialFails
  <2>1. tt.state = "CLOSED" /\ ~RunGone
    BY <1>0, <1>4 DEF DialFails, RunAt, RunGone, Opening
  <2>2. tt.socksConn = "nil"
    BY <2>1 DEF Undialled
  <2>3. /\ tt'.toSocksCh = tt.toSocksCh /\ h' = h /\ RunGone'
        /\ tt'.socksConn # "open"
    BY <1>0, <1>4 DEF DialFails, RunGoto, RunGone, TypeOK, RunLocals, Track
  <2> QED
    BY <2>2, <2>3, UpMoveFrame DEF QuietUp
<1>5. CASE DialSucceeds
  <2>1. tt.state = "CLOSED" /\ ~RunGone
    BY <1>0, <1>5 DEF DialSucceeds, RunAt, RunGone, Opening
  <2>2. tt.socksConn = "nil"
    BY <2>1 DEF Undialled
  <2>3. tt'.socksConn = "open"
    <3> DEFINE v == Acked([tt EXCEPT !.rcvNxtSeq = SeqAdd(Isn, 1)])
    <3>1. v \in Track
      <4> DEFINE t == [tt EXCEPT !.rcvNxtSeq = SeqAdd(Isn, 1)]
      <4>1. t \in Track
        <5>1. SeqAdd(Isn, 1) \in Seqs
          BY Bounds, SeqAddType DEF Seqs
        <5> QED
          BY <1>0, <5>1 DEF TypeOK, Track
      <4> HIDE DEF t
      <4>2. Acked(t) \in Track
        BY <4>1, AckedType
      <4> QED
        BY <4>2 DEF t
    <3>2. tt' = [v EXCEPT !.socksConn = "open", !.state = "SYN_RCVD",
                          !.nxtSeq = 2]
      BY <1>5 DEF DialSucceeds
    <3> HIDE DEF v
    <3> QED
      BY <3>1, <3>2 DEF Track
  <2>4. QuietUp /\ tt'.state = "SYN_RCVD"
    BY <1>0, <1>5, DialFlow DEF SameFlow, QuietUp
  <2> QED
    BY <2>2, <2>3, <2>4 DEF UpMove, Undialled, ServerCut
<1>6. CASE RelayEnqueue
  <2>1. /\ tt'.socksConn = tt.socksConn /\ tt'.state = tt.state
        /\ ~RunGone
    BY <1>0, <1>6 DEF RelayEnqueue, RunAt, RunGone, TypeOK, Track
  <2> QED
    BY <1>6, <2>1, UpMoveFrame
<1>7. ASSUME NEW fin \in BOOLEAN, RelayDone(fin), run.pc \in {"relay", "fin"}
      PROVE  UpMove
  <2>1. h'.relayed = h.relayed /\ h'.delivered = h.delivered
    BY <1>0, <1>7 DEF RelayDone, CountFin, TypeOK, History
  <2>2. tt.state = "ESTABLISHED" /\ ~RunGone
    BY <1>0, <1>7 DEF Opening, RunGone
  <2>3. tt' = tt \/ tt' = FinTaken(tt)
    BY <1>7 DEF RelayDone
  <2>4. /\ tt'.toSocksCh = tt.toSocksCh
        /\ tt'.state \in {"ESTABLISHED", "LAST_ACK"}
        /\ tt'.socksConn = "nil" => tt.socksConn = "nil"
        /\ tt'.socksConn = "open" => tt.socksConn = "open"
    BY <1>0, <2>2, <2>3, FinTakenFlow DEF SameFlow, TypeOK
  <2>5. tt.socksConn # "nil"
    BY <2>2 DEF Undialled
  <2> QED
    BY <2>1, <2>2, <2>4, <2>5, UpMoveFrame DEF QuietUp
<1>8. CASE RelayRefused
  BY <1>7, <1>8 DEF RelayRefused, RunAt
<1>9. CASE RelayFin
  BY <1>7, <1>9 DEF RelayFin, RunAt
<1>10. CASE RelayWindowLoad \/ RelayWindowStore
  <2>1. /\ tt'.toSocksCh = tt.toSocksCh /\ h' = h
        /\ tt'.socksConn = tt.socksConn /\ tt'.state = tt.state
        /\ ~RunGone
    BY <1>0, <1>10 DEF RelayWindowLoad, RelayWindowStore, RunAt, RunGone,
       TypeOK, Track
  <2> QED
    BY <2>1, UpMoveFrame DEF QuietUp
<1>11. CASE DialPanics
  <2>1. ~RunGone
    BY <1>11 DEF DialPanics, RunAt, RunGone
  <2> QED
    BY <1>11, <2>1, UpMoveFrame DEF DialPanics, QuietUp
<1> QED
  BY <1>1, <1>2, <1>3, <1>4, <1>5, <1>6, <1>8, <1>9, <1>10, <1>11
     DEF RunStep

LEMMA UpMoveSelectStep ==
    ASSUME OpenInv, Undialled, TypeOK', SelectStep PROVE UpMove
<1>0. TypeOK
  BY DEF OpenInv
<1>1. CASE SelectTimeout
  <2>1. /\ tt'.socksConn = "nil" => tt.socksConn = "nil"
        /\ tt'.socksConn # "open" /\ tt' = Ended(tt)
    BY <1>0, <1>1, EndedFlow DEF SelectTimeout, TypeOK
  <2>2. RunGone'
    BY <1>0, <1>1 DEF SelectTimeout, RunGoto, RunGone, TypeOK, RunLocals
  <2> QED
    BY <1>0, <1>1, <2>1, <2>2, EventFlow, UpMoveFrame DEF QuietUp
<1>2. CASE SelectAck \/ SelectData
  <2> DEFINE u == Acked(tt)
  <2>1. u \in Track /\ u.socksConn = tt.socksConn /\ u.state = tt.state
    BY <1>0, AckedFlow DEF TypeOK
  <2>2. \/ tt' = tt \/ tt' = u
        \/ \E n : tt' = [u EXCEPT !.nxtSeq = SeqAdd(@, n),
                                  !.fromSocksCh = Tail(@)]
    BY <1>2 DEF SelectAck, SelectData
  <2> HIDE DEF u
  <2>3. tt'.socksConn = tt.socksConn /\ tt'.state = tt.state
    BY <2>1, <2>2 DEF Track
  <2>4. ~RunGone
    BY <1>2 DEF SelectAck, SelectData, RunAt, RunGone
  <2> QED
    BY <1>0, <1>2, <2>3, <2>4, EventFlow, UpMoveFrame DEF QuietUp
<1>3. CASE SelectClose
  <2> DEFINE u == FinAcked(tt)
  <2>1. u \in Track /\ u.socksConn = tt.socksConn
    BY <1>0, FinAckedFlow DEF TypeOK
  <2>2. tt' = [u EXCEPT !.state = "FIN_WAIT_1"] /\ ~RunGone /\ run.armed
    BY <1>3 DEF SelectClose, RunAt, RunGone
  <2> HIDE DEF u
  <2>3. tt'.socksConn = tt.socksConn /\ tt'.state = "FIN_WAIT_1"
    BY <2>1, <2>2 DEF Track
  <2>4. tt.state # "CLOSED"
    BY <2>2 DEF OpenInv, Opening
  <2> QED
    BY <1>0, <1>3, <2>2, <2>3, <2>4, EventFlow, UpMoveFrame DEF QuietUp
<1>4. ASSUME NEW s \in Segments, SelectInput(s) PROVE UpMove
  <2>1. InputEffect(s) /\ ~RunGone
    BY <1>0, <1>4, Inputs DEF SelectInput, RunAt, RunGone
  <2>2. QuietUp
    BY <2>1 DEF InputEffect, SameCounts, QuietUp
  <2>3. CASE GivesUp
    BY <2>2, <2>3, UpMoveFrame DEF GivesUp, RunGone
  <2>4. CASE Dials \/ Keeps \/ TakesPayload(s)
    BY <2>1, <2>2, <2>4, UpMoveFrame
       DEF Dials, Keeps, TakesPayload, SameSocket, Served
  <2>5. CASE TakesFin
    <3>1. tt.socksConn # "nil"
      BY <2>1, <2>5 DEF TakesFin, Undialled
    <3> QED
      BY <2>1, <2>2, <2>5, <3>1, UpMoveFrame DEF TakesFin
  <2> QED
    BY <2>1, <2>3, <2>4, <2>5 DEF InputEffect
<1> QED
  BY <1>1, <1>2, <1>3, <1>4 DEF SelectStep

LEMMA UpMoveReaderStep ==
    ASSUME OpenInv, Undialled, TypeOK',
           \/ ReaderStep \/ HandshakeFails \/ ReaderConnectReply
           \/ ReaderReadFails
           \/ \E r \in SocksReplies : HandshakeAnswered(r)
           \/ \E n \in 1 .. MaxSeg : ReaderRead(n)
    PROVE  UpMove
<1>0. TypeOK /\ Opening
  BY DEF OpenInv
<1>1. ASSUME QuietUp, run' = run, tt'.state = tt.state,
             \/ tt'.socksConn = tt.socksConn
             \/ rd.pc = "handshake" /\ tt'.socksConn = "closed"
      PROVE  UpMove
  <2>1. RunGone' = RunGone
    BY <1>1 DEF RunGone
  <2>2. CASE tt'.socksConn = tt.socksConn
    BY <1>1, <2>1, <2>2, UpMoveFrame
  <2>3. CASE rd.pc = "handshake" /\ tt'.socksConn = "closed"
    <3>1. ~RunGone => tt.state # "CLOSED"
      BY <1>0, <2>3 DEF Opening
    <3>2. ~RunGone => tt.socksConn # "nil"
      BY <3>1 DEF Undialled
    <3> QED
      BY <1>1, <2>1, <2>3, <3>2, UpMoveFrame
  <2> QED
    BY <1>1, <2>2, <2>3
<1>2. CASE ReaderBoot
  <2>1. PICK u \in UidValues :
           LET t == [tt EXCEPT !.uid = u] IN tt' = t \/ tt' = Ready(t)
    BY <1>0, <1>2 DEF ReaderBoot, FindAppUid, TypeOK, Track
  <2> DEFINE t == [tt EXCEPT !.uid = u]
  <2>2. /\ t \in Track /\ t.toSocksCh = tt.toSocksCh /\ t.state = tt.state
        /\ t.socksConn = tt.socksConn
    BY <1>0 DEF TypeOK, Track
  <2>3. tt' = t \/ tt' = Ready(t)
    BY <2>1
  <2> HIDE DEF t
  <2>4. /\ tt'.toSocksCh = tt.toSocksCh /\ tt'.state = tt.state
        /\ tt'.socksConn = tt.socksConn
    BY <2>2, <2>3, ReadyFlow
  <2> QED
    BY <1>1, <1>2, <2>4 DEF ReaderBoot, QuietUp
<1>3. ASSUME NEW r \in SocksReplies, HandshakeAnswered(r) PROVE UpMove
  <2> DEFINE u == Ready(tt)
  <2>1. /\ u \in Track /\ u.toSocksCh = tt.toSocksCh /\ u.state = tt.state
        /\ u.socksConn = tt.socksConn
    BY <1>0, ReadyFlow DEF TypeOK
  <2>2. tt' = u \/ tt' = [u EXCEPT !.socksConn = "closed",
                                  !.socksCloseCh = TRUE]
    BY <1>3 DEF HandshakeAnswered
  <2> HIDE DEF u
  <2>3. /\ tt'.toSocksCh = tt.toSocksCh /\ tt'.state = tt.state
        /\ tt'.socksConn = tt.socksConn \/ tt'.socksConn = "closed"
    BY <2>1, <2>2 DEF Track
  <2>4. h'.relayed = h.relayed /\ h'.delivered = h.delivered
    BY <1>0, <1>3 DEF HandshakeAnswered, Swallow, TypeOK, History
  <2>5. rd.pc = "handshake" /\ run' = run
    BY <1>3 DEF HandshakeAnswered, RdAt
  <2> QED
    BY <1>1, <2>3, <2>4, <2>5 DEF QuietUp
<1>4. CASE HandshakeFails
  <2>1. /\ QuietUp /\ run' = run /\ tt'.state = tt.state
        /\ rd.pc = "handshake" /\ tt'.socksConn = "closed"
    BY <1>0, <1>4 DEF HandshakeFails, RdAt, QuietUp, TypeOK, Track
  <2> QED
    BY <1>1, <2>1
<1>5. CASE ReaderConnectReply
  <2>1. h'.relayed = h.relayed /\ h'.delivered = h.delivered
    BY <1>0, <1>5 DEF ReaderConnectReply, Swallow, TypeOK, History
  <2>2. /\ tt'.toSocksCh = tt.toSocksCh /\ tt'.state = tt.state
        /\ tt'.socksConn = tt.socksConn /\ run' = run
    BY <1>0, <1>5 DEF ReaderConnectReply, TypeOK, Track
  <2> QED
    BY <1>1, <2>1, <2>2 DEF QuietUp
<1>6. CASE ReaderFailed \/ ReaderPush \/ ReaderShrinkWindow
  <2>1. /\ tt'.toSocksCh = tt.toSocksCh /\ tt'.state = tt.state
        /\ tt'.socksConn = tt.socksConn /\ run' = run /\ h' = h
    BY <1>0, <1>6
       DEF ReaderFailed, ReaderPush, ReaderShrinkWindow, TypeOK, Track
  <2> QED
    BY <1>1, <2>1 DEF QuietUp
<1>7. CASE ReaderEnd
  <2>1. /\ tt'.toSocksCh = tt.toSocksCh /\ tt'.state = tt.state
        /\ tt'.socksConn = tt.socksConn /\ run' = run /\ h' = h
    BY <1>0, <1>7 DEF ReaderEnd, TypeOK, Track
  <2> QED
    BY <1>1, <2>1 DEF QuietUp
<1>8. ASSUME NEW n \in 1 .. MaxSeg, ReaderRead(n) PROVE UpMove
  <2>1. h'.relayed = h.relayed /\ h'.delivered = h.delivered
    BY <1>0, <1>8 DEF ReaderRead, TypeOK, History
  <2> QED
    BY <1>1, <1>8, <2>1 DEF ReaderRead, QuietUp
<1>9. CASE \/ ReaderLoop \/ ReaderWait \/ ReaderWoken \/ ReaderSpin
           \/ ReaderReadFails \/ ReaderBroadcast
  BY <1>1, <1>9 DEF ReaderLoop, ReaderWait, ReaderWoken, ReaderSpin,
     ReaderReadFails, ReaderBroadcast, QuietUp
<1> QED
  BY <1>2, <1>3, <1>4, <1>5, <1>6, <1>7, <1>8, <1>9 DEF ReaderStep

LEMMA UpMoveStep ==
    ASSUME OpenInv, Undialled, TypeOK', [Next]_vars PROVE UpMove
<1>0. TypeOK
  BY DEF OpenInv
<1>1. ASSUME run' = run, tt'.state = tt.state,
             tt'.socksConn = tt.socksConn,
             QuietUp \/ WriterTake \/ WriterWrite
      PROVE  UpMove
  <2>1. RunGone' = RunGone
    BY <1>1 DEF RunGone
  <2> QED
    BY <1>1, <2>1, UpMoveFrame
<1>2. CASE UNCHANGED vars
  BY <1>1, <1>2 DEF vars, QuietUp
<1>3. CASE WriterTake \/ WriterWrite
  <2>1. /\ run' = run /\ tt'.state = tt.state
        /\ tt'.socksConn = tt.socksConn
    BY <1>0, <1>3 DEF WriterTake, WriterWrite, TypeOK, Track
  <2> QED
    BY <1>1, <1>3, <2>1
<1>4. CASE WriterConnect \/ WriterSent \/ WriterCreditStore
  <2>1. /\ run' = run /\ tt'.state = tt.state
        /\ tt'.socksConn = tt.socksConn /\ tt'.toSocksCh = tt.toSocksCh
    BY <1>0, <1>4 DEF WriterConnect, WriterSent, WriterCreditStore,
       TypeOK, Track
  <2>2. h'.relayed = h.relayed /\ h'.delivered = h.delivered
    BY <1>0, <1>4 DEF WriterConnect, WriterSent, WriterCreditStore,
       TypeOK, History
  <2> QED
    BY <1>1, <2>1, <2>2 DEF QuietUp
<1>5. CASE WriterExit \/ WriterCheck \/ WriterWait \/ WriterCreditLoad
  BY <1>1, <1>5 DEF WriterExit, WriterCheck, WriterWait, WriterCreditLoad,
     QuietUp
<1>6. CASE WriterStep
  BY <1>3, <1>4, <1>5, <1>6 DEF WriterStep
<1>7. CASE Stop
  <2>1. /\ run' = run /\ h' = h /\ tt'.state = tt.state
        /\ tt'.toSocksCh = tt.toSocksCh
        /\ tt'.socksConn \in {tt.socksConn, Closed(tt.socksConn)}
    BY <1>0, <1>7 DEF Stop, TypeOK, Track
  <2>2. RunGone' = RunGone
    BY <2>1 DEF RunGone
  <2> QED
    BY <2>1, <2>2, UpMoveFrame DEF QuietUp, Closed
<1>8. CASE StopReturns \/ ForeignClear \/ Supersede
  <2>1. /\ run' = run /\ h' = h /\ tt'.state = tt.state
        /\ tt'.toSocksCh = tt.toSocksCh
        /\ tt'.socksConn = tt.socksConn
    BY <1>0, <1>8 DEF StopReturns, ForeignClear, Supersede, TypeOK, Track
  <2> QED
    BY <1>1, <2>1 DEF QuietUp
<1>9. CASE PeerResets
  <2>1. /\ run' = run /\ h' = h /\ tt'.state = tt.state
        /\ tt'.toSocksCh = tt.toSocksCh
        /\ tt.socksConn = "open" /\ tt'.socksConn = "broken"
    BY <1>0, <1>9 DEF PeerResets, TypeOK, Track
  <2>2. RunGone' = RunGone
    BY <2>1 DEF RunGone
  <2> QED
    BY <2>1, <2>2, UpMoveFrame DEF QuietUp
<1>10. CASE Next
  BY <1>3, <1>6, <1>7, <1>8, <1>9, <1>10, UpMoveRunStep, UpMoveSelectStep,
     UpMoveReaderStep DEF Next, PeerStep, SocketStep, Environment
<1> QED
  BY <1>2, <1>10

\* The invariant that says how much the channel holds is kept.
LEMMA UpPipeStep ==
    ASSUME OpenInv, UpInv, UpPipe, TypeOK', [Next]_vars PROVE UpPipe'
<1>0. TypeOK
  BY DEF OpenInv
<1>1. UpMove
  BY UpMoveStep DEF UpPipe
<1>2. CASE QuietUp
  BY <1>1, <1>2 DEF QuietUp, UpMove, UpPipe
<1>3. CASE RelayEnqueue
  <2> DEFINE q == tt.toSocksCh
             c == [off |-> run.pkt.off, len |-> run.pkt.len]
  <2>1. /\ q \in Seq(Chunk) /\ c \in Chunk /\ c.off = h.relayed
        /\ h.relayed \in Nat /\ c.len = run.pkt.len
    BY <1>0, <1>3 DEF RelayEnqueue, RunAt, TypeOK, Track, RunLocals, Packet,
       Chunk, History, UpInv
  <2>2. /\ tt'.toSocksCh = Append(q, c) /\ Len(q) < ToSocksCap
        /\ h'.relayed = h.relayed + run.pkt.len
    BY <1>0, <1>3 DEF RelayEnqueue, TypeOK, Track, History
  <2>3. Packed(q, h.relayed)
    BY DEF UpPipe
  <2> HIDE DEF q, c
  <2>4. Packed(Append(q, c), h.relayed + c.len)
    BY <2>1, <2>3, PackedAppend
  <2>5. Len(Append(q, c)) <= ToSocksCap
    BY <2>1, <2>2, Bounds
  <2> QED
    BY <1>1, <2>1, <2>2, <2>4, <2>5 DEF UpPipe, UpMove
<1>4. CASE WriterTake
  <2>1. /\ tt.toSocksCh \in Seq(Chunk) /\ tt.toSocksCh # <<>>
        /\ tt'.toSocksCh = Tail(tt.toSocksCh) /\ h' = h
        /\ h.relayed \in Nat
    BY <1>0, <1>4 DEF WriterTake, TypeOK, Track, History
  <2>2. Packed(tt'.toSocksCh, h.relayed)
          /\ Len(tt'.toSocksCh) = Len(tt.toSocksCh) - 1
    BY <2>1, PackedTail DEF UpPipe
  <2>3. Len(tt.toSocksCh) \in Nat
    BY <2>1
  <2> QED
    BY <1>1, <2>1, <2>2, <2>3, Bounds DEF UpPipe, UpMove
<1>5. CASE WriterWrite
  <2>1. tt' = tt /\ h'.relayed = h.relayed
    BY <1>0, <1>5 DEF WriterWrite, TypeOK, History
  <2> QED
    BY <1>1, <2>1 DEF UpPipe, UpMove
<1> QED
  BY <1>1, <1>2, <1>3, <1>4, <1>5 DEF UpMove

\* While the socket is open, what has been acknowledged and not delivered is
\* in the channel or in the writer's hands.
ServerAhead ==
    /\ h.delivered <= h.relayed
    /\ h.relayed - h.delivered <= (ToSocksCap + 1) * MaxSeg

LEMMA UpBounded ==
    TypeOK /\ UpInv /\ UpPipe /\ tt.socksConn = "open" => ServerAhead
<1> SUFFICES ASSUME TypeOK, UpInv, UpPipe, tt.socksConn = "open"
             PROVE  ServerAhead
  OBVIOUS
<1> DEFINE held == IF Holding THEN wr.pkt.len ELSE 0
           sent == IF wr.pc \in {"credit", "store"} THEN wr.pkt.len ELSE 0
           lo == h.written + held
<1>1. /\ tt.toSocksCh \in Seq(Chunk) /\ h.relayed \in Nat
      /\ h.written \in Nat /\ h.delivered \in Nat
      /\ held \in 0 .. MaxSeg /\ sent \in 0 .. MaxSeg /\ MaxSeg \in Nat
      /\ ToSocksCap \in Nat
  BY Bounds DEF TypeOK, Track, History, WriterLocals, Chunk
<1>2. sent <= held
  BY <1>1 DEF Holding
<1>3. /\ Contiguous(tt.toSocksCh, lo, h.relayed)
      /\ h.delivered = h.written + sent
  BY DEF UpInv, UpstreamFifo
<1>4. Packed(tt.toSocksCh, h.relayed) /\ Len(tt.toSocksCh) <= ToSocksCap
  BY DEF UpPipe
<1>5. lo \in Nat
  BY <1>1
<1> HIDE DEF lo
<1>6. /\ ToSocksCap * MaxSeg \in Nat /\ lo <= h.relayed
      /\ h.relayed - lo <= ToSocksCap * MaxSeg
  BY <1>1, <1>3, <1>4, <1>5, PackedBound
<1>7. (ToSocksCap + 1) * MaxSeg = ToSocksCap * MaxSeg + MaxSeg
  BY <1>1, OneMore
<1> DEFINE p == ToSocksCap * MaxSeg
<1>8. p \in Nat /\ lo <= h.relayed /\ h.relayed - lo <= p
  BY <1>6
<1> HIDE DEF held, sent, p
<1>9. h.delivered <= h.relayed /\ h.relayed - h.delivered <= p + MaxSeg
  <2>1. held \in Nat /\ sent \in Nat /\ held <= MaxSeg
    BY <1>1
  <2>2. h.relayed - (h.written + held) <= p
          /\ h.written + held <= h.relayed
    BY <1>8 DEF lo
  <2>3. h.delivered = h.written + sent
    BY <1>3
  <2> QED
    BY <1>1, <1>2, <1>8, <2>1, <2>2, <2>3
<1> DEFINE limit == (ToSocksCap + 1) * MaxSeg
<1>10. limit = p + MaxSeg
  BY <1>7 DEF p
<1> HIDE DEF limit
<1>11. h.relayed - h.delivered <= limit
  BY <1>9, <1>10
<1> QED
  BY <1>9, <1>11 DEF ServerAhead, limit

\* Every step is one of the pipe's, or none.
LEMMA UpPipeMoves ==
    ASSUME OpenInv, UpInv, UpPipe, TypeOK', UpInv', UpPipe', [Next]_vars
    PROVE  [ToServer!PipeNext]_(ToServer!pipeVars)
<1>0. TypeOK
  BY DEF OpenInv
<1>1. UpMove
  BY UpMoveStep DEF UpPipe
<1>2. /\ h.relayed \in Nat /\ h'.relayed \in Nat
      /\ h.delivered \in Nat /\ h'.delivered \in Nat
  BY <1>0 DEF TypeOK, History
<1>3. ASSUME h'.relayed = h.relayed, h'.delivered = h.delivered
      PROVE  [ToServer!PipeNext]_(ToServer!pipeVars)
  <2>1. CASE ServerCut' = ServerCut
    BY <1>3, <2>1 DEF ServerCut, ToServer!pipeVars
  <2>2. CASE ServerCut' # ServerCut
    <3>1. ServerCut'
      BY <1>1, <2>2 DEF UpMove, ServerCut
    <3>2. ToServer!Cut
      BY <1>3, <3>1 DEF ToServer!Cut, ServerCut
    <3> QED
      BY <3>2 DEF ToServer!PipeNext
  <2> QED
    BY <2>1, <2>2
<1>4. CASE QuietUp
  BY <1>3, <1>4 DEF QuietUp
<1>5. CASE RelayEnqueue
  <2>1. /\ h'.relayed = h.relayed + run.pkt.len
        /\ h'.delivered = h.delivered /\ run.pkt.len \in Nat
    BY <1>0, <1>5, Bounds DEF RelayEnqueue, TypeOK, History, RunLocals,
       Packet
  <2>2. tt'.socksConn = tt.socksConn /\ tt.state = "ESTABLISHED" /\ ~RunGone
    BY <1>0, <1>5 DEF RelayEnqueue, RunAt, RunGone, OpenInv, Opening, TypeOK,
       Track
  <2>3. tt.socksConn # "nil"
    BY <2>2 DEF UpPipe, Undialled
  <2>4. ServerCut \/ tt'.socksConn = "open"
    BY <1>0, <2>2, <2>3 DEF ServerCut, TypeOK, Track
  <2>5. ~ServerCut =>
           h'.relayed - h'.delivered <= (ToSocksCap + 1) * MaxSeg
    <3>1. SUFFICES ASSUME tt'.socksConn = "open"
                   PROVE  h'.relayed - h'.delivered
                            <= (ToSocksCap + 1) * MaxSeg
      BY <2>4
    <3>2. (tt.socksConn = "open")'
      BY <3>1
    <3>3. ServerAhead'
      BY <3>2, UpBounded, PTL
    <3> QED
      BY <3>3 DEF ServerAhead
  <2>6. ToServer!Take
    BY <1>2, <2>1, <2>2, <2>5 DEF ToServer!Take, ServerCut
  <2> QED
    BY <2>6 DEF ToServer!PipeNext
<1>6. CASE WriterTake
  BY <1>3, <1>6 DEF WriterTake
<1>7. CASE WriterWrite
  <2>1. tt' = tt /\ h'.relayed = h.relayed
    BY <1>0, <1>7 DEF WriterWrite, TypeOK, History
  <2>2. CASE tt.socksConn # "open"
    <3>1. h'.delivered = h.delivered
      BY <1>0, <1>7, <2>2 DEF WriterWrite, TypeOK, History
    <3> QED
      BY <1>3, <2>1, <3>1
  <2>3. CASE tt.socksConn = "open"
    <3>1. h'.delivered = h.delivered + wr.pkt.len /\ wr.pkt.len \in Nat
      BY <1>0, <1>7, <2>3, Bounds
         DEF WriterWrite, TypeOK, History, WriterLocals, Chunk
    <3>2. h'.delivered <= h'.relayed
      <4>1. (tt.socksConn = "open")'
        BY <2>1, <2>3
      <4>2. ServerAhead'
        BY <4>1, UpBounded, PTL
      <4> QED
        BY <4>2 DEF ServerAhead
    <3>3. ToServer!Deliver
      BY <1>2, <2>1, <2>3, <3>1, <3>2 DEF ToServer!Deliver
    <3> QED
      BY <3>3 DEF ToServer!PipeNext
  <2> QED
    BY <2>2, <2>3
<1> QED
  BY <1>1, <1>4, <1>5, <1>6, <1>7 DEF UpMove

\* For channels and segments of any size: between the client's
\* acknowledgements and the socket never lie more than ToSocksCap + 1
\* segments, so no more is lost when the socket is closed on them.
THEOREM PipeToServer == Spec => ImplementsPipeToServer
<1>1. Init => UpInv /\ UpPipe /\ ToServer!PipeInit
  BY Bounds DEF Init, UpInv, UpstreamFifo, Contiguous, Holding, Served,
     UpPipe, Undialled, RunGone, Packed, ToServer!PipeInit
<1>2. OpenInv /\ OpenInv' /\ UpInv /\ UpPipe /\ [Next]_vars
        => /\ UpInv' /\ UpPipe'
           /\ [ToServer!PipeNext]_(ToServer!pipeVars)
  BY UpStep, UpPipeStep, UpPipeMoves DEF OpenInv
<1> QED
  BY <1>1, <1>2, OpenInvariant, PTL
     DEF Spec, ImplementsPipeToServer, ToServer!PipeSpec
-----------------------------------------------------------------------------
(* The way to the client.  It is cut when run() leaves its loop; until then  *)
(* the reader waits for room in fromSocksCh with one Read in its hands.      *)

Queued == IF rd.pc = "push" THEN rd.buf.off ELSE h.srvRead

DownPipe ==
    /\ Len(tt.fromSocksCh) <= FromSocksCap
    /\ Packed(tt.fromSocksCh, Queued)

QuietDown ==
    /\ tt'.fromSocksCh = tt.fromSocksCh
    /\ h'.srvRead = h.srvRead /\ h'.lost = h.lost /\ h'.emitted = h.emitted
    /\ rd'.pc = "push" => rd.pc = "push" /\ rd'.buf = rd.buf
    /\ rd.pc = "push" => rd'.pc = "push"

\* Bytes dropped together with the proxy's reply.
Swallows ==
    /\ \E n \in 0 .. MaxSeg : Swallow(n)
    /\ tt'.fromSocksCh = tt.fromSocksCh
    /\ tt.connectState # "ESTABLISHED" /\ rd'.pc # "push"

DownMove ==
    /\ RunGone => RunGone'
    /\ \/ QuietDown \/ Swallows \/ SelectData \/ ReaderPush
       \/ \E n \in 1 .. MaxSeg : ReaderRead(n)

LEMMA DownMoveRunStep == ASSUME OpenInv, RunStep PROVE DownMove
<1>0. TypeOK
  BY DEF OpenInv
<1>1. CASE RunTop
  BY <1>0, <1>1, TopFlow DEF SameFlow, DownMove, QuietDown, RunGone
<1>2. CASE \/ SelectQuit \/ DialPanics \/ DialFails
           \/ RelayWindowLoad \/ RelayWindowStore
  <2>1. tt'.fromSocksCh = tt.fromSocksCh /\ rd' = rd /\ h' = h /\ ~RunGone
    BY <1>0, <1>2 DEF SelectQuit, DialPanics, DialFails, RelayWindowLoad,
       RelayWindowStore, RunAt, RunGone, TypeOK, Track
  <2> QED
    BY <2>1 DEF DownMove, QuietDown
<1>3. CASE ClearTrack
  <2>1. tt'.fromSocksCh = tt.fromSocksCh /\ h' = h /\ RunGone'
    BY <1>0, <1>3 DEF ClearTrack, RunGoto, RunGone, TypeOK, RunLocals, Track
  <2>2. rd' = rd \/ WakeReader
    BY <1>3 DEF ClearTrack
  <2> QED
    BY <1>0, <2>1, <2>2
       DEF DownMove, QuietDown, WakeReader, TypeOK, ReaderLocals
<1>4. CASE DialSucceeds
  BY <1>0, <1>4, DialFlow DEF SameFlow, DownMove, QuietDown, RunGone
<1>5. CASE RelayEnqueue
  <2>1. /\ tt'.fromSocksCh = tt.fromSocksCh /\ rd' = rd /\ ~RunGone
        /\ h'.srvRead = h.srvRead /\ h'.lost = h.lost
        /\ h'.emitted = h.emitted
    BY <1>0, <1>5
       DEF RelayEnqueue, RunAt, RunGone, TypeOK, Track, History
  <2> QED
    BY <2>1 DEF DownMove, QuietDown
<1>6. ASSUME NEW fin \in BOOLEAN, RelayDone(fin), ~RunGone PROVE DownMove
  <2>1. tt'.fromSocksCh = tt.fromSocksCh
    BY <1>0, <1>6, FinTakenFlow DEF RelayDone, SameFlow, TypeOK
  <2>2. /\ rd' = rd /\ h'.srvRead = h.srvRead /\ h'.lost = h.lost
        /\ h'.emitted = h.emitted
    BY <1>0, <1>6 DEF RelayDone, CountFin, TypeOK, History
  <2> QED
    BY <1>6, <2>1, <2>2 DEF DownMove, QuietDown
<1>7. CASE RelayRefused
  BY <1>6, <1>7 DEF RelayRefused, RunAt, RunGone
<1>8. CASE RelayFin
  BY <1>6, <1>8 DEF RelayFin, RunAt, RunGone
<1> QED
  BY <1>1, <1>2, <1>3, <1>4, <1>5, <1>7, <1>8 DEF RunStep

LEMMA DownMoveSelectStep == ASSUME OpenInv, SelectStep PROVE DownMove
<1>0. TypeOK /\ Opening
  BY DEF OpenInv
<1>1. CASE SelectTimeout \/ SelectAck
  <2>1. tt'.fromSocksCh = tt.fromSocksCh
    BY <1>0, <1>1, EndedFlow, AckedFlow
       DEF SelectTimeout, SelectAck, SameFlow, TypeOK
  <2>2. rd' = rd /\ h' = h /\ ~RunGone
    BY <1>1 DEF SelectTimeout, SelectAck, RunAt, RunGone
  <2> QED
    BY <2>1, <2>2 DEF DownMove, QuietDown
<1>2. CASE SelectData
  BY <1>2 DEF SelectData, RunAt, RunGone, DownMove
<1>3. CASE SelectClose
  <2> DEFINE u == FinAcked(tt)
  <2>1. u \in Track /\ u.fromSocksCh = tt.fromSocksCh
    BY <1>0, FinAckedFlow DEF SameFlow, TypeOK
  <2>2. tt' = [u EXCEPT !.state = "FIN_WAIT_1"]
    BY <1>3 DEF SelectClose
  <2> HIDE DEF u
  <2>3. tt'.fromSocksCh = tt.fromSocksCh
    BY <2>1, <2>2 DEF Track
  <2>4. /\ rd' = rd /\ h'.srvRead = h.srvRead /\ h'.lost = h.lost
        /\ h'.emitted = h.emitted /\ ~RunGone
    BY <1>0, <1>3
       DEF SelectClose, CountFin, RunAt, RunGone, TypeOK, History
  <2> QED
    BY <2>3, <2>4 DEF DownMove, QuietDown
<1>4. ASSUME NEW s \in Segments, SelectInput(s) PROVE DownMove
  <2>1. InputEffect(s) /\ ~RunGone
    BY <1>0, <1>4, Inputs DEF SelectInput, RunAt, RunGone
  <2>2. tt.state = "SYN_RCVD" => rd.pc = "none"
    BY <1>0, <2>1 DEF Opening
  <2>3. /\ rd'.pc = "push" => rd.pc = "push" /\ rd'.buf = rd.buf
        /\ rd.pc = "push" => rd'.pc = "push"
    BY <1>0, <2>1, <2>2
       DEF InputEffect, WakeReader, TypeOK, ReaderLocals
  <2> QED
    BY <2>1, <2>3 DEF InputEffect, SameCounts, DownMove, QuietDown
<1> QED
  BY <1>1, <1>2, <1>3, <1>4 DEF SelectStep

LEMMA DownMoveReaderStep ==
    ASSUME OpenInv,
           \/ ReaderStep \/ HandshakeFails \/ ReaderConnectReply
           \/ ReaderReadFails
           \/ \E r \in SocksReplies : HandshakeAnswered(r)
           \/ \E n \in 1 .. MaxSeg : ReaderRead(n)
    PROVE  DownMove
<1>0. TypeOK /\ Opening
  BY DEF OpenInv
<1>1. ASSUME tt'.fromSocksCh = tt.fromSocksCh, h' = h, run' = run,
             rd.pc # "push", rd'.pc # "push"
      PROVE  DownMove
  BY <1>1 DEF DownMove, QuietDown, RunGone
<1>2. CASE ReaderBoot
  <2>1. PICK u \in UidValues :
           LET t == [tt EXCEPT !.uid = u]
           IN /\ tt' = t \/ tt' = Ready(t)
              /\ RdGoto("handshake") \/ RdGoto("loop")
    BY <1>0, <1>2 DEF ReaderBoot, FindAppUid, StartWriter, TypeOK, Track
  <2> DEFINE t == [tt EXCEPT !.uid = u]
  <2>2. t \in Track /\ t.fromSocksCh = tt.fromSocksCh
    BY <1>0 DEF TypeOK, Track
  <2>3. tt' = t \/ tt' = Ready(t)
    BY <2>1
  <2> HIDE DEF t
  <2>4. tt'.fromSocksCh = tt.fromSocksCh
    BY <2>2, <2>3, ReadyFlow
  <2>5. rd.pc = "boot" /\ rd'.pc \in {"handshake", "loop"}
    BY <1>0, <1>2, <2>1 DEF ReaderBoot, RdAt, RdGoto, TypeOK, ReaderLocals
  <2> QED
    BY <1>1, <1>2, <2>4, <2>5 DEF ReaderBoot
<1>3. ASSUME NEW r \in SocksReplies, HandshakeAnswered(r) PROVE DownMove
  <2> DEFINE u == Ready(tt)
  <2>1. u \in Track /\ u.fromSocksCh = tt.fromSocksCh
    BY <1>0, ReadyFlow DEF TypeOK
  <2>2. tt' = u \/ tt' = [u EXCEPT !.socksConn = "closed",
                                  !.socksCloseCh = TRUE]
    BY <1>3 DEF HandshakeAnswered
  <2> HIDE DEF u
  <2>3. tt'.fromSocksCh = tt.fromSocksCh
    BY <2>1, <2>2 DEF Track
  <2>4. rd.pc = "handshake" /\ rd'.pc = "loop" /\ run' = run
    BY <1>0, <1>3 DEF HandshakeAnswered, StartWriter, RdAt, RdGoto, TypeOK,
       ReaderLocals
  <2>5. tt.connectState # "ESTABLISHED"
    BY <1>0, <2>4 DEF Opening
  <2>6. h' = h \/ \E n \in 0 .. MaxSeg : Swallow(n)
    BY <1>3 DEF HandshakeAnswered
  <2> QED
    BY <1>1, <2>3, <2>4, <2>5, <2>6 DEF DownMove, Swallows, RunGone
<1>4. CASE ReaderConnectReply
  <2>1. /\ tt.connectState # "ESTABLISHED" /\ rd'.pc = "bcast"
        /\ tt'.fromSocksCh = tt.fromSocksCh /\ run' = run
    BY <1>0, <1>4
       DEF ReaderConnectReply, RdGoto, TypeOK, ReaderLocals, Track
  <2>2. \E n \in 0 .. MaxSeg : Swallow(n)
    BY <1>4 DEF ReaderConnectReply
  <2> QED
    BY <2>1, <2>2 DEF DownMove, Swallows, RunGone
<1>5. ASSUME NEW n \in 1 .. MaxSeg, ReaderRead(n) PROVE DownMove
  BY <1>5 DEF ReaderRead, DownMove, RunGone
<1>6. CASE ReaderPush
  BY <1>6 DEF ReaderPush, DownMove, RunGone
<1>7. CASE HandshakeFails \/ ReaderFailed \/ ReaderShrinkWindow
  <2>1. tt'.fromSocksCh = tt.fromSocksCh /\ h' = h /\ run' = run
    BY <1>0, <1>7
       DEF HandshakeFails, ReaderFailed, ReaderShrinkWindow, TypeOK, Track
  <2>2. rd.pc # "push" /\ rd'.pc # "push"
    BY <1>0, <1>7 DEF HandshakeFails, ReaderFailed, ReaderShrinkWindow,
       RdAt, RdGoto, TypeOK, ReaderLocals
  <2> QED
    BY <1>1, <2>1, <2>2
<1>8. CASE ReaderEnd
  <2>1. tt'.fromSocksCh = tt.fromSocksCh /\ h' = h /\ run' = run
    BY <1>0, <1>8 DEF ReaderEnd, TypeOK, Track
  <2>2. rd.pc # "push" /\ rd'.pc # "push"
    BY <1>0, <1>8 DEF ReaderEnd, RdAt, RdGoto, TypeOK, ReaderLocals
  <2> QED
    BY <1>1, <2>1, <2>2
<1>9. CASE ReaderLoop \/ ReaderWoken
  <2>0. LeaveLoop => rd'.pc = "end"
    BY DEF LeaveLoop
  <2>1. rd.pc # "push" /\ rd'.pc # "push"
    BY <1>0, <1>9, <2>0
       DEF ReaderLoop, ReaderWoken, RdAt, TypeOK, ReaderLocals
  <2> QED
    BY <1>1, <1>9, <2>1 DEF ReaderLoop, ReaderWoken
<1>10. CASE \/ ReaderWait \/ ReaderSpin \/ ReaderReadFails
            \/ ReaderBroadcast
  <2>1. rd.pc # "push" /\ rd'.pc # "push"
    BY <1>0, <1>10 DEF ReaderWait, ReaderSpin, ReaderReadFails,
       ReaderBroadcast, LeaveLoop, RdAt, RdGoto, TypeOK, ReaderLocals
  <2> QED
    BY <1>1, <1>10, <2>1 DEF ReaderWait, ReaderSpin, ReaderReadFails,
       ReaderBroadcast
<1> QED
  BY <1>2, <1>3, <1>4, <1>5, <1>6, <1>7, <1>8, <1>9, <1>10 DEF ReaderStep

LEMMA DownMoveStep == ASSUME OpenInv, [Next]_vars PROVE DownMove
<1>0. TypeOK
  BY DEF OpenInv
<1>1. ASSUME tt'.fromSocksCh = tt.fromSocksCh, run' = run,
             h'.srvRead = h.srvRead, h'.lost = h.lost,
             h'.emitted = h.emitted, rd' = rd \/ WakeReader
      PROVE  DownMove
  BY <1>0, <1>1
     DEF DownMove, QuietDown, RunGone, WakeReader, TypeOK, ReaderLocals
<1>2. CASE UNCHANGED vars
  BY <1>1, <1>2 DEF vars
<1>3. CASE \/ WriterTake \/ WriterConnect \/ WriterSent
           \/ WriterCreditStore \/ WriterWrite
  <2>1. /\ h'.srvRead = h.srvRead /\ h'.lost = h.lost
        /\ h'.emitted = h.emitted
    BY <1>0, <1>3 DEF WriterTake, WriterConnect, WriterSent,
       WriterCreditStore, WriterWrite, TypeOK, History
  <2>2. tt'.fromSocksCh = tt.fromSocksCh /\ run' = run /\ rd' = rd
    BY <1>0, <1>3 DEF WriterTake, WriterConnect, WriterSent,
       WriterCreditStore, WriterWrite, TypeOK, Track
  <2> QED
    BY <1>1, <2>1, <2>2
<1>4. CASE WriterExit \/ WriterCheck \/ WriterWait \/ WriterCreditLoad
  BY <1>1, <1>4 DEF WriterExit, WriterCheck, WriterWait, WriterCreditLoad
<1>5. CASE WriterStep
  BY <1>3, <1>4, <1>5 DEF WriterStep
<1>6. CASE \/ Stop \/ StopReturns \/ ForeignClear \/ Supersede
           \/ PeerResets
  <2>1. tt'.fromSocksCh = tt.fromSocksCh /\ run' = run /\ h' = h
    BY <1>0, <1>6
       DEF Stop, StopReturns, ForeignClear, Supersede, PeerResets,
           TypeOK, Track
  <2>2. rd' = rd \/ WakeReader
    BY <1>6 DEF Stop, StopReturns, ForeignClear, Supersede, PeerResets
  <2> QED
    BY <1>1, <2>1, <2>2
<1>7. CASE Next
  BY <1>3, <1>5, <1>6, <1>7, DownMoveRunStep, DownMoveSelectStep,
     DownMoveReaderStep DEF Next, PeerStep, SocketStep, Environment
<1> QED
  BY <1>2, <1>7

LEMMA DownPipeStep ==
    ASSUME OpenInv, DownInv, DownPipe, [Next]_vars PROVE DownPipe'
<1>0. TypeOK
  BY DEF OpenInv
<1>1. DownMove
  BY DownMoveStep
<1>2. tt.fromSocksCh \in Seq(Chunk) /\ Queued \in Nat
  BY <1>0 DEF Queued, TypeOK, Track, ReaderLocals, Chunk, History
<1>3. CASE QuietDown
  <2>1. Queued' = Queued
    BY <1>3 DEF QuietDown, Queued
  <2> QED
    BY <1>3, <2>1 DEF QuietDown, DownPipe
<1>4. CASE Swallows
  <2>1. tt'.fromSocksCh = <<>>
    BY <1>4 DEF Swallows, DownInv
  <2>2. Len(tt'.fromSocksCh) = 0
    BY <2>1
  <2> QED
    BY <2>2, Bounds DEF DownPipe, Packed
<1>5. CASE SelectData
  <2> DEFINE u == Acked(tt)
  <2>1. /\ u \in Track /\ u.fromSocksCh = tt.fromSocksCh
        /\ tt.fromSocksCh # <<>>
    BY <1>0, <1>5, AckedFlow DEF SelectData, SameFlow, TypeOK
  <2>2. \E n : tt' = [u EXCEPT !.nxtSeq = SeqAdd(@, n),
                               !.fromSocksCh = Tail(@)]
    BY <1>5 DEF SelectData
  <2> HIDE DEF u
  <2>3. tt'.fromSocksCh = Tail(tt.fromSocksCh)
    BY <2>1, <2>2 DEF Track
  <2>4. Queued' = Queued
    BY <1>0, <1>5 DEF SelectData, Queued, TypeOK, History
  <2>5. Packed(tt'.fromSocksCh, Queued)
          /\ Len(tt'.fromSocksCh) = Len(tt.fromSocksCh) - 1
    BY <1>2, <2>1, <2>3, PackedTail DEF DownPipe
  <2>6. Len(tt.fromSocksCh) \in Nat
    BY <1>2
  <2> QED
    BY <2>4, <2>5, <2>6, Bounds DEF DownPipe
<1>6. CASE ReaderPush
  <2> DEFINE q == tt.fromSocksCh
             c == rd.buf
  <2>1. rd.pc = "push" /\ c \in Chunk /\ Len(q) < FromSocksCap
    BY <1>0, <1>6 DEF ReaderPush, RdAt, TypeOK, ReaderLocals
  <2>2. /\ tt'.fromSocksCh = Append(q, c) /\ rd'.pc = "cas" /\ h' = h
    BY <1>0, <1>6 DEF ReaderPush, RdGoto, TypeOK, ReaderLocals, Track
  <2>3. /\ Queued = c.off /\ Queued' = c.off + c.len
    BY <2>1, <2>2 DEF Queued, DownInv, DownstreamFifo
  <2>4. Packed(q, c.off) /\ q \in Seq(Chunk) /\ c.off \in Nat
    BY <1>2, <2>1, <2>3 DEF DownPipe, Chunk
  <2> HIDE DEF q, c
  <2>5. Packed(Append(q, c), c.off + c.len)
    BY <2>1, <2>4, PackedAppend
  <2>6. Len(Append(q, c)) <= FromSocksCap
    BY <2>1, <2>4, Bounds
  <2> QED
    BY <2>2, <2>3, <2>5, <2>6 DEF DownPipe
<1>7. ASSUME NEW n \in 1 .. MaxSeg, ReaderRead(n) PROVE DownPipe'
  <2>1. /\ tt' = tt /\ rd.pc = "read" /\ rd'.pc = "push"
        /\ rd'.buf.off = h.srvRead
    BY <1>0, <1>7 DEF ReaderRead, RdAt, TypeOK, ReaderLocals
  <2>2. Queued' = Queued
    BY <2>1 DEF Queued
  <2> QED
    BY <2>1, <2>2 DEF DownPipe
<1> QED
  BY <1>1, <1>3, <1>4, <1>5, <1>6, <1>7 DEF DownMove

\* What has been read and not sent is in the channel or in the reader's hands.
ClientAhead ==
    /\ h.emitted <= h.srvRead - h.lost
    /\ (h.srvRead - h.lost) - h.emitted <= (FromSocksCap + 1) * MaxSeg

LEMMA DownBounded == TypeOK /\ DownInv /\ DownPipe => ClientAhead
<1> SUFFICES ASSUME TypeOK, DownInv, DownPipe PROVE ClientAhead
  OBVIOUS
<1> DEFINE lo == h.lost + h.emitted
<1>1. /\ tt.fromSocksCh \in Seq(Chunk) /\ h.srvRead \in Nat
      /\ h.lost \in Nat /\ h.emitted \in Nat /\ Queued \in Nat
      /\ MaxSeg \in Nat /\ FromSocksCap \in Nat /\ lo \in Nat
  <2>1. tt \in Track /\ rd \in ReaderLocals /\ h \in History
    BY DEF TypeOK
  <2>2. tt.fromSocksCh \in Seq(Chunk)
    BY <2>1 DEF Track
  <2>3. h.srvRead \in Nat /\ h.lost \in Nat /\ h.emitted \in Nat
    BY <2>1 DEF History
  <2>4. rd.buf.off \in Nat
    BY <2>1 DEF ReaderLocals, Chunk
  <2>5. Queued \in Nat
    BY <2>3, <2>4 DEF Queued
  <2> QED
    BY <2>2, <2>3, <2>5, Bounds
<1>2. Queued <= h.srvRead /\ h.srvRead - Queued <= MaxSeg
  <2>1. CASE rd.pc = "push"
    <3>1. /\ Queued = rd.buf.off /\ rd.buf.len \in Nat
          /\ rd.buf.len <= MaxSeg
          /\ rd.buf.off + rd.buf.len = h.srvRead
      <4>1. rd.buf \in Chunk
        BY DEF TypeOK, ReaderLocals
      <4>2. rd.buf.off + rd.buf.len = h.srvRead
        BY <2>1 DEF DownInv, DownstreamFifo
      <4> QED
        BY <2>1, <4>1, <4>2, Bounds DEF Queued, Chunk
    <3> QED
      BY <1>1, <3>1
  <2>2. CASE rd.pc # "push"
    BY <1>1, <2>2 DEF Queued
  <2> QED
    BY <2>1, <2>2
<1>3. Contiguous(tt.fromSocksCh, lo, Queued)
  BY DEF DownInv, DownstreamFifo, Queued
<1>4. Packed(tt.fromSocksCh, Queued) /\ Len(tt.fromSocksCh) <= FromSocksCap
  BY DEF DownPipe
<1> HIDE DEF lo
<1>5. /\ FromSocksCap * MaxSeg \in Nat /\ lo <= Queued
      /\ Queued - lo <= FromSocksCap * MaxSeg
  BY <1>1, <1>3, <1>4, PackedBound
<1>6. (FromSocksCap + 1) * MaxSeg = FromSocksCap * MaxSeg + MaxSeg
  BY <1>1, OneMore
<1> DEFINE p == FromSocksCap * MaxSeg
           limit == (FromSocksCap + 1) * MaxSeg
<1>7. p \in Nat /\ lo <= Queued /\ Queued - lo <= p
  BY <1>5
<1>8. limit = p + MaxSeg
  BY <1>6
<1> HIDE DEF p, limit
<1>9. lo <= h.srvRead /\ h.srvRead - lo <= limit
  BY <1>1, <1>2, <1>7, <1>8
<1>10. /\ h.emitted <= h.srvRead - h.lost
       /\ (h.srvRead - h.lost) - h.emitted <= limit
  BY <1>1, <1>9 DEF lo
<1> QED
  BY <1>10 DEF ClientAhead, limit

LEMMA DownPipeMoves ==
    ASSUME OpenInv, DownInv, DownPipe, TypeOK', DownInv', DownPipe',
           [Next]_vars
    PROVE  [ToClient!PipeNext]_(ToClient!pipeVars)
<1>0. TypeOK
  BY DEF OpenInv
<1>1. DownMove
  BY DownMoveStep
<1>2. ClientAhead /\ ClientAhead'
  BY <1>0, DownBounded, PTL
<1>3. /\ h.srvRead \in Nat /\ h.lost \in Nat /\ h.emitted \in Nat
      /\ h'.srvRead \in Nat /\ h'.lost \in Nat /\ h'.emitted \in Nat
  BY <1>0 DEF TypeOK, History
<1>4. ASSUME h'.srvRead - h'.lost = h.srvRead - h.lost,
             h'.emitted = h.emitted
      PROVE  [ToClient!PipeNext]_(ToClient!pipeVars)
  <2>1. CASE RunGone' = RunGone
    BY <1>4, <2>1 DEF ToClient!pipeVars
  <2>2. CASE RunGone' # RunGone
    <3>1. RunGone'
      BY <1>1, <2>2 DEF DownMove, RunGone
    <3>2. ToClient!Cut
      BY <1>4, <3>1 DEF ToClient!Cut, RunGone
    <3> QED
      BY <3>2 DEF ToClient!PipeNext
  <2> QED
    BY <2>1, <2>2
<1>5. CASE QuietDown
  BY <1>4, <1>5 DEF QuietDown
<1>6. CASE Swallows
  <2>1. PICK n \in 0 .. MaxSeg : Swallow(n)
    BY <1>6 DEF Swallows
  <2>2. /\ h'.srvRead = h.srvRead + n /\ h'.lost = h.lost + n
        /\ h'.emitted = h.emitted /\ n \in Nat
    BY <1>0, <2>1, Bounds DEF Swallow, TypeOK, History
  <2>3. h'.srvRead - h'.lost = h.srvRead - h.lost
    BY <1>3, <2>2
  <2> QED
    BY <1>4, <2>2, <2>3
<1>7. CASE SelectData
  <2> DEFINE n == Head(tt.fromSocksCh).len
  <2>1. tt.fromSocksCh \in Seq(Chunk) /\ tt.fromSocksCh # <<>>
    BY <1>0, <1>7 DEF SelectData, TypeOK, Track
  <2>2. n \in Nat
    <3>1. Head(tt.fromSocksCh) \in Chunk
      BY <2>1
    <3> QED
      BY <3>1, Bounds DEF Chunk
  <2>3. h' = [h EXCEPT !.emitted = @ + n]
    BY <1>7 DEF SelectData
  <2> HIDE DEF n
  <2>4. /\ h'.emitted = h.emitted + n /\ h'.srvRead = h.srvRead
        /\ h'.lost = h.lost
    BY <1>0, <2>3 DEF TypeOK, History
  <2>5. ~RunGone /\ ~RunGone'
    BY <1>0, <1>7
       DEF SelectData, RunAt, RunGoto, RunGone, TypeOK, RunLocals
  <2>6. h'.emitted <= h.srvRead - h.lost /\ h'.emitted >= h.emitted
    BY <1>2, <1>3, <2>2, <2>4 DEF ClientAhead
  <2>7. ToClient!Deliver
    BY <1>3, <2>4, <2>5, <2>6 DEF ToClient!Deliver, RunGone
  <2> QED
    BY <2>7 DEF ToClient!PipeNext
<1>8. CASE ReaderPush
  BY <1>4, <1>8 DEF ReaderPush
<1>9. ASSUME NEW n \in 1 .. MaxSeg, ReaderRead(n)
      PROVE  [ToClient!PipeNext]_(ToClient!pipeVars)
  <2>1. /\ h'.srvRead = h.srvRead + n /\ h'.lost = h.lost
        /\ h'.emitted = h.emitted /\ run' = run
    BY <1>0, <1>9 DEF ReaderRead, TypeOK, History
  <2> DEFINE limit == (FromSocksCap + 1) * MaxSeg
             a == h.srvRead - h.lost
             b == h'.srvRead - h'.lost
  <2>2. /\ a \in Int /\ b = a + n /\ n \in Nat /\ h.emitted \in Nat
    BY <1>3, <2>1, Bounds
  <2>3. /\ h.emitted <= a /\ b - h'.emitted <= limit
    BY <1>2 DEF ClientAhead
  <2> HIDE DEF limit, a, b
  <2>4. b \in Nat /\ b >= a /\ b - h.emitted <= limit
    BY <2>1, <2>2, <2>3
  <2>5. ToClient!Take
    BY <2>1, <2>4 DEF ToClient!Take, RunGone, limit, a, b
  <2> QED
    BY <2>5 DEF ToClient!PipeNext
<1> QED
  BY <1>1, <1>5, <1>6, <1>7, <1>8, <1>9 DEF DownMove

\* For channels and reads of any size: what has been read from the server and
\* not sent to the client is never more than FromSocksCap + 1 reads, and no
\* byte is sent that was not read.
THEOREM PipeToClient == Spec => ImplementsPipeToClient
<1>1. Init => DownInv /\ DownPipe /\ ToClient!PipeInit
  BY Bounds DEF Init, DownInv, DownstreamFifo, Contiguous, DownPipe, Queued,
     RunGone, Packed, ToClient!PipeInit
<1>2. OpenInv /\ OpenInv' /\ DownInv /\ DownPipe /\ [Next]_vars
        => /\ DownInv' /\ DownPipe'
           /\ [ToClient!PipeNext]_(ToClient!pipeVars)
  BY DownStep, DownPipeStep, DownPipeMoves DEF OpenInv
<1> QED
  BY <1>1, <1>2, OpenInvariant, PTL
     DEF Spec, ImplementsPipeToClient, ToClient!PipeSpec
=============================================================================
