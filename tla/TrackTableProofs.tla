--------------------------- MODULE TrackTableProofs ---------------------------
(***************************************************************************)
(* Proofs about TrackTable, for any number of connections and tracks.      *)
(*                                                                         *)
(* The invariant Inv says what each step may rely on: an entry of a table  *)
(* is a track created for that connection; what the reader has looked up   *)
(* is still the entry, or the entry is gone; a track that is not marked is *)
(* the entry of its connection; and how far Stop has come.                 *)
(***************************************************************************)
EXTENDS TrackTableProperties, TLAPS

\* What a table maps an id to is a track created for that id.
EntriesOK ==
    /\ \A t \in Tracks : phase[t] # "none" => conn[t] \in Conns
    /\ \A c \in Conns : tcpMap[c] # Nil =>
          phase[tcpMap[c]] # "none" /\ conn[tcpMap[c]] = c
    /\ \A c \in Conns : udpMap[c] # Nil =>
          phase[udpMap[c]] # "none" /\ conn[udpMap[c]] = c

\* The packet in the reader's hand has a connection, and what the reader
\* found for it is the entry or has lost it.  Only the reader adds entries.
ReaderOK ==
    /\ reader.pc \notin {"start", "read", "done"} => reader.conn \in Conns
    /\ reader.pc = "decide" =>
          /\ reader.track \in TcpTracks \cup {Nil}
          /\ reader.track # Nil => phase[reader.track] # "none"
          /\ tcpMap[reader.conn] \in {reader.track, Nil}
    /\ reader.pc = "create" =>
          \/ tcpMap[reader.conn] = Nil
          \/ destroyed[tcpMap[reader.conn]]
    /\ reader.pc = "send" =>
          reader.track \in Tracks /\ phase[reader.track] # "none"

Quit(t) == quitBySelf[t] \/ quitByOther[t]

\* A track that has left its loop has closed, or was told by, a channel.
QuitsOK ==
    \A t \in Tracks : /\ phase[t] = "clear" => quitBySelf[t]
                      /\ phase[t] = "done" => Quit(t)

\* How far Stop has come with the marking, and that it visits a track once.
StopOK ==
    /\ stop.pc = "tcp" =>
          \A t \in TcpTracks :
              (phase[t] # "none" /\ ~destroyed[t]) => t \in stop.todo
    /\ stop.pc \in {"udp", "wait", "returned"} =>
          \A t \in TcpTracks : phase[t] # "none" => destroyed[t]
    /\ stop.pc = "udp" =>
          \A t \in UdpTracks : phase[t] # "none" => Quit(t) \/ t \in stop.todo
    /\ Stopped =>
          \A t \in UdpTracks : phase[t] # "none" => Quit(t)
    /\ stop.pc = "returned" =>
          reader.pc \in {"start", "read", "check", "done"}
    /\ \A t \in TcpTracks : quitByOther[t] =>
          stop.pc \in {"tcp", "udp", "wait", "returned"} /\ t \notin stop.todo
    /\ stop.pc # "tcp" => stop.todo \cap TcpTracks = {}

Inv == /\ TypeOK /\ EntriesOK /\ ReaderOK /\ LiveIndexed /\ UdpEntryKept
       /\ QuitsOK /\ StopOK
-----------------------------------------------------------------------------
LEMMA TypeInit == Init => TypeOK
  BY Distinct DEF Init, TypeOK, Idle, Maybe, Kinds

\* Every step leaves every variable in its type.
LEMMA TypeStep ==
    ASSUME Inv, [Next]_vars PROVE TypeOK'
<1> USE Distinct DEF Inv, TypeOK, Maybe, Kinds, outgoing
<1>1. CASE UNCHANGED vars
  BY <1>1 DEF vars, tables, lives
<1>2. CASE ReaderStep
  <2> USE DEF tables, lives, At, Goto, Idle
  <2>1. CASE \/ ReaderStarts \/ ReadNothing \/ AnsweredFromCache
             \/ ReaderGivesUp
    BY <2>1 DEF ReaderStarts, ReadNothing, AnsweredFromCache, ReaderGivesUp
  <2>2. CASE ReaderChecks
    BY <2>2 DEF ReaderChecks
  <2>3. CASE ReaderLooksUp
    <3>1. reader.conn \in Conns
      BY <2>3 DEF ReaderLooksUp, ReaderOK
    <3>2. tcpMap[reader.conn] \in Tracks \cup {Nil}
      BY <3>1 DEF Tracks
    <3> QED
      BY <2>3, <3>2 DEF ReaderLooksUp
  <2>4. CASE ReaderDecides
    <3>1. CASE reader' = [reader EXCEPT !.pc = "send"] \/ reader' = Idle
      BY <2>4, <3>1 DEF ReaderDecides
    <3>2. CASE reader' = [reader EXCEPT !.pc = "create", !.track = Nil]
      BY <2>4, <3>2 DEF ReaderDecides
    <3>3. CASE reader' = [reader EXCEPT !.pc = "reset", !.track = Nil]
      BY <2>4, <3>3 DEF ReaderDecides
    <3> QED
      BY <2>4, <3>1, <3>2, <3>3 DEF ReaderDecides
  <2>5. CASE ReaderResets
    BY <2>5 DEF ReaderResets
  <2>6. CASE FindUdp
    <3>1. reader.conn \in Conns
      BY <2>6 DEF FindUdp, ReaderOK
    <3>2. udpMap[reader.conn] \in Tracks
      BY <2>6, <3>1 DEF FindUdp, Tracks
    <3> QED
      BY <2>6, <3>2 DEF FindUdp
  <2>7. ASSUME NEW t \in TcpTracks, CreateTcp(t) PROVE TypeOK'
    BY <2>7 DEF CreateTcp, Start, ReaderOK, Tracks
  <2>8. ASSUME NEW t \in UdpTracks, CreateUdp(t) PROVE TypeOK'
    BY <2>8 DEF CreateUdp, Start, ReaderOK, Tracks
  <2> QED
    BY <1>2, <2>1, <2>2, <2>3, <2>4, <2>5, <2>6, <2>7, <2>8 DEF ReaderStep
<1>3. CASE DeviceStep
  BY <1>3 DEF DeviceStep, Read, At, tables, lives
<1>4. CASE AnswerPushed \/ WriterStep
  BY <1>4 DEF AnswerPushed, WriterStep, WriterStarts, WriterWrites,
     WriterQuits, tables, lives
<1>5. CASE TrackStep
  <2> USE DEF tables, lives
  <2>1. CASE TrackTakes
    BY <2>1 DEF TrackTakes, Idle
  <2>2. ASSUME NEW t \in Tracks, TrackWrites(t) PROVE TypeOK'
    BY <2>2 DEF TrackWrites
  <2>3. ASSUME NEW t \in Tracks, TrackCondemned(t) PROVE TypeOK'
    <3>1. destroyed' \in [Tracks -> BOOLEAN]
      BY <2>3 DEF TrackCondemned
    <3> QED
      BY <2>3, <3>1 DEF TrackCondemned
  <2>4. ASSUME NEW t \in Tracks, TrackEnds(t) PROVE TypeOK'
    <3>1. /\ destroyed' \in [Tracks -> BOOLEAN]
          /\ quitBySelf' \in [Tracks -> BOOLEAN]
      BY <2>4 DEF TrackEnds
    <3>2. phase' \in [Tracks -> {"none", "run", "clear", "done"}]
      BY <2>4 DEF TrackEnds
    <3> QED
      BY <2>4, <3>1, <3>2 DEF TrackEnds
  <2>5. ASSUME NEW t \in Tracks PROVE Gone(t) =>
               phase' \in [Tracks -> {"none", "run", "clear", "done"}]
    BY DEF Gone
  <2>6. ASSUME NEW t \in Tracks, TrackQuits(t) PROVE TypeOK'
    BY <2>5, <2>6 DEF TrackQuits
  <2>7. ASSUME NEW t \in Tracks, ClearTcp(t) PROVE TypeOK'
    <3>1. /\ tcpMap' \in [Conns -> Maybe(TcpTracks)]
          /\ destroyed' \in [Tracks -> BOOLEAN]
      BY <2>7 DEF ClearTcp
    <3> QED
      BY <2>5, <2>7, <3>1 DEF ClearTcp
  <2>8. ASSUME NEW t \in Tracks, ClearUdp(t) PROVE TypeOK'
    <3>1. udpMap' \in [Conns -> Maybe(UdpTracks)]
      BY <2>8 DEF ClearUdp
    <3> QED
      BY <2>5, <2>8, <3>1 DEF ClearUdp
  <2> QED
    BY <1>5, <2>1, <2>2, <2>3, <2>4, <2>6, <2>7, <2>8 DEF TrackStep
<1>6. CASE StopTellsWriter \/ StopStep
  <2> USE DEF tables, lives, StopGoto
  <2>1. CASE \/ StopTellsWriter \/ StopClosesDevice \/ StopSetsStopped
             \/ StopReturns
    BY <2>1 DEF StopTellsWriter, StopClosesDevice, StopSetsStopped,
       StopReturns
  <2>2. CASE StopLocksTcp
    <3>1. Mapped(tcpMap) \in SUBSET Tracks
      BY DEF Mapped, Tracks
    <3> QED
      BY <2>2, <3>1 DEF StopLocksTcp
  <2>3. CASE StopLocksUdp
    <3>1. Mapped(udpMap) \in SUBSET Tracks
      BY DEF Mapped, Tracks
    <3> QED
      BY <2>3, <3>1 DEF StopLocksUdp
  <2>4. ASSUME NEW t \in Tracks, StopTrack(t) PROVE TypeOK'
    BY <2>4 DEF StopTrack
  <2> QED
    BY <1>6, <2>1, <2>2, <2>3, <2>4 DEF StopStep
<1> QED
  BY <1>1, <1>2, <1>3, <1>4, <1>5, <1>6 DEF Next

\* The types are those the module states.
-----------------------------------------------------------------------------
(* The entries and the life of the tracks                                  *)

\* A step that creates, ends or clears no track: marks and closed channels
\* stay.
Bystander ==
    /\ UNCHANGED <<tcpMap, udpMap, conn, phase, quitBySelf>>
    /\ \A t \in Tracks : destroyed[t] => destroyed'[t]
    /\ \A t \in Tracks : quitByOther[t] => quitByOther'[t]

\* The steps that are not bystanders.
LEMMA TableSteps ==
    ASSUME Inv, [Next]_vars
    PROVE  \/ Bystander
           \/ \E t \in TcpTracks : CreateTcp(t)
           \/ \E t \in UdpTracks : CreateUdp(t)
           \/ \E t \in Tracks : \/ TrackEnds(t) \/ TrackQuits(t)
                                \/ ClearTcp(t) \/ ClearUdp(t)
<1> USE DEF Bystander
<1>1. CASE UNCHANGED <<tables, lives>>
  BY <1>1 DEF tables, lives
<1>2. ASSUME NEW t \in Tracks, TrackCondemned(t) PROVE Bystander
  BY <1>2 DEF TrackCondemned, tables, Inv, TypeOK
<1>3. ASSUME NEW t \in Tracks, StopTrack(t) PROVE Bystander
  BY <1>3 DEF StopTrack, tables, Inv, TypeOK
<1>4. CASE ReaderStep
  BY <1>1, <1>4 DEF ReaderStep, ReaderStarts, ReadNothing, ReaderChecks,
     ReaderLooksUp, ReaderDecides, ReaderResets, AnsweredFromCache, FindUdp,
     ReaderGivesUp
<1>5. CASE DeviceStep \/ AnswerPushed \/ WriterStep
  BY <1>1, <1>5 DEF DeviceStep, Read, AnswerPushed, WriterStep, WriterStarts,
     WriterWrites, WriterQuits
<1>6. CASE TrackStep
  BY <1>1, <1>2, <1>6 DEF TrackStep, TrackTakes, TrackWrites
<1>7. CASE StopTellsWriter \/ StopStep
  BY <1>1, <1>3, <1>7 DEF StopTellsWriter, StopStep, StopClosesDevice,
     StopLocksTcp, StopLocksUdp, StopSetsStopped, StopReturns, StopGoto
<1>8. CASE UNCHANGED vars
  BY <1>1, <1>8 DEF vars
<1> QED
  BY <1>4, <1>5, <1>6, <1>7, <1>8 DEF Next

LEMMA EntriesStep ==
    ASSUME Inv, TypeOK', [Next]_vars PROVE EntriesOK'
<1> USE Distinct DEF EntriesOK
<1>1. CASE Bystander
  BY <1>1 DEF Bystander, Inv
<1>2. ASSUME NEW t \in TcpTracks, CreateTcp(t) PROVE EntriesOK'
  BY <1>2 DEF CreateTcp, Start, At, Inv, TypeOK, Maybe, ReaderOK, Tracks
<1>3. ASSUME NEW t \in UdpTracks, CreateUdp(t) PROVE EntriesOK'
  BY <1>3 DEF CreateUdp, Start, At, Inv, TypeOK, Maybe, ReaderOK, Tracks
<1>4. ASSUME NEW t \in Tracks, TrackEnds(t) \/ TrackQuits(t)
      PROVE EntriesOK'
  <2>1. UNCHANGED <<tcpMap, udpMap, conn>>
    BY <1>4 DEF TrackEnds, TrackQuits, tables
  <2>2. \A u \in Tracks : (phase'[u] # "none") <=> (phase[u] # "none")
    BY <1>4 DEF TrackEnds, TrackQuits, Gone, Inv, TypeOK
  <2> QED
    BY <2>1, <2>2 DEF Inv, TypeOK, Maybe, Tracks
<1>5. ASSUME NEW t \in Tracks, ClearTcp(t) PROVE EntriesOK'
  BY <1>5 DEF ClearTcp, Gone, Inv, TypeOK, Maybe, Tracks
<1>6. ASSUME NEW t \in Tracks, ClearUdp(t) PROVE EntriesOK'
  BY <1>6 DEF ClearUdp, Gone, Inv, TypeOK, Maybe, Tracks
<1> QED
  BY TableSteps, <1>1, <1>2, <1>3, <1>4, <1>5, <1>6

\* The live track of a connection is replaced by none, and cleared by none
\* that does not mark it.
LEMMA LiveIndexedStep ==
    ASSUME Inv, TypeOK', [Next]_vars PROVE LiveIndexed'
<1> USE Distinct DEF LiveIndexed
<1>1. CASE Bystander
  BY <1>1 DEF Bystander, Inv, TypeOK, Tracks
<1>2. ASSUME NEW t \in TcpTracks, CreateTcp(t) PROVE LiveIndexed'
  <2> SUFFICES ASSUME NEW u \in TcpTracks,
                      phase'[u] # "none", ~destroyed'[u]
               PROVE  tcpMap'[conn'[u]] = u
    OBVIOUS
  <2>1. reader.conn \in Conns
    BY <1>2 DEF CreateTcp, At, Inv, ReaderOK
  <2>2. CASE u = t
    BY <1>2, <2>1, <2>2 DEF CreateTcp, Start, Inv, TypeOK, Tracks
  <2>3. CASE u # t
    <3>1. /\ phase[u] # "none" /\ ~destroyed[u]
          /\ conn'[u] = conn[u] /\ conn[u] \in Conns
      BY <1>2, <2>3 DEF CreateTcp, Start, Inv, TypeOK, EntriesOK, Tracks
    <3>2. tcpMap[conn[u]] = u
      BY <3>1 DEF Inv
    <3>3. conn[u] # reader.conn
      BY <1>2, <3>1, <3>2 DEF CreateTcp, At, Inv, ReaderOK, Tracks
    <3> QED
      BY <1>2, <2>1, <3>1, <3>2, <3>3 DEF CreateTcp, Inv, TypeOK
  <2> QED
    BY <2>2, <2>3
<1>3. ASSUME NEW t \in UdpTracks, CreateUdp(t) PROVE LiveIndexed'
  BY <1>3 DEF CreateUdp, Start, Inv, TypeOK, Tracks
<1>4. ASSUME NEW t \in Tracks, TrackEnds(t) PROVE LiveIndexed'
  <2>1. UNCHANGED <<tcpMap, conn>>
    BY <1>4 DEF TrackEnds, tables
  <2>2. \A u \in Tracks : (phase'[u] # "none") <=> (phase[u] # "none")
    BY <1>4 DEF TrackEnds, Inv, TypeOK
  <2>3. \A u \in TcpTracks : destroyed[u] => destroyed'[u]
    BY <1>4 DEF TrackEnds, Inv, TypeOK, Tracks
  <2> QED
    BY <2>1, <2>2, <2>3 DEF Inv, Tracks
<1>5. ASSUME NEW t \in Tracks, TrackQuits(t) PROVE LiveIndexed'
  BY <1>5 DEF TrackQuits, Gone, tables, Inv, TypeOK, Tracks
<1>6. ASSUME NEW t \in Tracks, ClearTcp(t) PROVE LiveIndexed'
  <2> SUFFICES ASSUME NEW u \in TcpTracks,
                      phase'[u] # "none", ~destroyed'[u]
               PROVE  tcpMap'[conn'[u]] = u
    OBVIOUS
  <2>1. conn[t] \in Conns
    BY <1>6 DEF ClearTcp, Inv, EntriesOK
  <2>2. phase[u] # "none" /\ ~destroyed[u] /\ u # tcpMap[conn[t]]
    BY <1>6, <2>1 DEF ClearTcp, Gone, Inv, TypeOK, Maybe, Tracks
  <2>3. tcpMap[conn[u]] = u /\ conn[u] # conn[t]
    BY <2>2 DEF Inv
  <2> QED
    BY <1>6, <2>1, <2>3, <2>2 DEF ClearTcp, Inv, TypeOK, EntriesOK, Tracks
<1>7. ASSUME NEW t \in Tracks, ClearUdp(t) PROVE LiveIndexed'
  BY <1>7 DEF ClearUdp, Gone, Inv, TypeOK, Tracks
<1> QED
  BY TableSteps, <1>1, <1>2, <1>3, <1>4, <1>5, <1>6, <1>7

LEMMA UdpEntryStep ==
    ASSUME Inv, TypeOK', [Next]_vars PROVE UdpEntryKept'
<1> USE Distinct DEF UdpEntryKept
<1>1. CASE Bystander
  BY <1>1 DEF Bystander, Inv
<1>2. ASSUME NEW t \in TcpTracks, CreateTcp(t) PROVE UdpEntryKept'
  BY <1>2 DEF CreateTcp, Start, Inv, TypeOK, Tracks
<1>3. ASSUME NEW t \in UdpTracks, CreateUdp(t) PROVE UdpEntryKept'
  BY <1>3 DEF CreateUdp, Start, At, Inv, TypeOK, ReaderOK, EntriesOK, Tracks
<1>4. ASSUME NEW t \in Tracks, TrackEnds(t) \/ TrackQuits(t)
      PROVE UdpEntryKept'
  BY <1>4 DEF TrackEnds, TrackQuits, Gone, tables, Inv, TypeOK, Tracks
<1>5. ASSUME NEW t \in Tracks, ClearTcp(t) PROVE UdpEntryKept'
  BY <1>5 DEF ClearTcp, Gone, Inv, TypeOK, Tracks
<1>6. ASSUME NEW t \in Tracks, ClearUdp(t) PROVE UdpEntryKept'
  BY <1>6 DEF ClearUdp, Gone, Inv, TypeOK, EntriesOK, Tracks
<1> QED
  BY TableSteps, <1>1, <1>2, <1>3, <1>4, <1>5, <1>6

LEMMA QuitsStep ==
    ASSUME Inv, TypeOK', [Next]_vars PROVE QuitsOK'
<1> USE Distinct DEF QuitsOK, Quit
<1>1. CASE Bystander
  BY <1>1 DEF Bystander, Inv
<1>2. ASSUME NEW t \in Tracks, Start(t, reader.conn) PROVE QuitsOK'
  BY <1>2 DEF Start, Inv, TypeOK
<1>3. ASSUME NEW t \in Tracks, TrackEnds(t) PROVE QuitsOK'
  BY <1>3 DEF TrackEnds, Inv, TypeOK
<1>4. ASSUME NEW t \in Tracks, TrackQuits(t) PROVE QuitsOK'
  BY <1>4 DEF TrackQuits, Gone, Inv, TypeOK
<1>5. ASSUME NEW t \in Tracks, ClearTcp(t) \/ ClearUdp(t) PROVE QuitsOK'
  BY <1>5 DEF ClearTcp, ClearUdp, Gone, Inv, TypeOK
<1> QED
  BY TableSteps, <1>1, <1>2, <1>3, <1>4, <1>5
     DEF CreateTcp, CreateUdp, Tracks
-----------------------------------------------------------------------------
(* The reader and Stop                                                     *)

\* Between a look-up and the use of what was found an entry may go, never
\* come: the reader is the only one that adds entries.
LEMMA ReaderOKStep ==
    ASSUME Inv, TypeOK', [Next]_vars PROVE ReaderOK'
<1> USE Distinct DEF ReaderOK
<1>1. CASE UNCHANGED reader
  <2>1. \A u \in Tracks : phase[u] # "none" => phase'[u] # "none"
    <3>1. ASSUME NEW t \in Tracks, \/ TrackEnds(t) \/ TrackQuits(t)
                                   \/ ClearTcp(t) \/ ClearUdp(t)
          PROVE \A u \in Tracks : phase[u] # "none" => phase'[u] # "none"
      BY <3>1 DEF TrackEnds, TrackQuits, ClearTcp, ClearUdp, Gone, Inv, TypeOK
    <3>2. ASSUME NEW t \in Tracks, Start(t, reader.conn)
          PROVE \A u \in Tracks : phase[u] # "none" => phase'[u] # "none"
      BY <3>2 DEF Start, Inv, TypeOK
    <3> QED
      BY TableSteps, <3>1, <3>2 DEF Bystander, CreateTcp, CreateUdp, Tracks
  <2>2. ASSUME NEW c \in Conns, reader.pc # "send"
        PROVE  \/ tcpMap'[c] = Nil
               \/ /\ tcpMap'[c] = tcpMap[c]
                  /\ destroyed[tcpMap[c]] => destroyed'[tcpMap[c]]
    <3> SUFFICES ASSUME tcpMap[c] # Nil
                 PROVE  \/ tcpMap'[c] = Nil
                        \/ /\ tcpMap'[c] = tcpMap[c]
                           /\ destroyed[tcpMap[c]] => destroyed'[tcpMap[c]]
      <4>1. tcpMap' = tcpMap \/ \E t \in Tracks : ClearTcp(t)
        BY TableSteps, <1>1, <2>2, ZenonT(60)
           DEF Bystander, CreateTcp, CreateUdp, Start, TrackEnds,
               TrackQuits, ClearUdp, tables, Inv, TypeOK
      <4> QED
        BY <4>1 DEF ClearTcp, Inv, TypeOK
    <3>1. tcpMap[c] \in TcpTracks
      BY DEF Inv, TypeOK, Maybe
    <3>2. ASSUME NEW t \in Tracks, TrackEnds(t)
          PROVE tcpMap' = tcpMap
                /\ (destroyed[tcpMap[c]] => destroyed'[tcpMap[c]])
      BY <3>1, <3>2 DEF TrackEnds, tables, Inv, TypeOK, Tracks
    <3>3. ASSUME NEW t \in Tracks, TrackQuits(t) \/ ClearUdp(t)
          PROVE UNCHANGED <<tcpMap, destroyed>>
      BY <3>3 DEF TrackQuits, ClearUdp, tables
    <3>4. ASSUME NEW t \in Tracks, ClearTcp(t)
          PROVE tcpMap'[c] \in {tcpMap[c], Nil}
                /\ (destroyed[tcpMap[c]] => destroyed'[tcpMap[c]])
      BY <3>1, <3>4 DEF ClearTcp, Inv, TypeOK, Maybe, Tracks
    <3>5. ASSUME NEW t \in Tracks PROVE ~Start(t, reader.conn)
      BY <1>1, <2>2 DEF Start, Inv, TypeOK
    <3> QED
      BY TableSteps, <3>1, <3>2, <3>3, <3>4, <3>5
         DEF Bystander, CreateTcp, CreateUdp, Tracks
  <2> QED
    BY <1>1, <2>1, <2>2 DEF Inv, TypeOK, Maybe, Tracks
<1>2. CASE reader' = Idle
  BY <1>2 DEF Idle
<1>3. ASSUME NEW kind \in Kinds, NEW c \in Conns, Read(kind, c)
      PROVE ReaderOK'
  BY <1>3 DEF Read
<1>4. CASE ReadNothing \/ ReaderChecks
  BY <1>4 DEF ReadNothing, ReaderChecks, At, Goto, Inv, TypeOK
<1>5. CASE ReaderLooksUp
  BY <1>5 DEF ReaderLooksUp, At, tables, lives, Inv, TypeOK, Maybe, EntriesOK
<1>6. CASE ReaderDecides
  <2>1. UNCHANGED <<tcpMap, phase, destroyed>> /\ reader.pc = "decide"
    BY <1>6 DEF ReaderDecides, At, tables, lives
  <2>2. CASE Usable(reader.track) /\ Goto("send")
    BY <2>1, <2>2 DEF Goto, Usable, Inv, TypeOK, Tracks
  <2>3. CASE ~Usable(reader.track)
             /\ reader' = [reader EXCEPT !.pc = "create", !.track = Nil]
    BY <2>1, <2>3 DEF Usable, Inv, TypeOK
  <2>4. CASE reader' = [reader EXCEPT !.pc = "reset", !.track = Nil]
    BY <2>1, <2>4 DEF Inv, TypeOK
  <2> QED
    BY <1>2, <1>6, <2>2, <2>3, <2>4 DEF ReaderDecides
<1>7. ASSUME NEW t \in Tracks, Start(t, reader.conn), reader.conn \in Conns
      PROVE ReaderOK'
  BY <1>7 DEF Start, Inv, TypeOK
<1>8. CASE FindUdp
  BY <1>8 DEF FindUdp, At, tables, lives, Inv, TypeOK, Maybe, EntriesOK, Tracks
<1>9. CASE ReaderStep
  BY <1>2, <1>4, <1>5, <1>6, <1>7, <1>8, <1>9
     DEF ReaderStep, ReaderStarts, ReaderResets, AnsweredFromCache,
         ReaderGivesUp, CreateTcp, CreateUdp, At, Inv, Tracks
<1>10. CASE DeviceStep
  BY <1>3, <1>10 DEF DeviceStep
<1>11. CASE AnswerPushed \/ WriterStep
  BY <1>1, <1>11 DEF AnswerPushed, WriterStep, WriterStarts, WriterWrites,
     WriterQuits
<1>12. CASE TrackStep
  BY <1>1, <1>2, <1>12 DEF TrackStep, TrackTakes, TrackWrites,
     TrackCondemned, TrackEnds, ClearTcp, ClearUdp, TrackQuits
<1>13. CASE StopTellsWriter \/ StopStep
  BY <1>1, <1>13 DEF StopTellsWriter, StopStep, StopClosesDevice,
     StopLocksTcp, StopLocksUdp, StopSetsStopped, StopReturns, StopGoto,
     StopTrack
<1> QED
  BY <1>1, <1>9, <1>10, <1>11, <1>12, <1>13 DEF Next, vars

\* Once Stop has gone through a table it finds nothing unmarked, and tracks
\* it did not meet had ended or were marked.
LEMMA StopOKStep ==
    ASSUME Inv, TypeOK', [Next]_vars PROVE StopOK'
<1> USE Distinct DEF StopOK, Stopped, Quit
<1>1. ASSUME UNCHANGED <<stop, quitByOther>>,
             \A t \in Tracks : /\ quitBySelf[t] => quitBySelf'[t]
                               /\ phase[t] = "none" <=> phase'[t] = "none",
             \A t \in TcpTracks : destroyed[t] => destroyed'[t],
             reader' = reader
      PROVE StopOK'
  BY <1>1 DEF Inv, Tracks
<1>2. ASSUME UNCHANGED <<stop, lives>>,
             stop.pc = "returned" =>
                reader'.pc \in {"start", "read", "check", "done"}
      PROVE StopOK'
  BY <1>2 DEF lives, Inv
<1>3. ASSUME NEW t \in Tracks, TrackCondemned(t) \/ TrackEnds(t)
      PROVE StopOK'
  <2>1. UNCHANGED <<stop, quitByOther, reader>>
    BY <1>3 DEF TrackCondemned, TrackEnds
  <2>2. \A u \in Tracks : /\ quitBySelf[u] => quitBySelf'[u]
                          /\ phase[u] = "none" <=> phase'[u] = "none"
    BY <1>3 DEF TrackCondemned, TrackEnds, Inv, TypeOK
  <2>3. \A u \in TcpTracks : destroyed[u] => destroyed'[u]
    BY <1>3 DEF TrackCondemned, TrackEnds, Inv, TypeOK, Tracks
  <2> QED
    BY <1>1, <2>1, <2>2, <2>3
<1>4. ASSUME NEW t \in Tracks, TrackQuits(t) \/ ClearTcp(t) \/ ClearUdp(t)
      PROVE StopOK'
  <2>1. UNCHANGED <<stop, quitBySelf, quitByOther, reader>>
    BY <1>4 DEF TrackQuits, ClearTcp, ClearUdp
  <2>2. \A u \in Tracks : phase[u] = "none" <=> phase'[u] = "none"
    BY <1>4 DEF TrackQuits, ClearTcp, ClearUdp, Gone, Inv, TypeOK
  <2>3. \A u \in TcpTracks : destroyed[u] => destroyed'[u]
    BY <1>4 DEF TrackQuits, ClearTcp, ClearUdp, Inv, TypeOK, Tracks
  <2> QED
    BY <1>1, <2>1, <2>2, <2>3
<1>5. ASSUME NEW t \in TcpTracks, CreateTcp(t) PROVE StopOK'
  <2>1. stop' = stop /\ stop.pc \in {"idle", "close", "lock"}
    BY <1>5 DEF CreateTcp, TcpFree, At, Inv, TypeOK
  <2>2. quitByOther' = quitByOther
    BY <1>5 DEF CreateTcp, Start
  <2> QED
    BY <2>1, <2>2 DEF Inv
<1>6. ASSUME NEW t \in UdpTracks, CreateUdp(t) PROVE StopOK'
  <2>1. stop' = stop /\ stop.pc \in {"idle", "close", "lock", "tcp"}
    BY <1>6 DEF CreateUdp, UdpFree, At, Inv, TypeOK
  <2>2. UNCHANGED <<quitByOther, destroyed>>
    BY <1>6 DEF CreateUdp, Start
  <2>3. \A u \in TcpTracks : phase'[u] = phase[u]
    BY <1>6 DEF CreateUdp, Start, Inv, TypeOK, Tracks
  <2> QED
    BY <2>1, <2>2, <2>3 DEF Inv
<1>7. CASE ReaderStep
  BY <1>2, <1>5, <1>6, <1>7
     DEF ReaderStep, ReaderStarts, ReadNothing, ReaderChecks, ReaderLooksUp,
         ReaderDecides, ReaderResets, AnsweredFromCache, FindUdp,
         ReaderGivesUp, At, Goto, Idle, Inv, TypeOK
<1>8. CASE DeviceStep
  BY <1>2, <1>8 DEF DeviceStep, Read
<1>9. CASE AnswerPushed \/ WriterStep
  BY <1>2, <1>9 DEF AnswerPushed, WriterStep, WriterStarts, WriterWrites,
     WriterQuits, Inv
<1>10. CASE TrackStep
  BY <1>2, <1>3, <1>4, <1>10 DEF TrackStep, TrackTakes, TrackWrites, Idle, Inv
<1>11. CASE StopTellsWriter \/ StopClosesDevice
  BY <1>11 DEF StopTellsWriter, StopClosesDevice, StopGoto, lives, Inv
<1>12. CASE StopLocksTcp
  <2>1. /\ UNCHANGED lives
        /\ stop' = [pc |-> "tcp", todo |-> Mapped(tcpMap)]
        /\ stop.pc = "lock"
    BY <1>12 DEF StopLocksTcp, StopGoto
  <2>2. ASSUME NEW t \in TcpTracks, phase[t] # "none", ~destroyed[t]
        PROVE t \in Mapped(tcpMap)
    <3>1. tcpMap[conn[t]] = t /\ conn[t] \in Conns
      BY <2>2 DEF Inv, LiveIndexed, EntriesOK, Tracks
    <3> QED
      BY <3>1 DEF Mapped, Tracks
  <2>3. \A t \in TcpTracks : ~quitByOther[t]
    BY <2>1 DEF Inv
  <2> QED
    BY <2>1, <2>2, <2>3 DEF lives
<1>13. CASE StopLocksUdp
  <2>1. /\ UNCHANGED lives
        /\ stop' = [pc |-> "udp", todo |-> Mapped(udpMap)]
        /\ stop.pc = "tcp" /\ stop.todo = {}
    BY <1>13 DEF StopLocksUdp, StopGoto
  <2>2. ASSUME NEW t \in UdpTracks, phase[t] # "none"
        PROVE Quit(t) \/ t \in Mapped(udpMap)
    <3>1. CASE phase[t] = "done"
      BY <3>1 DEF Inv, QuitsOK, Tracks
    <3>2. CASE phase[t] \in {"run", "clear"}
      <4>1. udpMap[conn[t]] = t /\ conn[t] \in Conns
        BY <3>2 DEF Inv, UdpEntryKept, EntriesOK, Tracks
      <4> QED
        BY <4>1 DEF Mapped, Tracks
    <3> QED
      BY <2>2, <3>1, <3>2 DEF Inv, TypeOK, Tracks
  <2>3. Mapped(udpMap) \cap TcpTracks = {}
    BY DEF Mapped, Inv, TypeOK, Maybe, Tracks
  <2> QED
    BY <2>1, <2>2, <2>3 DEF lives, Inv
<1>14. CASE StopSetsStopped
  BY <1>14 DEF StopSetsStopped, StopGoto, lives, Inv
<1>15. CASE StopReturns
  BY <1>15 DEF StopReturns, StopGoto, WaitGroupEmpty, lives, Inv
<1>16. ASSUME NEW t \in Tracks, StopTrack(t) PROVE StopOK'
  <2>1. /\ stop'.pc = stop.pc /\ stop'.todo = stop.todo \ {t}
        /\ UNCHANGED <<phase, quitBySelf, reader>> /\ t \in stop.todo
    BY <1>16 DEF StopTrack, Inv, TypeOK
  <2>2. \A u \in Tracks : quitByOther'[u] <=> quitByOther[u] \/ u = t
    BY <1>16 DEF StopTrack, Inv, TypeOK
  <2>3. \A u \in TcpTracks : destroyed'[u] <=> destroyed[u] \/ u = t
    BY <1>16 DEF StopTrack, Inv, TypeOK, Tracks
  <2>4. t \in TcpTracks => stop.pc = "tcp"
    BY <2>1 DEF Inv
  <2> QED
    BY <2>1, <2>2, <2>3, <2>4 DEF Inv, Tracks
<1>17. CASE UNCHANGED vars
  BY <1>2, <1>17 DEF vars, Inv
<1> QED
  BY <1>7, <1>8, <1>9, <1>10, <1>11, <1>12, <1>13, <1>14, <1>15, <1>16, <1>17
     DEF Next, StopStep
-----------------------------------------------------------------------------
LEMMA InvInit == Init => Inv
<1> SUFFICES ASSUME Init PROVE Inv
  OBVIOUS
<1>1. TypeOK
  BY TypeInit
<1> QED
  BY <1>1, Distinct DEF Init, Inv, EntriesOK, ReaderOK, LiveIndexed,
     UdpEntryKept, QuitsOK, StopOK, Stopped, Idle, Tracks

LEMMA InvStep == Inv /\ [Next]_vars => Inv'
<1> SUFFICES ASSUME Inv, [Next]_vars PROVE Inv'
  OBVIOUS
<1>1. TypeOK'
  BY TypeStep
<1> QED
  BY <1>1, EntriesStep, ReaderOKStep, LiveIndexedStep, UdpEntryStep,
     QuitsStep, StopOKStep DEF Inv

\* The invariant the theorems rest on.
THEOREM InvCorrect == Spec => []Inv
  BY InvInit, InvStep, PTL DEF Spec

\* The variables keep their types.
THEOREM TypeCorrect == Spec => []TypeOK
<1>1. Inv => TypeOK
  BY DEF Inv
<1> QED
  BY <1>1, InvCorrect, PTL

\* A TCP connection has at most one unmarked track, and the table finds it.
THEOREM LiveAlwaysIndexed == Spec => []LiveIndexed
<1>1. Inv => LiveIndexed
  BY DEF Inv
<1> QED
  BY <1>1, InvCorrect, PTL

\* A UDP track's entry is its own until it clears it.
THEOREM UdpEntryAlwaysKept == Spec => []UdpEntryKept
<1>1. Inv => UdpEntryKept
  BY DEF Inv
<1> QED
  BY <1>1, InvCorrect, PTL

\* Stop leaves no TCP track unmarked, in the table or out of it.
THEOREM StopAlwaysReaches == Spec => []StopReachesAll
<1>1. Inv => StopReachesAll
  BY DEF Inv, StopOK, StopReachesAll
<1> QED
  BY <1>1, InvCorrect, PTL

\* A track that has gone never holds the reader.
THEOREM DeliveryAlwaysUnblocked == Spec => []DeliveryUnblocked
<1>1. Inv => DeliveryUnblocked
  <2> SUFFICES ASSUME Inv, reader.pc = "send",
                      \/ phase[reader.track] # "run"
                      \/ reader.track \in UdpTracks /\ Stopped
               PROVE  Quit(reader.track)
    BY DEF DeliveryUnblocked, Quit
  <2>1. reader.track \in Tracks /\ phase[reader.track] # "none"
    BY DEF Inv, ReaderOK
  <2>2. CASE phase[reader.track] # "run"
    BY <2>1, <2>2 DEF Inv, TypeOK, QuitsOK, Quit
  <2>3. CASE reader.track \in UdpTracks /\ Stopped
    BY <2>1, <2>3 DEF Inv, StopOK
  <2> QED
    BY <2>2, <2>3
<1> QED
  BY <1>1, InvCorrect, PTL

\* Nothing is created after Stop.
THEOREM StopAlwaysFinal == Spec => StopIsFinal
<1>1. Inv /\ [Next]_vars => (stop.pc = "returned" => conn' = conn)
  <2> SUFFICES ASSUME Inv, [Next]_vars, stop.pc = "returned"
               PROVE  conn' = conn
    OBVIOUS
  <2>1. reader.pc \notin {"create", "udp"}
    BY DEF Inv, StopOK
  <2> QED
    BY <2>1, TableSteps DEF Bystander, CreateTcp, CreateUdp, At, TrackEnds,
       TrackQuits, ClearTcp, ClearUdp
<1> QED
  BY <1>1, InvCorrect, PTL DEF Spec, StopIsFinal
-----------------------------------------------------------------------------
(* Every TCP track keeps the contract of TrackLife                         *)

LifeStep == \A t \in TcpTracks : [Life(t)!LifeNext]_(Life(t)!lifeVars)

LEMMA TrackLifeStep == ASSUME Inv, [Next]_vars PROVE LifeStep
<1> USE Distinct DEF LifeStep, Life!LifeNext, Life!lifeVars
<1>1. CASE UNCHANGED <<phase, destroyed, quitBySelf, quitByOther>>
  BY <1>1
<1>2. ASSUME NEW t \in Tracks, Start(t, reader.conn) PROVE LifeStep
  BY <1>2 DEF Start, Inv, TypeOK
<1>3. ASSUME NEW t \in Tracks, TrackCondemned(t) PROVE LifeStep
  BY <1>3 DEF TrackCondemned, Life!Doom, Inv, TypeOK, Tracks
<1>4. ASSUME NEW t \in Tracks, TrackEnds(t) PROVE LifeStep
  <2> SUFFICES ASSUME NEW u \in TcpTracks
               PROVE  [Life(u)!LifeNext]_(Life(u)!lifeVars)
    OBVIOUS
  <2>1. CASE u = t
    <3>1. Life(u)!End
      BY <1>4, <2>1 DEF TrackEnds, Life!End, Inv, TypeOK, Tracks
    <3> QED
      BY <3>1
  <2>2. CASE u # t
    BY <1>4, <2>2 DEF TrackEnds, Inv, TypeOK, Tracks
  <2> QED
    BY <2>1, <2>2
<1>5. ASSUME NEW t \in Tracks, TrackQuits(t) PROVE LifeStep
  BY <1>5 DEF TrackQuits, Gone, Life!QuitOther, Inv, TypeOK, Tracks
<1>6. ASSUME NEW t \in Tracks, ClearTcp(t) PROVE LifeStep
  <2> SUFFICES ASSUME NEW u \in TcpTracks
               PROVE  [Life(u)!LifeNext]_(Life(u)!lifeVars)
    OBVIOUS
  <2>1. /\ UNCHANGED <<quitBySelf, quitByOther>>
        /\ t \in TcpTracks /\ phase[t] = "clear" /\ conn[t] \in Conns
        /\ \A v \in Tracks : phase'[v] = IF v = t THEN "done" ELSE phase[v]
    BY <1>6 DEF ClearTcp, Gone, Inv, TypeOK, EntriesOK
  <2>2. \A v \in TcpTracks :
           destroyed'[v] = IF v = tcpMap[conn[t]] THEN TRUE ELSE destroyed[v]
    <3>1. CASE tcpMap[conn[t]] = Nil
      BY <1>6, <3>1 DEF ClearTcp, Tracks
    <3>2. CASE tcpMap[conn[t]] # Nil
      <4>1. destroyed' = [destroyed EXCEPT ![tcpMap[conn[t]]] = TRUE]
        BY <1>6, <3>2 DEF ClearTcp
      <4>2. tcpMap[conn[t]] \in Tracks
        BY <2>1, <3>2 DEF Inv, TypeOK, Maybe, Tracks
      <4> QED
        BY <4>1, <4>2 DEF Inv, TypeOK, Tracks
    <3> QED
      BY <3>1, <3>2
  <2>3. CASE u = t
    <3>1. destroyed'[u]
      BY <2>1, <2>2, <2>3 DEF Inv, LiveIndexed
    <3>2. Life(u)!Clear
      BY <2>1, <2>2, <2>3, <3>1 DEF Life!Clear, Inv, TypeOK, Tracks
    <3> QED
      BY <3>2
  <2>4. CASE u # t
    BY <2>1, <2>2, <2>4 DEF Life!Doom, Inv, TypeOK, Tracks
  <2> QED
    BY <2>3, <2>4
<1>7. ASSUME NEW t \in Tracks, ClearUdp(t) PROVE LifeStep
  BY <1>7 DEF ClearUdp, Gone, Inv, TypeOK, Tracks
<1>8. ASSUME NEW t \in Tracks, StopTrack(t) PROVE LifeStep
  <2> SUFFICES ASSUME NEW u \in TcpTracks
               PROVE  [Life(u)!LifeNext]_(Life(u)!lifeVars)
    OBVIOUS
  <2>1. CASE u = t
    <3>1. ~quitByOther[u]
      BY <1>8, <2>1 DEF StopTrack, Inv, StopOK
    <3> QED
      BY <1>8, <2>1, <3>1 DEF StopTrack, Life!StopIt, Inv, TypeOK, Tracks
  <2>2. CASE u # t
    BY <1>8, <2>2 DEF StopTrack, Inv, TypeOK, Tracks
  <2> QED
    BY <2>1, <2>2
<1>9. CASE ReaderStep
  BY <1>1, <1>2, <1>9
     DEF ReaderStep, ReaderStarts, ReadNothing, ReaderChecks, ReaderLooksUp,
         ReaderDecides, ReaderResets, AnsweredFromCache, FindUdp,
         ReaderGivesUp, CreateTcp, CreateUdp, lives, Tracks
<1>10. CASE DeviceStep \/ AnswerPushed \/ WriterStep
  BY <1>1, <1>10 DEF DeviceStep, Read, AnswerPushed, WriterStep,
     WriterStarts, WriterWrites, WriterQuits, lives
<1>11. CASE TrackStep
  BY <1>1, <1>3, <1>4, <1>5, <1>6, <1>7, <1>11
     DEF TrackStep, TrackTakes, TrackWrites, lives
<1>12. CASE StopTellsWriter \/ StopStep
  BY <1>1, <1>8, <1>12 DEF StopTellsWriter, StopStep, StopClosesDevice,
     StopLocksTcp, StopLocksUdp, StopSetsStopped, StopReturns, StopGoto,
     lives
<1>13. CASE UNCHANGED vars
  BY <1>1, <1>13 DEF vars, lives
<1> QED
  BY <1>9, <1>10, <1>11, <1>12, <1>13 DEF Next

\* The tracks of the table implement TrackLife, which TcpTrack implements.
THEOREM TracksImplementLife == Spec => TracksLive
<1>1. Init => \A t \in TcpTracks : Life(t)!LifeInit
  BY DEF Init, Life!LifeInit, Tracks
<1>2. Inv /\ [Next]_vars => [LifeStep]_lives
  BY TrackLifeStep
<1> QED
  BY <1>1, <1>2, InvCorrect, PTL DEF Spec, TracksLive, LifeStep
=============================================================================
