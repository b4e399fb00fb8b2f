-------------------------------- MODULE Datagrams --------------------------------
(***************************************************************************)
(* The way of UDP datagrams through tun2socks: the reader of Run           *)
(* (tun2socks.go) puts fragments together and hands each datagram to udp() *)
(* (udp.go), which answers a DNS request from the cache, from a goroutine  *)
(* of its own, or opens a track.  A track sends its answer, fragmented if  *)
(* it is long, and stores it if it is a DNS answer.  All responses go      *)
(* through writeCh to the writer of Run, packet by packet.                 *)
(*                                                                         *)
(* The device hands the fragments of a datagram over in order, those of    *)
(* several datagrams mixed, and may lose some.  A datagram gets one        *)
(* response at most; how its track comes to it is UdpTrack's matter, and   *)
(* how the reader delivers to the track TrackTable's.                      *)
(***************************************************************************)
EXTENDS Fragments, Reassembly, DnsCache

CONSTANTS
    Parts,          \* the datagrams that come, and how many packets each is
    Mixes,          \* which of them come together
    IPIds,          \* the IP ids of those that come in fragments
    Length,         \* the length of the response to each, UDP header included
    WriteCap,       \* capacity of writeCh
    FirstIPID       \* of the responses

\* The id of a header has 16 bits.
IdSpace == 65536
HeaderIds == 0 .. IdSpace - 1

Datagrams == DOMAIN Parts
Fragmentary == {d \in Datagrams : Parts[d] > 1}

\* A DNS request is not fragmented.
ASSUME DatagramsAssumption ==
    /\ Requests \subseteq Datagrams
    /\ \A d \in Requests : Parts[d] = 1
    /\ Parts \in [Datagrams -> Nat \ {0}]
    /\ Mixes \subseteq SUBSET Datagrams
    /\ Length \in [Datagrams -> Nat]
    /\ \A d \in Datagrams : Length[d] >= UDPHeader
    /\ WriteCap \in Nat \ {0}
    /\ FirstIPID \in HeaderIds

VARIABLES
    coming,         \* the datagrams that come
    ipId,           \* the IP id of each
    read,           \* how many of its packets have left the device
    packing,        \* the messages udp() is serialising, and for whom
    packed,         \* the id and the message a request was answered with
    track,          \* how far the track of each datagram is
    globalIPID,
    pushing,        \* the packets a goroutine has still to put in writeCh,
                    \* by the datagram they answer
    writeCh,
    writer,         \* the tun writer runs
    written,        \* by IP id: what the writer has written to the device
    begun, lost, passed, stores, found
                    \* history: by IP id, the length of the response begun
                    \* under it; the datagrams that lost a packet; what
                    \* procFragment passed on; what was stored when; what had
                    \* been stored, and when it was, at a request's hit

arrivals == <<coming, ipId>>
history == <<lost, passed, stores, found>>
udpVars == <<packing, packed, track>>
outVars == <<globalIPID, begun, pushing, writeCh, writer, written>>
vars == <<arrivals, read, frags, cacheVars, udpVars, outVars, history>>
-----------------------------------------------------------------------------
Packet == [id: HeaderIds, offset: Nat, from: Nat, to: Nat, more: BOOLEAN]
Piece == [of: Datagrams, part: Nat]

ReaderTypeOK ==
    /\ coming \in Mixes /\ ipId \in [Fragmentary \cap coming -> IPIds]
    /\ DOMAIN frags \subseteq IPIds
    /\ \A id \in DOMAIN frags : frags[id] \in Seq(Piece) \ {<<>>}
    /\ read \in [Datagrams -> Nat] /\ \A d \in Datagrams : read[d] <= Parts[d]
    /\ lost \subseteq Datagrams
    /\ passed \in Seq(Seq(Piece) \ {<<>>})

TracksTypeOK ==
    /\ packing \subseteq [of: Requests, msg: Requests]
    /\ packed \in [Requests -> {<<>>} \cup [id: Requests, msg: Requests]]
    /\ track \in [Datagrams -> {"none", "wait", "send", "store", "done"}]

OutTypeOK ==
    /\ globalIPID \in HeaderIds
    /\ pushing \in [Datagrams -> Seq(Packet)]
    /\ writeCh \in Seq(Packet) /\ Len(writeCh) <= WriteCap
    /\ writer \in BOOLEAN
    /\ \A id \in DOMAIN written : written[id] \in Seq(Packet) \ {<<>>}
    /\ \A id \in DOMAIN begun : begun[id] \in Nat

TypeOK == CacheTypeOK /\ ReaderTypeOK /\ TracksTypeOK /\ OutTypeOK

Init ==
    /\ CacheInit
    /\ coming \in Mixes /\ ipId \in [Fragmentary \cap coming -> IPIds]
    /\ frags = <<>>
    /\ read = [d \in Datagrams |-> 0]
    /\ packing = {} /\ packed = [r \in Requests |-> <<>>]
    /\ track = [d \in Datagrams |-> "none"]
    /\ globalIPID = FirstIPID /\ begun = <<>>
    /\ pushing = [d \in Datagrams |-> <<>>]
    /\ writeCh = <<>> /\ writer = TRUE /\ written = <<>>
    /\ lost = {} /\ passed = <<>> /\ stores = <<>>
    /\ found = [r \in Requests |-> <<>>]
-----------------------------------------------------------------------------
(* The reader of Run                                                       *)

\* Mutant: a cached answer is serialised by the goroutine that sends it.
ReaderFreeEarly == TRUE

\* The reader takes the next packet when udp() has returned.
ReaderFree == packing = {}

NextPacket(d) ==
    [id |-> ipId[d], of |-> d, part |-> read[d] + 1,
     more |-> read[d] + 1 < Parts[d]]

Takes(d) ==
    /\ ReaderFree /\ d \in coming /\ read[d] < Parts[d]
    /\ read' = [read EXCEPT ![d] = @ + 1]

Forward(d) == track' = [track EXCEPT ![d] = "wait"]

\* What is put together is passed on under the first header it holds.
ReadFragment(d) ==
    /\ Takes(d) /\ Parts[d] > 1
    /\ procFragment(NextPacket(d))
    /\ IF last(NextPacket(d))
       THEN LET wire == Wire(NextPacket(d)) IN
            /\ passed' = Append(passed, wire)
            /\ IF track[wire[1].of] = "none"
               THEN Forward(wire[1].of) ELSE UNCHANGED track
       ELSE UNCHANGED <<passed, track>>
    /\ UNCHANGED <<arrivals, cacheVars, packing, packed, outVars, lost, stores,
                   found>>

\* A datagram of one packet that is not for the cache, or not found there.
ReadMiss(d) ==
    /\ Takes(d) /\ Parts[d] = 1
    /\ IF d \in Requests THEN Miss(d) ELSE UNCHANGED cacheVars
    /\ Forward(d)
    /\ UNCHANGED <<arrivals, frags, packing, packed, outVars, history>>

ReadHit(d) ==
    /\ d \in Requests /\ Takes(d)
    /\ Hit(d)
    /\ packing' = packing \cup {[of |-> d, msg |-> storage[cacheKey[d]].msg]}
    /\ found' = [found EXCEPT ![d] = [after |-> Len(stores), at |-> clock]]
    /\ UNCHANGED <<arrivals, frags, packed, track, outVars, lost, passed, stores>>

\* Mutant: the counter is not cut to the width of the header's field.
NextIPIDUnmasked == globalIPID + 1

NextIPID == (globalIPID + 1) % IdSpace

\* responsePacket: the packets are made at once, under the next id.
Respond(d, length) ==
    /\ globalIPID' = NextIPID
    /\ pushing' = [pushing EXCEPT ![d] = Train(NextIPID, length)]
    /\ begun' = Assign(begun, NextIPID, length)

\* PackBuffer serialises the message as it is now, and the goroutine starts.
Pack(answer) ==
    /\ packing' = packing \ {answer}
    /\ packed' = [packed EXCEPT
                    ![answer.of] = [id |-> msgId[answer.msg], msg |-> answer.msg]]
    /\ Respond(answer.of, Length[answer.msg])
    /\ UNCHANGED <<arrivals, read, frags, cacheVars, track, writeCh, writer,
                   written, history>>

\* The message cannot be serialised, and the request goes to a track.
PackFails(answer) ==
    /\ packing' = packing \ {answer}
    /\ Forward(answer.of)
    /\ UNCHANGED <<arrivals, read, frags, cacheVars, packed, outVars, history>>

Lose(d) ==
    /\ d \in coming /\ read[d] < Parts[d]
    /\ read' = [read EXCEPT ![d] = @ + 1]
    /\ lost' = lost \cup {d}
    /\ UNCHANGED <<arrivals, frags, cacheVars, udpVars, outVars, passed, stores,
                   found>>
-----------------------------------------------------------------------------
(* The tracks, and the goroutines of udp()                                 *)

TrackGoto(d, pc) == track' = [track EXCEPT ![d] = pc]

\* The relay answers.
Answered(d) ==
    /\ track[d] = "wait" /\ TrackGoto(d, "send")
    /\ Respond(d, Length[d])
    /\ UNCHANGED <<arrivals, read, frags, cacheVars, packing, packed, writeCh,
                   writer, written, history>>

\* It never does, and the timer fires.
GivesUp(d) ==
    /\ track[d] = "wait" /\ TrackGoto(d, "done")
    /\ UNCHANGED <<arrivals, read, frags, cacheVars, packing, packed, outVars,
                   history>>

\* Mutant: the packets are put there from the last to the first.
PushLast(d) ==
    /\ pushing[d] # <<>> /\ Len(writeCh) < WriteCap
    /\ writeCh' = Append(writeCh, pushing[d][Len(pushing[d])])
    /\ pushing' = [pushing EXCEPT ![d] = SubSeq(@, 1, Len(@) - 1)]
    /\ UNCHANGED <<arrivals, read, frags, cacheVars, udpVars, globalIPID,
                   begun, writer, written, history>>

\* Mutant: a packet that finds writeCh full is dropped.
PushOrDrop(d) ==
    /\ pushing[d] # <<>>
    /\ writeCh' = IF Len(writeCh) < WriteCap
                  THEN Append(writeCh, Head(pushing[d])) ELSE writeCh
    /\ pushing' = [pushing EXCEPT ![d] = Tail(@)]
    /\ UNCHANGED <<arrivals, read, frags, cacheVars, udpVars, globalIPID,
                   begun, writer, written, history>>

\* A track, or the goroutine of udp(), puts its next packet in writeCh.
Push(d) ==
    /\ pushing[d] # <<>> /\ Len(writeCh) < WriteCap
    /\ writeCh' = Append(writeCh, Head(pushing[d]))
    /\ pushing' = [pushing EXCEPT ![d] = Tail(@)]
    /\ UNCHANGED <<arrivals, read, frags, cacheVars, udpVars, globalIPID,
                   begun, writer, written, history>>

\* send has returned.
Sent(d) ==
    /\ track[d] = "send" /\ pushing[d] = <<>>
    /\ TrackGoto(d, IF d \in Requests THEN "store" ELSE "done")
    /\ UNCHANGED <<arrivals, read, frags, cacheVars, packing, packed, outVars,
                   history>>

\* The answer need not repeat the question of the request.
Stores(d, key) ==
    /\ track[d] = "store" /\ TrackGoto(d, "done")
    /\ store(d, key)
    /\ stores' = Append(stores, [msg |-> d, key |-> key, at |-> clock])
    /\ UNCHANGED <<arrivals, read, frags, packing, packed, outVars, lost, passed,
                   found>>

\* An error, or an answer with nothing in it.
StoresNothing(d) ==
    /\ track[d] = "store" /\ TrackGoto(d, "done")
    /\ UNCHANGED <<arrivals, read, frags, cacheVars, packing, packed, outVars,
                   history>>
-----------------------------------------------------------------------------
(* The writer of Run                                                       *)

Write ==
    /\ writer /\ writeCh # <<>>
    /\ writeCh' = Tail(writeCh)
    /\ LET packet == Head(writeCh) IN
       written' = Assign(written, packet.id,
                         Append(IF packet.id \in DOMAIN written
                                THEN written[packet.id] ELSE <<>>, packet))
    /\ UNCHANGED <<arrivals, read, frags, cacheVars, udpVars, globalIPID,
                   begun, pushing, writer, history>>

WriterQuits ==
    /\ writer /\ writer' = FALSE
    /\ UNCHANGED <<arrivals, read, frags, cacheVars, udpVars, globalIPID,
                   begun, pushing, writeCh, written, history>>
-----------------------------------------------------------------------------
Time == Tick /\ UNCHANGED <<arrivals, read, frags, udpVars, outVars, history>>

ReaderStep(d) == ReadFragment(d) \/ ReadMiss(d) \/ ReadHit(d)

TrackStep(d) ==
    \/ Sent(d) \/ StoresNothing(d)
    \/ \E key \in Range(cacheKey) : Stores(d, key)

Next ==
    \/ \E d \in Datagrams :
          ReaderStep(d) \/ Lose(d) \/ Answered(d) \/ GivesUp(d)
          \/ Push(d) \/ TrackStep(d)
    \/ \E answer \in packing : Pack(answer) \/ PackFails(answer)
    \/ Write \/ WriterQuits \/ Time

Spec == Init /\ [][Next]_vars

\* The writer takes what is in writeCh while it runs, and one of those who wait
\* for room in it puts a packet there.
Fairness == WF_vars(Write) /\ WF_vars(\E d \in Datagrams : Push(d))

FairSpec == Spec /\ Fairness
=============================================================================
