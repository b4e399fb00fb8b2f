--------------------------- MODULE TwoWayCopyProofs ---------------------------
(***************************************************************************)
(* The safety properties of TwoWayCopy, for any set of connections.  The   *)
(* run covers one connection; that no buffer is shared is about many.      *)
(*                                                                         *)
(* Buffers are numbered as the pool makes them, so a new one is beyond all *)
(* that are held or pooled (MadeOK); a copier that is about to put its     *)
(* buffer back has one (HoldsOK); and copiers are started once (StartOK).  *)
(* A socket that is open is one that a deferred call closes, but for those *)
(* of a SOCKS5 connection in preparation, whose target is not dialled      *)
(* before the answer (ClosingOK).                                          *)
(***************************************************************************)
EXTENDS TwoWayCopyProperties, TLAPS

\* A copier has a buffer from GetBuffer to PutBuffer.
HoldsOK ==
    \A k \in Copier : held[k] = 0 <=> copier[k] \in {"none", "get", "done"}

\* Every buffer in use has been made.
MadeOK ==
    /\ \A k \in Copier : held[k] \in 0 .. made
    /\ pool \subseteq 1 .. made

\* The copiers are started when the preparation is over.
StartOK ==
    \A k \in Copier :
        pc[k[1]] \in {"request", "dial", "answer"} => copier[k] = "none"

\* Every socket is closed, or something deferred closes it.
InHand(c) ==
    /\ local[c] = "closed" \/ "local" \in closing[c]
    /\ remote[c] \in {"nil", "closed"} \/ "remote" \in closing[c]

ClosingOK ==
    \A c \in Conn :
        /\ (program # "socks5" \/ pc[c] \in {"wait", "return", "done"})
              => InHand(c)
        /\ (program = "socks5" /\ pc[c] \in {"request", "dial"})
              => remote[c] = "nil"
        /\ pc[c] = "done" => closing[c] = {}

Inv == TypeOK /\ StartOK /\ HoldsOK /\ MadeOK /\ BuffersExclusive /\ ClosingOK

LEMMA CopierType ==
    ASSUME NEW c \in Conn, NEW d \in Dirs
    PROVE  <<c, d>> \in Copier /\ <<c, d>>[1] = c
BY DEF Copier

LEMMA OwnerType == \A k \in Copier : k[1] \in Conn
BY DEF Copier

LEMMA InvInit == Init => Inv
<1> SUFFICES ASSUME Init PROVE Inv
    OBVIOUS
<1>1. TypeOK
    <2>1. pc \in [Conn -> {"request", "dial", "answer", "wait", "return",
                           "done"}]
        BY DEF Init
    <2>2. /\ copier \in [Copier -> {"none", "get", "read", "write", "retry",
                                     "report", "reportOn", "put", "done"}]
          /\ held \in [Copier -> Nat]
        BY DEF Init
    <2>3. /\ local \in [Conn -> {"open", "ended", "closed"}]
          /\ remote \in [Conn -> {"nil", "open", "ended", "closed"}]
          /\ closing \in [Conn -> SUBSET Sockets]
          /\ pool \subseteq Nat /\ made \in Nat
        BY DEF Init, Sockets
    <2>4. errs \in [Conn -> 0 .. 1]
        <3>1. 0 \in 0 .. 1
            OBVIOUS
        <3> QED
            BY <3>1 DEF Init
    <2> QED
        BY <2>1, <2>2, <2>3, <2>4 DEF Init, TypeOK
<1>2. StartOK /\ HoldsOK
    BY DEF Init, StartOK, HoldsOK
<1>4. MadeOK /\ BuffersExclusive
    <2>1. (\A k \in Copier : held[k] = 0) /\ pool = {} /\ made = 0
        BY DEF Init
    <2> QED
        BY <2>1 DEF MadeOK, BuffersExclusive
<1>3. ClosingOK
    BY DEF Init, ClosingOK, InHand, Programs
<1> QED
    BY <1>1, <1>2, <1>3, <1>4 DEF Inv

\* Steps of the connection's own goroutine and of its peers: they leave the
\* buffers alone,
LEMMA BuffersLeft ==
    ASSUME Inv, NEW c \in Conn,
           \/ Requested(c) \/ Dialled(c) \/ Answered(c)
           \/ PrepareFails(c) \/ RequestFails(c) \/ AnswerFails(c)
           \/ Receives(c) \/ Closes(c) \/ Returns(c)
           \/ LocalEnds(c) \/ RemoteEnds(c)
    PROVE  (MadeOK /\ BuffersExclusive)'
<1>1. UNCHANGED buffers
    BY DEF Requested, Dialled, Answered, PrepareFails, RequestFails, AnswerFails,
           Receives, Closes, Returns, LocalEnds, RemoteEnds
<1> QED
    BY <1>1 DEF Inv, MadeOK, BuffersExclusive, buffers

\* start the copiers when the preparation is over,
LEMMA CopiersStarted ==
    ASSUME Inv, NEW c \in Conn,
           \/ Requested(c) \/ Dialled(c) \/ Answered(c)
           \/ PrepareFails(c) \/ RequestFails(c) \/ AnswerFails(c)
           \/ Receives(c) \/ Closes(c) \/ Returns(c)
           \/ LocalEnds(c) \/ RemoteEnds(c)
    PROVE  (StartOK /\ HoldsOK)'
<1> DEFINE Preparing == {"request", "dial", "answer"}
<1>1. UNCHANGED held
    BY DEF Requested, Dialled, Answered, PrepareFails, RequestFails, AnswerFails,
           Receives, Closes, Returns, LocalEnds, RemoteEnds, buffers
<1>2. ASSUME NEW k \in Copier
      PROVE  /\ \/ copier'[k] = copier[k]
                \/ copier[k] = "none" /\ copier'[k] = "get"
             /\ pc'[k[1]] \in Preparing
                   => pc[k[1]] \in Preparing /\ copier'[k] = copier[k]
    <2>1. k[1] \in Conn
        BY OwnerType
    <2>2. CASE Requested(c) \/ Answered(c)
        <3>1. k[1] = c => copier[k] = "none"
            BY <2>2 DEF Requested, Answered, Inv, StartOK
        <3> QED
            BY <2>1, <2>2, <3>1, ZenonT(60) DEF Requested, Answered, Inv, TypeOK, PcGoto
    <2>3. CASE Dialled(c)
        BY <2>1, <2>3 DEF Dialled, Inv, TypeOK, PcGoto
    <2>4. CASE \/ PrepareFails(c) \/ RequestFails(c) \/ AnswerFails(c)
               \/ Receives(c) \/ Closes(c) \/ Returns(c)
               \/ LocalEnds(c) \/ RemoteEnds(c)
        BY <2>1, <2>4
        DEF PrepareFails, RequestFails, AnswerFails, Receives, Closes, Returns,
            LocalEnds, RemoteEnds, Inv, TypeOK, PcGoto
    <2> QED
        BY <2>2, <2>3, <2>4
<1> QED
    BY <1>1, <1>2 DEF Inv, StartOK, HoldsOK

\* and close what they opened.
LEMMA SocketsInHand ==
    ASSUME Inv, NEW c \in Conn,
           \/ Requested(c) \/ Dialled(c) \/ Answered(c)
           \/ PrepareFails(c) \/ RequestFails(c) \/ AnswerFails(c)
           \/ Receives(c) \/ Closes(c) \/ Returns(c)
           \/ LocalEnds(c) \/ RemoteEnds(c)
    PROVE  (TypeOK /\ ClosingOK)'
<1> USE DEF Inv, TypeOK, ClosingOK, InHand, PcGoto, Defer, Sockets, sockets, buffers
<1>1. CASE Requested(c)
    <2>1. UNCHANGED <<program, local, remote, errs, held, pool, made>>
        BY <1>1 DEF Requested
    <2>2. CASE program = "tunnel client"
        <3>1. /\ pc' = [pc EXCEPT ![c] = "wait"]
              /\ closing' = [closing EXCEPT ![c] = @ \cup {"local", "remote"}]
              /\ copier' = [k \in Copier |->
                                IF k[1] = c THEN "get" ELSE copier[k]]
            BY <1>1, <2>2 DEF Requested
        <3>2. copier' \in [Copier -> {"none", "get", "read", "write", "retry",
                                      "report", "reportOn", "put", "done"}]
            BY <3>1
        <3>3. TypeOK'
            BY <2>1, <3>1, <3>2
        <3>4. ClosingOK'
            BY <2>1, <2>2, <3>1
        <3> QED
            BY <3>3, <3>4
    <2>3. CASE program # "tunnel client"
        BY <1>1, <2>1, <2>3, ZenonT(60) DEF Requested
    <2> QED
        BY <2>2, <2>3
<1>2. CASE Dialled(c)
    BY <1>2 DEF Dialled
<1>3. CASE Answered(c)
    BY <1>3 DEF Answered
<1>4. CASE PrepareFails(c)
    BY <1>4 DEF PrepareFails
<1>5. CASE RequestFails(c) \/ AnswerFails(c)
    <2>1. TypeOK'
        BY <1>5 DEF RequestFails, AnswerFails
    <2>2. ClosingOK'
        BY <1>5 DEF RequestFails, AnswerFails
    <2> QED
        BY <2>1, <2>2
<1>6. CASE Receives(c) \/ Returns(c)
    <2>1. TypeOK'
        <3>1. errs' \in [Conn -> 0 .. 1]
            BY <1>6 DEF Receives, Returns
        <3> QED
            BY <1>6, <3>1 DEF Receives, Returns
    <2>2. ClosingOK'
        BY <1>6 DEF Receives, Returns
    <2> QED
        BY <2>1, <2>2
<1>7. CASE Closes(c)
    BY <1>7, SMTT(30) DEF Closes
<1>8. CASE LocalEnds(c) \/ RemoteEnds(c)
    BY <1>8, ZenonT(60) DEF LocalEnds, RemoteEnds
<1> QED
    BY <1>1, <1>2, <1>3, <1>4, <1>5, <1>6, <1>7, <1>8

\* The two steps that move buffers.
LEMMA BufferSteps ==
    ASSUME Inv, NEW c \in Conn, NEW d \in Dirs,
           GetBuffer(c, d) \/ PutBuffer(c, d)
    PROVE  Inv'
<1> USE DEF Inv
<1> DEFINE me == <<c, d>>
<1>0. me \in Copier
    BY CopierType
<1> HIDE DEF me
<1>1. ASSUME GetBuffer(c, d) PROVE Inv'
    <2>1. PICK b \in Nat \ {0} :
              /\ held' = [held EXCEPT ![me] = b]
              /\ b \notin pool'
              /\ \A k \in Copier : held[k] # b
              /\ b <= made'
              /\ made' \in Nat /\ made <= made'
              /\ pool' \subseteq pool
        <3>1. ASSUME NEW b \in pool,
                     held' = [held EXCEPT ![me] = b],
                     pool' = pool \ {b}, UNCHANGED made
              PROVE  /\ b \in Nat \ {0}
                     /\ b \notin pool'
                     /\ \A k \in Copier : held[k] # b
                     /\ b <= made'
                     /\ made' \in Nat /\ made <= made'
                     /\ pool' \subseteq pool
            <4>1. b \in 1 .. made /\ made \in Nat
                BY DEF MadeOK, TypeOK
            <4>2. \A k \in Copier : held[k] # b
                BY <4>1 DEF BuffersExclusive
            <4> QED
                BY <3>1, <4>1, <4>2
        <3>2. ASSUME made' = made + 1,
                     held' = [held EXCEPT ![me] = made + 1],
                     pool = {}, UNCHANGED pool
              PROVE  /\ made + 1 \in Nat \ {0}
                     /\ made + 1 \notin pool'
                     /\ \A k \in Copier : held[k] # made + 1
                     /\ made + 1 <= made'
                     /\ made' \in Nat /\ made <= made'
                     /\ pool' \subseteq pool
            BY <3>2 DEF MadeOK, TypeOK
        <3> QED
            BY <1>1, <3>1, <3>2 DEF GetBuffer, me
    <2>2. copier' = [copier EXCEPT ![me] = "read"] /\ copier[me] = "get"
        BY <1>1 DEF GetBuffer, CopierGoto, CopierAt, me
    <2>3. UNCHANGED <<program, pc, local, remote, closing, errs>>
        BY <1>1 DEF GetBuffer, sockets
    <2>4. TypeOK'
        BY <1>0, <2>1, <2>2, <2>3 DEF TypeOK
    <2>5. HoldsOK'
        BY <1>0, <2>1, <2>2 DEF HoldsOK, TypeOK
    <2>6. MadeOK'
        <3>1. made \in Nat /\ made' \in Nat /\ made <= made'
            BY <2>1 DEF TypeOK
        <3>2. ASSUME NEW k \in Copier PROVE held'[k] \in 0 .. made'
            BY <1>0, <2>1, <3>1 DEF MadeOK, TypeOK
        <3>3. pool' \subseteq 1 .. made'
            BY <2>1, <3>1 DEF MadeOK
        <3> QED
            BY <3>2, <3>3 DEF MadeOK
    <2>7. BuffersExclusive'
        BY <1>0, <2>1 DEF BuffersExclusive, TypeOK
    <2>8. ClosingOK'
        BY <2>3 DEF ClosingOK, InHand
    <2>9. StartOK'
        BY <1>0, <2>2, <2>3 DEF StartOK, TypeOK
    <2> QED
        BY <2>4, <2>5, <2>6, <2>7, <2>8, <2>9
<1>2. ASSUME PutBuffer(c, d) PROVE Inv'
    <2>1. copier' = [copier EXCEPT ![me] = "done"] /\ copier[me] = "put"
        BY <1>2 DEF PutBuffer, CopierGoto, CopierAt, me
    <2>2. /\ pool' = pool \union {held[me]}
          /\ held' = [held EXCEPT ![me] = 0]
          /\ UNCHANGED <<program, pc, local, remote, closing, errs, made>>
        BY <1>2 DEF PutBuffer, sockets, me
    <2>3. held[me] \in 1 .. made
        BY <1>0, <2>1 DEF HoldsOK, MadeOK, TypeOK
    <2>4. TypeOK'
        BY <1>0, <2>1, <2>2, <2>3 DEF TypeOK
    <2>5. HoldsOK'
        BY <1>0, <2>1, <2>2 DEF HoldsOK, TypeOK
    <2>6. MadeOK'
        <3>1. ASSUME NEW k \in Copier PROVE held'[k] \in 0 .. made'
            <4>1. CASE k = me
                BY <1>0, <2>2, <4>1 DEF TypeOK
            <4>2. CASE k # me
                BY <1>0, <2>2, <4>2 DEF MadeOK, TypeOK
            <4> QED
                BY <4>1, <4>2
        <3>2. pool' \subseteq 1 .. made'
            BY <2>2, <2>3 DEF MadeOK
        <3> QED
            BY <3>1, <3>2 DEF MadeOK
    <2>7. BuffersExclusive'
        BY <1>0, <2>2, <2>3 DEF BuffersExclusive, TypeOK
    <2>8. ClosingOK'
        BY <2>2 DEF ClosingOK, InHand
    <2>9. StartOK'
        BY <1>0, <2>1, <2>2 DEF StartOK, TypeOK
    <2> QED
        BY <2>4, <2>5, <2>6, <2>7, <2>8, <2>9
<1> QED
    BY <1>1, <1>2

\* The other steps of a copier move its counter between places where it has a
\* buffer.
LEMMA CopySteps ==
    ASSUME Inv, NEW c \in Conn, NEW d \in Dirs,
           \/ Reads(c, d) \/ Writes(c, d) \/ ReadFails(c, d)
           \/ WriteFails(c, d) \/ WritesRest(c, d) \/ Reports(c, d)
    PROVE  Inv'
<1> USE DEF Inv
<1> DEFINE me == <<c, d>>
           Using == {"read", "write", "retry", "report", "reportOn", "put"}
<1>0. me \in Copier
    BY CopierType
<1>1. PICK l \in Using : copier' = [copier EXCEPT ![me] = l]
    BY DEF Reads, Writes, ReadFails, WriteFails, WritesRest, Reports,
           CopierGoto
<1>2. copier[me] \in Using
    BY DEF Reads, Writes, ReadFails, WriteFails, WritesRest, Reports, CopierAt
<1>3. UNCHANGED <<program, local, remote, closing, held, pool, made>>
    BY DEF Reads, Writes, ReadFails, WriteFails, WritesRest, Reports,
           sockets, buffers
<1>4. /\ pc' = pc \/ (pc[c] = "wait" /\ pc' = [pc EXCEPT ![c] = "return"])
      /\ errs' = errs \/ errs' = [errs EXCEPT ![c] = 1]
    BY DEF Reads, Writes, ReadFails, WriteFails, WritesRest, Reports, PcGoto
<1> HIDE DEF me
<1>5. TypeOK'
    <2>1. pc' \in [Conn -> {"request", "dial", "answer", "wait", "return",
                            "done"}]
        BY <1>4 DEF TypeOK
    <2>2. errs' \in [Conn -> 0 .. 1]
        BY <1>4 DEF TypeOK
    <2> QED
        BY <1>0, <1>1, <1>3, <2>1, <2>2 DEF TypeOK
<1>6. HoldsOK'
    BY <1>0, <1>1, <1>2, <1>3 DEF HoldsOK, TypeOK
<1>7. (MadeOK /\ BuffersExclusive)'
    BY <1>3 DEF MadeOK, BuffersExclusive
<1>8. ClosingOK'
    BY <1>3, <1>4 DEF ClosingOK, InHand, TypeOK
<1>9. StartOK'
    <2>1. ASSUME NEW k \in Copier,
                 pc'[k[1]] \in {"request", "dial", "answer"}
          PROVE  pc[k[1]] \in {"request", "dial", "answer"}
        BY <1>4, <2>1, OwnerType DEF TypeOK
    <2>2. me \in Copier /\ me[1] = c /\ pc[c] \notin {"request", "dial", "answer"}
        BY <1>0, <1>2, CopierType DEF StartOK, me
    <2> QED
        BY <1>1, <2>1, <2>2 DEF StartOK, TypeOK
<1> QED
    BY <1>5, <1>6, <1>7, <1>8, <1>9

LEMMA InvNext == Inv /\ [Next]_vars => Inv'
<1> SUFFICES ASSUME Inv, [Next]_vars PROVE Inv'
    OBVIOUS
<1>1. CASE UNCHANGED vars
    BY <1>1 DEF vars, sockets, buffers, Inv, TypeOK, StartOK, HoldsOK, MadeOK,
                BuffersExclusive, ClosingOK, InHand
<1>2. CASE Next
    <2>1. PICK c \in Conn :
              \/ Requested(c) \/ Dialled(c) \/ Answered(c)
              \/ PrepareFails(c) \/ RequestFails(c) \/ AnswerFails(c)
              \/ Receives(c) \/ Closes(c) \/ Returns(c)
              \/ LocalEnds(c) \/ RemoteEnds(c)
              \/ \E d \in Dirs :
                     CopierMoves(c, d) \/ Reads(c, d) \/ Writes(c, d)
        BY <1>2 DEF Next
    <2>2. CASE \E d \in Dirs : CopierMoves(c, d) \/ Reads(c, d) \/ Writes(c, d)
        <3>1. PICK d \in Dirs :
                  CopierMoves(c, d) \/ Reads(c, d) \/ Writes(c, d)
            BY <2>2
        <3> QED
            BY <3>1, BufferSteps, CopySteps DEF CopierMoves
    <2> QED
        BY <2>1, <2>2, BuffersLeft, CopiersStarted, SocketsInHand DEF Inv
<1> QED
    BY <1>1, <1>2

\* The inductive invariant.
THEOREM InvCorrect == Spec => []Inv
BY InvInit, InvNext, PTL DEF Spec

\* The variables keep their types (the error channel holds one error at most).
THEOREM TypeCorrect == Spec => []TypeOK
<1>1. Inv => TypeOK
    BY DEF Inv
<1> QED
    BY <1>1, InvCorrect, PTL

\* Whatever connections there are, no two copiers share a buffer
\* (kcp/service/conn.go:154-186, Server.go:160-167).
THEOREM BuffersAlwaysExclusive == Spec => []BuffersExclusive
<1>1. Inv => BuffersExclusive
    BY DEF Inv
<1> QED
    BY <1>1, InvCorrect, PTL

\* On every path to the end of a connection, in each of the three programs, both
\* its sockets are closed, for any number of connections (conn.go:22-28, 68-71,
\* 112-115, 147-150, Server.go:38-52, 135-138).
THEOREM SocketsAlwaysClosed == Spec => []SocketsClosed
<1>1. Inv => SocketsClosed
    BY DEF Inv, TypeOK, ClosingOK, InHand, SocketsClosed
<1> QED
    BY <1>1, InvCorrect, PTL
=============================================================================
