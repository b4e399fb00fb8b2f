---------------------------- MODULE SocksServerProofs ----------------------------
(***************************************************************************)
(* Type correctness of the SOCKS server, that changes are in force for     *)
(* those who connect after them, that no connection is lost between the    *)
(* goroutine that accepts and Serve, and that the handler of a connection  *)
(* leaves nothing open, for any number of connections and of changes.      *)
(*                                                                         *)
(* The invariant has a part for each.  For the changes: while the loop     *)
(* runs none has returned in vain, so what a client could rely on when it  *)
(* connected has been taken; and a change that is taken is newer than all  *)
(* that had returned when it was called.  For the connections: the         *)
(* goroutine that accepts runs as long as the loop.  For the handler: what *)
(* it has opened, by how far it is.                                        *)
(***************************************************************************)
EXTENDS SocksServerProperties, TLAPS

HandlerOK ==
    /\ Serving!TypeOK
    /\ handler \in {"none", "auth", "request", "dial", "bind"} =>
          /\ remote = "nil" /\ clientBind = "nil" /\ forwardingBind = "nil"
          /\ monitor = "none"
    /\ handler \in {"reply", "copy"} =>
          /\ remote # "nil" /\ clientBind = "nil" /\ forwardingBind = "nil"
          /\ monitor = "none"
    /\ handler \in {"bindReply", "first", "dialUDP", "write"} =>
          remote = "nil" /\ monitor = "none"
    /\ handler \in {"bindReply", "first", "dialUDP"} => forwardingBind = "nil"
    /\ handler = "select" => remote = "nil"
    /\ handler \in {"drainClient", "drainRemote"} =>
          /\ remote = "nil" /\ conn = "closed"
          /\ clientBind = "closed" /\ forwardingBind = "closed"
    /\ monitor # "done" => quit = 0

\* A copier that has ended has closed the socket it wrote to.
CopiersOK ==
    /\ handler \notin {"copy", "done"} => \A end \in Serving!Ends : copier[end] = "none"
    /\ handler = "done" => \A end \in Serving!Ends : copier[end] \in {"none", "done"}
    /\ copier["conn"] = "done" => conn = "closed"
    /\ copier["remote"] = "done" => remote = "closed"

HandlerInv == HandlerOK /\ CopiersOK /\ Released

LEMMA HandlerInit == Serving!Init => HandlerInv
  BY DEF HandlerInv, HandlerOK, CopiersOK, Released, Handling!Released,
         Handling!Done, Serving!Init, Serving!TypeOK, Serving!Ends,
         Serving!Client!UdpReaderTypeOK, Serving!Remote!UdpReaderTypeOK

\* The steps of the goroutine of the connection, but for those of its loops.
LEMMA ServeKeeps ==
    ASSUME HandlerInv, Serving!ServeStep
    PROVE  HandlerInv'
  <1> USE DEF HandlerInv, HandlerOK, CopiersOK, Released, Handling!Released,
              Handling!Done, Serving!TypeOK, Serving!Ends,
              Serving!connect, Serving!binds, Serving!helpers, Serving!associate,
              Serving!Client!UdpReaderTypeOK, Serving!Remote!UdpReaderTypeOK
  <1>1. CASE Serving!AuthFails \/ Serving!AuthSucceeds
    BY <1>1 DEF Serving!AuthFails, Serving!AuthSucceeds
  <1>2. CASE Serving!RequestFails \/ Serving!RequestConnect
               \/ Serving!RequestAssociate \/ Serving!RequestBind
    BY <1>2 DEF Serving!RequestFails, Serving!RequestConnect,
                Serving!RequestAssociate, Serving!RequestBind
  <1>3. CASE Serving!DialFails \/ Serving!DialSucceeds
    BY <1>3 DEF Serving!DialFails, Serving!DialSucceeds
  <1>4. CASE Serving!ReplyFails \/ Serving!ReplySent
    BY <1>4 DEF Serving!ReplyFails, Serving!ReplySent
  <1>5. CASE Serving!CopyReturns
    BY <1>5 DEF Serving!CopyReturns
  <1>6. CASE Serving!BindFails \/ Serving!BindSucceeds
    BY <1>6 DEF Serving!BindFails, Serving!BindSucceeds
  <1>7. CASE Serving!FirstFails \/ Serving!BindReplySent \/ Serving!FirstTaken
    BY <1>7 DEF Serving!FirstFails, Serving!BindReplySent, Serving!FirstTaken
  <1>8. CASE Serving!DialUDPFails \/ Serving!DialUDPSucceeds
    BY <1>8 DEF Serving!DialUDPFails, Serving!DialUDPSucceeds
  <1>9. CASE Serving!FirstWriteFails
    BY <1>9 DEF Serving!FirstWriteFails, Serving!Closed
  <1>10. CASE Serving!FirstWritten
    BY <1>10 DEF Serving!FirstWritten, Serving!Client!Started,
                 Serving!Remote!Started
  <1>11. CASE Serving!DrainClient
    BY <1>11 DEF Serving!DrainClient, Serving!Client!Taken
  <1>12. CASE Serving!DrainRemote
    BY <1>12 DEF Serving!DrainRemote, Serving!Remote!Taken
  <1>. QED
    BY <1>1, <1>2, <1>3, <1>4, <1>5, <1>6, <1>7, <1>8, <1>9, <1>10, <1>11, <1>12
    DEF Serving!ServeStep

LEMMA SelectKeeps ==
    ASSUME HandlerInv, Serving!SelectStep
    PROVE  HandlerInv'
  <1> USE DEF HandlerInv, HandlerOK, CopiersOK, Released, Handling!Released,
              Handling!Done, Serving!TypeOK, Serving!Ends, Serving!Leave,
              Serving!Stay, Serving!Client!Taken, Serving!Remote!Taken,
              Serving!connect, Serving!binds, Serving!helpers,
              Serving!Client!UdpReaderTypeOK, Serving!Remote!UdpReaderTypeOK
  <1>1. CASE Serving!SelectClient
    BY <1>1 DEF Serving!SelectClient
  <1>2. CASE Serving!SelectRemote
    BY <1>2 DEF Serving!SelectRemote
  <1>3. CASE Serving!SelectQuit \/ Serving!SelectTimeout
    BY <1>3 DEF Serving!SelectQuit, Serving!SelectTimeout
  <1>. QED BY <1>1, <1>2, <1>3 DEF Serving!SelectStep

LEMMA CopyKeeps ==
    ASSUME HandlerInv, Serving!CopyStep
    PROVE  HandlerInv'
  <1> USE DEF HandlerInv, HandlerOK, CopiersOK, Released, Handling!Released,
              Handling!Done, Serving!TypeOK, Serving!Ends, Serving!CopierGoto,
              Serving!binds, Serving!helpers, Serving!associate,
              Serving!Client!UdpReaderTypeOK, Serving!Remote!UdpReaderTypeOK
  <1>1. PICK dst \in Serving!Ends :
           Serving!CopyReads(dst) \/ Serving!CopyWrites(dst)
             \/ Serving!CopyEOF(dst) \/ Serving!CopyFails(dst)
    BY DEF Serving!CopyStep
  <1>2. CASE Serving!CopyReads(dst) \/ Serving!CopyWrites(dst)
    BY <1>1, <1>2 DEF Serving!CopyReads, Serving!CopyWrites
  <1>3. CASE Serving!CopyEOF(dst)
    BY <1>1, <1>3 DEF Serving!CopyEOF
  <1>4. CASE Serving!CopyFails(dst)
    BY <1>1, <1>4 DEF Serving!CopyFails
  <1>. QED BY <1>1, <1>2, <1>3, <1>4

LEMMA HelpersKeep ==
    ASSUME HandlerInv, Serving!HelperStep
    PROVE  HandlerInv'
  <1> USE DEF HandlerInv, HandlerOK, CopiersOK, Released, Handling!Released,
              Handling!Done, Serving!TypeOK, Serving!connect, Serving!binds,
              Serving!Client!UdpReaderTypeOK, Serving!Remote!UdpReaderTypeOK
  <1>1. CASE Serving!MonitorEnds
    BY <1>1 DEF Serving!MonitorEnds
  <1>2. CASE Serving!ClientReads \/ Serving!ClientEnds
    BY <1>2 DEF Serving!ClientReads, Serving!ClientEnds, Serving!Client!Reads,
                Serving!Client!ReadFails, Serving!Client!Quits
  <1>3. CASE Serving!RemoteReads \/ Serving!RemoteEnds
    BY <1>3 DEF Serving!RemoteReads, Serving!RemoteEnds, Serving!Remote!Reads,
                Serving!Remote!ReadFails, Serving!Remote!Quits
  <1>. QED BY <1>1, <1>2, <1>3 DEF Serving!HelperStep

\* Whatever the server does: it starts the handler or leaves it alone.
LEMMA HandlerKeeps ==
    ASSUME HandlerInv, Serving!Step \/ Serving!Started \/ UNCHANGED serving
    PROVE  HandlerInv'
  <1>1. CASE Serving!Step
    <2>1. CASE Serving!PeerEOF
      BY <2>1 DEF Serving!PeerEOF, HandlerInv, HandlerOK, CopiersOK, Released,
                  Handling!Released, Handling!Done, Serving!TypeOK, Serving!binds,
                  Serving!helpers, Serving!associate,
                  Serving!Client!UdpReaderTypeOK, Serving!Remote!UdpReaderTypeOK
    <2>. QED
      BY <1>1, <2>1, ServeKeeps, SelectKeeps, CopyKeeps, HelpersKeep
      DEF Serving!Step
  <1>2. CASE Serving!Started \/ UNCHANGED serving
    BY <1>2 DEF serving, Serving!Started, HandlerInv, HandlerOK, CopiersOK,
                Released, Handling!Released, Handling!Done, Serving!TypeOK,
                Serving!connect, Serving!binds, Serving!helpers,
                Serving!associate, Serving!Client!UdpReaderTypeOK,
                Serving!Remote!UdpReaderTypeOK
  <1>. QED BY <1>1, <1>2
-----------------------------------------------------------------------------
ServerTypeOK ==
    /\ serve \in {"new", "loop", "failed", "returned"}
    /\ auth \in SetsAuth \cup {Initial}
    /\ svrHandler \in SetsHandler \cup {Initial}
    /\ acceptor \in {"none", "accept", "offer", "fail", "done"}
    /\ accepted \in SUBSET Clients
    /\ client \in [Clients -> {"none", "connected", "accepted", "served"}]
    /\ given \in [auth: SetsAuth \cup {Initial},
                  handler: SetsHandler \cup {Initial}]
    /\ change \in [Changes -> {"none", "waiting", "taken", "quit"}]
    /\ since \in [Clients \cup Changes -> SUBSET Changes]

\* What had returned has returned, and in vain only when the loop has ended:
\* what a client knew of when it connected was taken.
ReturnedOK ==
    /\ \A k \in Changes : since[k] \subseteq Returned
    /\ \A k \in Changes : change[k] = "quit" => serve = "returned"
    /\ \A c \in Clients : \A k \in since[c] : change[k] = "taken"

\* What the server has now was called no earlier than any change that is taken.
LatestOK ==
    \A k \in Changes : change[k] = "taken" =>
        /\ k \in SetsAuth => auth \in SetsAuth \ since[k]
        /\ k \in SetsHandler => svrHandler \in SetsHandler \ since[k]

\* The goroutine that accepts runs while the loop of Serve does.
AcceptorOK == serve = "loop" <=> acceptor \in {"accept", "offer", "fail"}

ServerInv ==
    /\ ServerTypeOK /\ ReturnedOK /\ LatestOK /\ AcceptorOK /\ NoneStranded

Inv == ServerInv /\ HandlerInv

LEMMA InitInv == Init => Inv
  <1> SUFFICES ASSUME Init PROVE Inv
    OBVIOUS
  <1>1. HandlerInv
    BY HandlerInit DEF Init
  <1>2. ServerInv
    BY DEF Init, ServerInv, ServerTypeOK, ReturnedOK, LatestOK, AcceptorOK, NoneStranded
  <1>. QED BY <1>1, <1>2 DEF Inv

\* A change replaces at most one of the two, and a nil neither.
LEMMA Replacing ==
    /\ SetsAuth \subseteq Changes /\ SetsHandler \subseteq Changes
    /\ SetsAuth \cap SetsHandler = {}
    /\ Nils \cap (SetsAuth \cup SetsHandler) = {}
    /\ Clients \cap Changes = {}
  BY ServerConstants DEF SetsAuth, SetsHandler, Changes

LEMMA ServerKeeps ==
    ASSUME ServerInv, [Next]_vars
    PROVE  ServerInv'
  <1> USE DEF ServerInv, ServerTypeOK, ReturnedOK, LatestOK, AcceptorOK, NoneStranded, Returned, fields, accepting, clients
  <1>1. CASE ListenFails \/ Listens \/ AcceptFails \/ TakeError
    BY <1>1 DEF ListenFails, Listens, AcceptFails, TakeError
  <1>2. ASSUME NEW c \in Clients, TakeConn(c) PROVE ServerInv'
    BY <1>2, Replacing DEF TakeConn
  <1>3. ASSUME NEW c \in Clients, Accept(c) PROVE ServerInv'
    BY <1>3 DEF Accept
  <1>4. ASSUME NEW c \in Clients, Connect(c) PROVE ServerInv'
    BY <1>4, Replacing DEF Connect
  <1>5. ASSUME NEW k \in Changes, Change(k) PROVE ServerInv'
    BY <1>5, Replacing DEF Change, SameKind
  <1>6. ASSUME NEW k \in Changes, TakeAuth(k) PROVE ServerInv'
    BY <1>6, Replacing DEF TakeAuth, Take
  <1>7. ASSUME NEW k \in Changes, TakeHandler(k) \/ TakeNil(k) PROVE ServerInv'
    BY <1>7, Replacing DEF TakeHandler, TakeNil, Take
  <1>8. ASSUME NEW k \in Changes, ChangeQuits(k) PROVE ServerInv'
    BY <1>8, Replacing DEF ChangeQuits, QuitClosed
  <1>9. CASE UNCHANGED server
    BY <1>9 DEF server
  <1>. QED
    BY <1>1, <1>2, <1>3, <1>4, <1>5, <1>6, <1>7, <1>8, <1>9
    DEF Next, ServeStep, ChangeReturn, vars

LEMMA NextInv == Inv /\ [Next]_vars => Inv'
  <1> SUFFICES ASSUME Inv, [Next]_vars PROVE Inv'
    OBVIOUS
  <1>1. Serving!Step \/ Serving!Started \/ UNCHANGED serving
    BY DEF Next, ServeStep, ChangeReturn, vars, ListenFails, Listens, AcceptFails,
           TakeError, TakeConn, Accept, Connect, Change, TakeAuth, TakeHandler,
           TakeNil, Take, ChangeQuits
  <1>. QED BY <1>1, HandlerKeeps, ServerKeeps DEF Inv

LEMMA Always == Spec => []Inv
  BY InitInv, NextInv, PTL DEF Spec

\* Every variable of the server and of the handler keeps its type.
THEOREM Typed == Spec => []TypeOK
  <1>1. Inv => TypeOK
    BY DEF Inv, ServerInv, ServerTypeOK, HandlerInv, HandlerOK, TypeOK
  <1>. QED BY <1>1, Always, PTL

\* A change that has returned is in force for those who connect then, unless a
\* newer one is that replaces the same, however many changes there are and
\* whatever they pass: what a change replaces is for the type switch to say
\* (server.go:57-70, 118-137).
THEOREM InForce == Spec => []ChangeInForce
  <1>1. ASSUME Inv, [Next]_vars, NEW c \in Clients,
               client[c] = "accepted", client'[c] = "served", NEW k \in since[c]
        PROVE  /\ change[k] = "taken"
               /\ k \in SetsAuth => given'.auth \in SetsAuth \ since[k]
               /\ k \in SetsHandler =>
                      given'.handler \in SetsHandler \ since[k]
    <2>1. k \in Changes /\ change[k] = "taken"
      BY <1>1 DEF Inv, ServerInv, ServerTypeOK, ReturnedOK
    <2>2. TakeConn(c)
      BY <1>1 DEF Inv, ServerInv, ServerTypeOK, Next, ServeStep, ChangeReturn, vars,
                  server, clients, ListenFails, Listens, AcceptFails, TakeError,
                  TakeConn, Accept, Connect, Change, TakeAuth, TakeHandler,
                  TakeNil, Take, ChangeQuits
    <2>3. given' = [auth |-> auth, handler |-> svrHandler]
      BY <2>2 DEF TakeConn
    <2>. QED BY <1>1, <2>1, <2>3 DEF Inv, ServerInv, LatestOK
  <1>2. Inv /\ [Next]_vars =>
           [\A c \in Clients : (client[c] = "accepted" /\ client'[c] = "served") =>
               \A k \in since[c] :
                   /\ change[k] = "taken"
                   /\ k \in SetsAuth => given'.auth \in SetsAuth \ since[k]
                   /\ k \in SetsHandler =>
                          given'.handler \in SetsHandler \ since[k]]_vars
    BY <1>1
  <1>. QED BY <1>2, Always, PTL DEF Spec, ChangeInForce

\* No connection is lost between Accept and Serve, and Serve returns only after
\* the goroutine that accepts, however many connections and changes there are
\* (server.go:83-109, 113-117).
THEOREM Accepting == Spec => []NoneStranded
  <1>1. Inv => NoneStranded
    BY DEF Inv, ServerInv
  <1>. QED BY <1>1, Always, PTL

\* A handler that has returned leaves no socket it opened open, nor the connection
\* of a client that anything was relayed for (server.go:206, 366-369).
THEOREM LeavesNothing == Spec => []Released
  <1>1. Inv => Released
    BY DEF Inv, HandlerInv
  <1>. QED BY <1>1, Always, PTL
=============================================================================
