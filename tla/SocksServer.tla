------------------------------ MODULE SocksServer ------------------------------
(***************************************************************************)
(* The SOCKS server of gotun2socks/gosocks/server.go: ListenAndServe and   *)
(* Serve, the goroutine that accepts connections for it, and the callers   *)
(* of ChangeAuth and ChangeHandler.  Serve hands each connection, with the *)
(* authenticator and the handler it has at that moment, to a goroutine;    *)
(* that of one connection, Watched, is SocksHandler in full.               *)
(*                                                                         *)
(* A call of ChangeAuth or ChangeHandler stands for the value it passes.   *)
(* An Accept that fails for the moment is tried again and changes nothing. *)
(***************************************************************************)
EXTENDS FiniteSets

CONSTANTS
    Clients,            \* the connections
    Watched,            \* the one whose handler is modelled
    AuthChanges,        \* the calls of ChangeAuth
    HandlerChanges,     \* the calls of ChangeHandler
    Nils,               \* those of either that pass nil
    Authenticating,     \* those that pass a handler with a ServerAuthenticate
    Initial             \* what the server was made with

Changes == AuthChanges \cup HandlerChanges

(* What a change replaces: the type switch of Serve looks for an            *)
(* authenticator first, and a nil matches none of its cases.                *)
SetsAuth == (AuthChanges \cup Authenticating) \ Nils
SetsHandler == HandlerChanges \ (Authenticating \cup Nils)

ASSUME ServerConstants ==
    /\ Watched \in Clients
    /\ AuthChanges \cap HandlerChanges = {}
    /\ Clients \cap Changes = {}
    /\ Initial \notin Changes
    /\ Nils \subseteq Changes
    /\ Authenticating \subseteq HandlerChanges \ Nils

VARIABLES
    serve,          \* the goroutine of ListenAndServe
    auth,           \* svr.auth
    svrHandler,     \* svr.handler
    acceptor,       \* the goroutine that accepts
    accepted,       \* the connection it offers on the channel ch, if any
    client,         \* how far each connection is
    given,          \* what the last goroutine was started with
    change,         \* how far each call is
    since           \* history, while Serve runs: the calls, but for the nils, that
                    \* had returned when a client connected, until it is
                    \* served; when a call was made, those of them that
                    \* replace what it replaces

VARIABLES handler, conn, remote, copier, clientBind, forwardingBind, quit,
          monitor, clientReader, remoteReader
serving == <<handler, conn, remote, copier, clientBind, forwardingBind, quit,
             monitor, clientReader, remoteReader>>

Serving == INSTANCE SocksHandler

fields == <<auth, svrHandler>>
accepting == <<acceptor, accepted>>
clients == <<client, given>>
server == <<serve, fields, accepting, clients, change, since>>
vars == <<server, serving>>
-----------------------------------------------------------------------------
TypeOK ==
    /\ serve \in {"new", "loop", "failed", "returned"}
    /\ auth \in SetsAuth \cup {Initial}
    /\ svrHandler \in SetsHandler \cup {Initial}
    /\ acceptor \in {"none", "accept", "offer", "fail", "done"}
    /\ accepted \in SUBSET Clients
    /\ client \in [Clients -> {"none", "connected", "accepted", "served"}]
    /\ given \in [auth: SetsAuth \cup {Initial},
                  handler: SetsHandler \cup {Initial}]
    /\ change \in [Changes -> {"none", "waiting", "taken", "quit"}]
    /\ since \in [Clients \cup Changes -> SUBSET Changes]
    /\ Serving!TypeOK

Init ==
    /\ serve = "new"
    /\ auth = Initial /\ svrHandler = Initial
    /\ acceptor = "none" /\ accepted = {}
    /\ client = [c \in Clients |-> "none"]
    /\ given = [auth |-> Initial, handler |-> Initial]
    /\ change = [k \in Changes |-> "none"]
    /\ since = [x \in Clients \cup Changes |-> {}]
    /\ Serving!Init

Returned == {k \in Changes : change[k] \in {"taken", "quit"}}
SameKind(k) ==
    UNION {kind \in {SetsAuth, SetsHandler} : k \in kind}
-----------------------------------------------------------------------------
(* ListenAndServe and the loop of Serve                                    *)

\* net.Listen fails: quit stays open.
ListenFails ==
    /\ serve = "new" /\ serve' = "failed"
    /\ UNCHANGED <<fields, accepting, clients, change, since, serving>>

Listens ==
    /\ serve = "new" /\ serve' = "loop"
    /\ acceptor' = "accept"
    /\ UNCHANGED <<fields, accepted, clients, change, since, serving>>

\* A connection is taken from ch and given its goroutine, with what the server
\* has at that moment.
TakeConn(c) ==
    /\ serve = "loop" /\ acceptor = "offer" /\ c \in accepted
    /\ acceptor' = "accept" /\ accepted' = {}
    /\ client' = [client EXCEPT ![c] = "served"]
    /\ given' = [auth |-> auth, handler |-> svrHandler]
    /\ since' = [since EXCEPT ![c] = {}]
    /\ IF c = Watched THEN Serving!Started ELSE UNCHANGED serving
    /\ UNCHANGED <<serve, fields, change>>

\* Mutant: Serve returns as soon as the listener is closed.
TakeErrorFirst ==
    /\ serve = "loop" /\ serve' = "returned"
    /\ UNCHANGED <<fields, accepting, clients, change, since, serving>>

\* An error is taken from ch: Serve returns, having closed quit.
TakeError ==
    /\ serve = "loop" /\ serve' = "returned"
    /\ acceptor = "fail" /\ acceptor' = "done"
    /\ since' = [x \in DOMAIN since |-> {}]
    /\ UNCHANGED <<fields, accepted, clients, change, serving>>

\* A change is taken from msgCh.
Take(k) ==
    /\ serve = "loop" /\ change[k] = "waiting"
    /\ change' = [change EXCEPT ![k] = "taken"]
    /\ UNCHANGED <<serve, accepting, clients, since, serving>>

TakeAuth(k) ==
    /\ k \in SetsAuth /\ Take(k)
    /\ auth' = k
    /\ UNCHANGED svrHandler

\* Mutant: the type switch has no case for it.
TakeHandlerLost(k) ==
    k \in SetsHandler /\ Take(k) /\ UNCHANGED fields

TakeHandler(k) ==
    /\ k \in SetsHandler /\ Take(k)
    /\ svrHandler' = k
    /\ UNCHANGED auth

TakeNil(k) == k \in Nils /\ Take(k) /\ UNCHANGED fields
-----------------------------------------------------------------------------
(* The goroutine that accepts                                              *)

Accept(c) ==
    /\ acceptor = "accept" /\ client[c] = "connected"
    /\ acceptor' = "offer" /\ accepted' = {c}
    /\ client' = [client EXCEPT ![c] = "accepted"]
    /\ UNCHANGED <<serve, fields, given, change, since, serving>>

\* For good, as when the listener is closed.
AcceptFails ==
    /\ acceptor = "accept" /\ acceptor' = "fail"
    /\ UNCHANGED <<serve, fields, accepted, clients, change, since,
                   serving>>
-----------------------------------------------------------------------------
(* Clients and the callers of ChangeAuth and ChangeHandler                 *)

Connect(c) ==
    /\ serve = "loop" /\ client[c] = "none"
    /\ client' = [client EXCEPT ![c] = "connected"]
    /\ since' = [since EXCEPT ![c] = Returned \ Nils]
    /\ UNCHANGED <<serve, fields, accepting, given, change, serving>>

Change(k) ==
    /\ change[k] = "none"
    /\ change' = [change EXCEPT ![k] = "waiting"]
    /\ since' = [since EXCEPT ![k] = Returned \cap SameKind(k)]
    /\ UNCHANGED <<serve, fields, accepting, clients, serving>>

\* Mutant: Serve returns without closing it.
QuitLeftOpen == FALSE

\* The channel quit of the server, closed by Serve when it returns.
QuitClosed == serve = "returned"

ChangeQuits(k) ==
    /\ change[k] = "waiting" /\ QuitClosed
    /\ change' = [change EXCEPT ![k] = "quit"]
    /\ UNCHANGED <<serve, fields, accepting, clients, since, serving>>
-----------------------------------------------------------------------------
ChangeReturn(k) == TakeAuth(k) \/ TakeHandler(k) \/ TakeNil(k) \/ ChangeQuits(k)

ServeStep == TakeError \/ \E c \in Clients : TakeConn(c)

Next ==
    \/ ListenFails \/ Listens \/ ServeStep \/ AcceptFails
    \/ \E c \in Clients : Accept(c) \/ Connect(c)
    \/ \E k \in Changes : Change(k) \/ ChangeReturn(k)
    \/ Serving!Step /\ UNCHANGED server

Spec == Init /\ [][Next]_vars

\* The loop of Serve runs, and its select, which picks at random, takes what is
\* offered; Accept may wait for ever.
Fairness ==
    /\ WF_vars(ServeStep)
    /\ \A k \in Changes : WF_vars(ChangeReturn(k))

FairSpec == Spec /\ Fairness /\ Serving!Fairness
=============================================================================
