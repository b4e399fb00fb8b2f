------------------------- MODULE SocksServerProperties -------------------------
(* What the SOCKS server promises those who connect to it and those who     *)
(* change it while it runs; what it leaves behind is in                     *)
(* SocksHandlerProperties.                                                  *)
EXTENDS SocksServer

\* A connection is served with every change that had returned when it was made,
\* or with another that replaces the same and had not returned when that one was
\* called; and no change that returned because Serve had ended is among them
\* (server.go:57-70, 78-81, 118-137).  What a change replaces is what the type
\* switch makes of its value: a handler that can also authenticate replaces the
\* authenticator and is never the handler, and a nil, of either call, is taken
\* and replaces nothing.
ChangeInForce ==
    [][\A c \in Clients : (client[c] = "accepted" /\ client'[c] = "served") =>
          \A k \in since[c] :
              /\ change[k] = "taken"
              /\ k \in SetsAuth => given'.auth \in SetsAuth \ since[k]
              /\ k \in SetsHandler =>
                     given'.handler \in SetsHandler \ since[k]]_vars

\* "so that attempts to change authenticator or handler do not block"
\* (server.go:79-80): while the server runs and after it has ended a change
\* returns; not if it never listened.
ChangeReturns ==
    \A k \in Changes :
        (change[k] = "waiting" /\ serve # "new") ~> (k \in Returned \/ serve = "failed")

\* A connection that was accepted is on offer to a Serve that still runs, and no
\* other is in its place; when Serve has returned, which the last error of the
\* goroutine that accepts makes it do, that goroutine is gone and not left
\* behind on the channel (server.go:83-109, 113-117).
NoneStranded ==
    /\ \A c \in Clients : client[c] = "accepted" =>
           serve = "loop" /\ acceptor = "offer" /\ accepted = {c}
    /\ serve = "returned" => acceptor = "done"

\* A connection that was accepted is served, also if the next Accept fails
\* (server.go:83-109, 113-117).
AcceptedServed ==
    \A c \in Clients : client[c] = "accepted" ~> client[c] = "served"

Handling == INSTANCE SocksHandlerProperties

\* What SocksHandlerProperties says of the watched connection, whatever the
\* server does meanwhile: Serve may return while it is being served.
Released == Handling!Released
HandlerReturns == Handling!HandlerReturns
EndsTogether == Handling!EndsTogether
HelpersEnd == Handling!HelpersEnd
=============================================================================
