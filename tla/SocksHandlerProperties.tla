------------------------ MODULE SocksHandlerProperties ------------------------
(* What serving one SOCKS client must leave behind, and that it ends.      *)
EXTENDS SocksHandler

Done == handler = "done"

\* When ServeSocks returns no socket it opened is left open, and the client's
\* connection is closed if anything was ever relayed (server.go:206, 367-369):
\* a request that is not understood (458-475) and a first datagram that cannot
\* be sent (286-291) leave it open.
Released ==
    Done => /\ "open" \notin {clientBind, forwardingBind}
            /\ remote \in {"nil", "closed"}
            /\ monitor # "none" \/ remote # "nil" => conn = "closed"

\* Once there is nothing more to relay the handler returns.
HandlerReturns ==
    <>[][~(ClientReads \/ RemoteReads \/ \E dst \in Ends : CopyReads(dst))]_vars
        => (handler # "none" ~> Done)

\* What ends one side of a relay ends the other and the handler, even if the
\* peer never stops sending: anything that happens on the connection of an
\* association (server.go:293-295, 355-358), the end of either copier
\* (438-449).
EndsTogether ==
    \/ handler = "select" /\ conn # "open"
    \/ quit > 0
    \/ \E end \in Ends : copier[end] = "done"
  ~> Done

\* Once the handler has returned none of its goroutines is left
\* (server.go:366-374, 387-413, 447-449).
HelpersEnd ==
    Done ~> /\ monitor # "read"
            /\ {clientReader, remoteReader} \subseteq {"none", "closed"}
            /\ \A end \in Ends : copier[end] \in {"none", "done"}
=============================================================================
