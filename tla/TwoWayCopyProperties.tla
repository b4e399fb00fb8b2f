------------------------- MODULE TwoWayCopyProperties -------------------------
(* What a copied connection must leave behind, and that it ends.           *)
EXTENDS TwoWayCopy

\* No two copiers, of whatever connections, write into the same buffer, and
\* none writes into one that lies in the pool (kcp/util/pool.go:35-38,
\* kcp/service/conn.go:154-155, 185-186, Server.go:161-162).
BuffersExclusive ==
    \A k \in Copier :
        held[k] # 0 => /\ held[k] \notin pool
                       /\ \A j \in Copier \ {k} : held[j] # held[k]

\* On each path to the end both sockets are closed: where handle, serverSide,
\* clientSide and pipe return, by what they have deferred until then; where
\* process gives up, by what it and Socks5Connect do first (conn.go:22-28,
\* 68-71, 112-115, 147-150, Server.go:38-52, 135-138).
SocketsClosed ==
    \A c \in Conn :
        pc[c] = "done" => local[c] = "closed" /\ remote[c] \in {"nil", "closed"}

\* A copier whose peer does not take what is written to it.
Writing(c) == \E d \in Dirs : CopierAt(c, d, "write")

\* Once a peer of a running pair has ended the connection is closed, or one of
\* its copiers is blocked for ever writing to the other peer.
PairEnds ==
    \A c \in Conn :
        (pc[c] = "wait" /\ "ended" \in {local[c], remote[c]})
            ~> (pc[c] = "done" \/ []Writing(c))

\* Where a copier stays: in the tunnel errChan has one receive for two copiers
\* (conn.go:151, 161, 175, 192, 206, 215), so that one is left behind.
Settled(c, d) ==
    \/ copier[<<c, d>>] \in {"none", "done"}
    \/ program # "socks5" /\ copier[<<c, d>>] \in {"report", "reportOn"}

\* Once a connection is closed its copiers end, with their buffers returned,
\* and in the tunnel they end or wait to report: none spins on its sockets.
CopiersSettle ==
    \A c \in Conn, d \in Dirs :
        pc[c] = "done" ~> /\ Settled(c, d)
                          /\ CopierAt(c, d, "done") => held[<<c, d>>] = 0
=============================================================================
