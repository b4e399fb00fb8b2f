------------------------------- MODULE MCDatagrams -------------------------------
(* Three DNS requests for one name; two and one for another; two beside a   *)
(* datagram in two fragments; one of these and one in three, which may have *)
(* the same IP id.  The responses have one to three packets; one of them    *)
(* just fits in one.                                                       *)
EXTENDS DatagramsProperties, TLC

CONSTANTS q1, q2, q3, q4, p1, p2

MCRequests == {q1, q2, q3, q4}
MCKey == (q1 :> "a") @@ (q2 :> "a") @@ (q3 :> "a") @@ (q4 :> "b")
MCParts == (q1 :> 1) @@ (q2 :> 1) @@ (q3 :> 1) @@ (q4 :> 1)
             @@ (p1 :> 3) @@ (p2 :> 2)
MCMixes == {{q1, q2, q3}, {q1, q2, q4}, {q1, q2, p2}, {p1, p2}}
MCLength == (q1 :> 8 + 500) @@ (q2 :> 8 + 14973) @@ (q3 :> 8 + 100)
              @@ (q4 :> 8 + 100) @@ (p1 :> 8 + 14972) @@ (p2 :> 8 + 40000)
=============================================================================
