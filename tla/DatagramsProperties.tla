--------------------------- MODULE DatagramsProperties ---------------------------
(* What those who send datagrams into the device get handed on and back.   *)
EXTENDS Datagrams, FiniteSets

SameId(d) == {e \in DOMAIN ipId : ipId[e] = ipId[d]}

Whole(d) == [i \in 1 .. Parts[d] |-> [of |-> d, part |-> i]]

\* Fragments are put together into what was sent, once, whatever others are
\* mixed with them (ip.go:19-50): the datagrams of which no fragment is lost
\* and whose id no other has.  A gap is not noticed, as FragOffset is not
\* looked at, and an entry is never deleted.
Reassembled ==
    \A d \in DOMAIN ipId : SameId(d) = {d} /\ d \notin lost =>
        /\ \A i \in DOMAIN passed : (passed[i][1].of = d) => passed[i] = Whole(d)
        /\ Cardinality({i \in DOMAIN passed : passed[i][1].of = d})
              = IF read[d] = Parts[d] THEN 1 ELSE 0

\* The answers to one question among the first n that were stored.
Same(key, n) == {i \in 1 .. n : stores[i].key = key}

\* The message was the answer stored last before the request's hit.
Fresh(r, msg) ==
    LET same == Same(cacheKey[r], found[r].after) IN
    \E i \in same : /\ \A j \in same : j <= i
                    /\ stores[i].msg = msg
                    /\ found[r].at <= stores[i].at + Ttl

\* A request answered from the cache gets its own id, and the answer to the
\* same question that was stored last, which had not expired (udp.go:390-392,
\* 449-465, 480-484): although the message is shared, is serialised without
\* the lock, and tracks store others meanwhile.
CachedAnswers ==
    \A r \in Requests : packed[r] # <<>> =>
        packed[r].id = r /\ Fresh(r, packed[r].msg)

Complete(pieces) == ~pieces[Len(pieces)].more

\* What has been written under an id is the beginning of the response begun
\* under it, its pieces without a gap, an overlap or a stranger, although
\* responses are mixed on writeCh (udp.go:97-159, 393-402).
AnswersInOrder ==
    \A id \in DOMAIN written :
        LET pieces == written[id] IN
        /\ pieces[1].from = 0
        /\ \A i \in 1 .. Len(pieces) - 1 :
              pieces[i].more /\ pieces[i + 1].from = pieces[i].to
        /\ Complete(pieces) => pieces[Len(pieces)].to = begun[id]

\* While the writer runs every response that is begun is written to its end,
\* although all wait for room on one channel (udp.go:152-155, 398-401).
AnswersWhole ==
    []<>(writer => \A id \in DOMAIN begun :
                      id \in DOMAIN written /\ Complete(written[id]))
-----------------------------------------------------------------------------
(* What the comments say and the code does not do                          *)

\* "udp length and checksum count on full payload" (udp.go:133): what the
\* fragments make up, by the offsets in their headers, has that length.
OffsetsAgree ==
    \A id \in DOMAIN written :
        \A i \in DOMAIN written[id] :
            8 * written[id][i].offset = written[id][i].from
=============================================================================
