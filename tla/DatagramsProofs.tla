----------------------------- MODULE DatagramsProofs -----------------------------
(***************************************************************************)
(* Datagrams, for any number of requests, of answers and of datagrams      *)
(* besides, and any capacities: the answers from the cache, types, the     *)
(* reassembly of fragments, and the order of a response's packets.         *)
(*                                                                         *)
(* For the cache the invariant says that every entry is the last answer    *)
(* stored under its key, that a request is answered once, and that while   *)
(* udp() serialises a message, which only it can change, the message has   *)
(* the id of the request: no other is at it, as the reader waits.          *)
(*                                                                         *)
(* For reassembly it says what the table holds under an id when one        *)
(* datagram has it and has lost nothing: all that was read of it, in       *)
(* order.  For the responses it follows the packets of one id from the     *)
(* goroutine that made them through writeCh to what is written: the three  *)
(* parts, one behind the other, are the response.                          *)
(***************************************************************************)
EXTENDS DatagramsProperties, FragmentsProofs, FiniteSetTheorems, TLAPS

Stored == [msg: Requests, key: Range(cacheKey), at: Nat]

StoresOK ==
    /\ stores \in Seq(Stored) /\ clock \in Nat

\* An entry of the cache is the answer that was stored last.
EntriesOK ==
    \A key \in DOMAIN storage :
        LET same == Same(key, Len(stores)) IN
        \E i \in same : /\ \A j \in same : j <= i
                        /\ storage[key].msg = stores[i].msg
                        /\ storage[key].exp = stores[i].at + Ttl

Hits(r) ==
    /\ found[r].after \in Nat /\ found[r].after <= Len(stores)
    /\ read[r] = 1

OneAnswer ==
    /\ \A a, b \in packing : a = b
    /\ \A a \in packing : /\ a.of \in Requests /\ a.msg \in Requests
                          /\ msgId[a.msg] = a.of
                          /\ Hits(a.of) /\ Fresh(a.of, a.msg)

\* What has been answered stays as it was.
AnsweredOK ==
    /\ read \in [Datagrams -> Nat]
    /\ msgId \in [Requests -> Requests]
    /\ DOMAIN found = Requests /\ DOMAIN packed = Requests
    /\ \A r \in Requests : packed[r] # <<>> =>
          packed[r].id = r /\ Hits(r) /\ Fresh(r, packed[r].msg)

\* Only tracks of DNS requests come to store.
TracksOK ==
    /\ DOMAIN track = Datagrams
    /\ \A d \in Datagrams : track[d] = "store" => d \in Requests

Inv == StoresOK /\ EntriesOK /\ OneAnswer /\ AnsweredOK /\ TracksOK

LEMMA Element ==
    ASSUME NEW S, NEW s \in Seq(S), NEW i \in 1 .. Len(s)
    PROVE  s[i] \in S
  OBVIOUS

LEMMA Ranged ==
    ASSUME NEW key, NEW n \in Nat, NEW j \in Same(key, n)
    PROVE  j \in Nat /\ j \in 1 .. n /\ j <= n
  BY DEF Same

LEMMA InitInv == Init => Inv
  <1> SUFFICES ASSUME Init PROVE Inv
    OBVIOUS
  <1>1. StoresOK
    BY DEF Init, CacheInit, StoresOK
  <1>2. EntriesOK
    BY DEF Init, CacheInit, EntriesOK
  <1>3. OneAnswer
    BY DEF Init, OneAnswer
  <1>4. AnsweredOK
    BY DEF Init, CacheInit, AnsweredOK
  <1>5. TracksOK
    BY DEF Init, TracksOK
  <1>. QED BY <1>1, <1>2, <1>3, <1>4, <1>5 DEF Inv

LEMMA TracksKeep ==
    ASSUME TracksOK, [Next]_vars
    PROVE  TracksOK'
  <1> USE DEF TracksOK, TrackGoto, udpVars
  <1>1. ASSUME NEW d \in Datagrams, ReadFragment(d) PROVE TracksOK'
    BY <1>1 DEF ReadFragment, Forward
  <1>2. ASSUME NEW d \in Datagrams, ReadMiss(d) PROVE TracksOK'
    BY <1>2 DEF ReadMiss, Forward
  <1>3. ASSUME NEW d \in Datagrams,
               ReadHit(d) \/ Lose(d) \/ Push(d)
        PROVE  TracksOK'
    BY <1>3 DEF ReadHit, Lose, Push
  <1>4. ASSUME NEW d \in Datagrams,
               \/ Answered(d) \/ GivesUp(d) \/ TrackStep(d)
        PROVE  TracksOK'
    BY <1>4 DEF Answered, GivesUp, TrackStep, Sent, Stores, StoresNothing
  <1>5. ASSUME NEW answer \in packing, Pack(answer) \/ PackFails(answer)
        PROVE  TracksOK'
    BY <1>5 DEF Pack, PackFails, Forward
  <1>6. CASE Write \/ WriterQuits \/ Time \/ UNCHANGED vars
    BY <1>6 DEF Write, WriterQuits, Time, vars
  <1>. QED
    BY <1>1, <1>2, <1>3, <1>4, <1>5, <1>6 DEF Next, ReaderStep

\* What a step may change of what the invariant is about, if it neither stores
\* nor answers.
LEMMA Quiet ==
    ASSUME Inv,
           UNCHANGED <<stores, found, packed, msgId>>,
           packing' \subseteq packing,
           clock' \in Nat,
           \A key \in DOMAIN storage' :
              key \in DOMAIN storage /\ storage'[key] = storage[key],
           read' \in [Datagrams -> Nat],
           \A r \in Requests : read[r] = 1 => read'[r] = 1,
           TracksOK'
    PROVE  Inv'
  <1>1. StoresOK'
    BY DEF Inv, StoresOK
  <1>2. EntriesOK'
    BY DEF Inv, EntriesOK, Same
  <1>3. \A r \in Requests : Hits(r) => Hits(r)'
    BY DEF Hits
  <1>4. \A r, m : Fresh(r, m) => Fresh(r, m)'
    BY DEF Fresh, Same
  <1>5. OneAnswer'
    BY <1>3, <1>4 DEF Inv, OneAnswer
  <1>6. AnsweredOK'
    BY <1>3, <1>4 DEF Inv, AnsweredOK
  <1>. QED BY <1>1, <1>2, <1>5, <1>6 DEF Inv

LEMMA ReadGrows ==
    ASSUME Inv, NEW d \in Datagrams, read[d] < Parts[d],
           read' = [read EXCEPT ![d] = @ + 1]
    PROVE  /\ read' \in [Datagrams -> Nat]
           /\ \A r \in Requests : read[r] = 1 => r # d /\ read'[r] = 1
           /\ d \in Requests => read'[d] = 1
  <1>1. read \in [Datagrams -> Nat] /\ Requests \subseteq Datagrams
    BY DatagramsAssumption DEF Inv, AnsweredOK
  <1>2. d \in Requests => Parts[d] = 1
    BY DatagramsAssumption
  <1>3. d \in Requests => read[d] = 0
    BY <1>1, <1>2
  <1>. QED BY <1>1, <1>3

\* A hit: no other message is being serialised, and the entry has not expired.
LEMMA HitKeeps ==
    ASSUME Inv, TracksOK', NEW d \in Datagrams, ReadHit(d)
    PROVE  Inv'
  <1> DEFINE key == cacheKey[d]
             msg == storage[key].msg
  <1>1. /\ d \in Requests /\ packing = {} /\ key \in DOMAIN storage
        /\ ~(clock > storage[key].exp)
        /\ packing' = {[of |-> d, msg |-> msg]}
        /\ found' = [found EXCEPT ![d] = [after |-> Len(stores), at |-> clock]]
        /\ msgId' = [msgId EXCEPT ![msg] = d]
        /\ UNCHANGED <<storage, clock, stores, packed>>
    BY DEF ReadHit, Takes, ReaderFree, Hit, Cached, Expired, cacheVars
  <1>2. /\ read' \in [Datagrams -> Nat] /\ read'[d] = 1
        /\ \A r \in Requests : read[r] = 1 => r # d /\ read'[r] = 1
    BY <1>1, ReadGrows DEF ReadHit, Takes
  <1>3. PICK i \in Same(key, Len(stores)) :
           /\ \A j \in Same(key, Len(stores)) : j <= i
           /\ msg = stores[i].msg /\ storage[key].exp = stores[i].at + Ttl
    BY <1>1 DEF Inv, EntriesOK
  <1>4. i \in 1 .. Len(stores) /\ stores[i] \in Stored
    <2>1. stores \in Seq(Stored) /\ Len(stores) \in Nat
      BY DEF Inv, StoresOK
    <2>2. i \in 1 .. Len(stores)
      BY <1>3, <2>1, Ranged
    <2>. QED BY <2>1, <2>2, Element, Zenon
  <1>5. msg \in Requests
    BY <1>3, <1>4 DEF Stored
  <1>6. /\ DOMAIN found' = Requests
        /\ found'[d] = [after |-> Len(stores), at |-> clock]
        /\ \A r \in Requests : r # d => found'[r] = found[r]
    BY <1>1 DEF Inv, AnsweredOK
  <1>7. /\ msgId' \in [Requests -> Requests] /\ msgId'[msg] = d
    BY <1>1, <1>5 DEF Inv, AnsweredOK
  <1> HIDE DEF msg
  <1>8. Fresh(d, msg)'
    <2>1. clock <= stores[i].at + Ttl
      BY <1>1, <1>3, <1>4, CacheAssumption DEF Inv, StoresOK, Stored
    <2>2. Same(key, found[d].after)' = Same(key, Len(stores))
      BY <1>1, <1>6 DEF Same
    <2>3. found'[d].at = clock
      BY <1>6
    <2>4. /\ i \in Same(cacheKey[d], found[d].after)'
          /\ \A j \in Same(cacheKey[d], found[d].after)' : j <= i
      BY <1>3, <2>2
    <2>5. (stores[i].msg = msg /\ found[d].at <= stores[i].at + Ttl)'
      BY <1>1, <1>3, <2>1, <2>3 DEF msg
    <2>. QED BY <2>4, <2>5, Zenon DEF Fresh
  <1>9. Hits(d)'
    BY <1>1, <1>2, <1>6 DEF Hits, Inv, StoresOK
  <1>10. OneAnswer'
    BY <1>1, <1>5, <1>7, <1>8, <1>9 DEF OneAnswer, msg
  <1>11. ASSUME NEW r \in Requests, packed[r] # <<>>
         PROVE  packed[r].id = r /\ Hits(r)' /\ Fresh(r, packed[r].msg)'
    <2>1. packed[r].id = r /\ Hits(r) /\ Fresh(r, packed[r].msg)
      BY <1>11 DEF Inv, AnsweredOK
    <2>2. r # d /\ read'[r] = 1 /\ found'[r] = found[r]
      BY <1>2, <1>6, <2>1 DEF Hits
    <2>. QED BY <1>1, <2>1, <2>2 DEF Hits, Fresh, Same
  <1>12. AnsweredOK'
    BY <1>1, <1>2, <1>6, <1>7, <1>11 DEF Inv, AnsweredOK
  <1>13. StoresOK' /\ EntriesOK'
    BY <1>1 DEF Inv, StoresOK, EntriesOK, Same
  <1>. QED BY <1>10, <1>12, <1>13 DEF Inv

\* The message is serialised as the hit left it.
LEMMA PackKeeps ==
    ASSUME Inv, TracksOK', NEW answer \in packing, Pack(answer)
    PROVE  Inv'
  <1>1. /\ packing' = packing \ {answer}
        /\ packed' = [packed EXCEPT ![answer.of] =
                        [id |-> msgId[answer.msg], msg |-> answer.msg]]
        /\ UNCHANGED <<storage, msgId, clock, stores, found, read>>
    BY DEF Pack, cacheVars, history
  <1>2. /\ answer.of \in Requests /\ msgId[answer.msg] = answer.of
        /\ Hits(answer.of) /\ Fresh(answer.of, answer.msg)
    BY DEF Inv, OneAnswer
  <1>3. StoresOK' /\ EntriesOK'
    BY <1>1 DEF Inv, StoresOK, EntriesOK, Same
  <1>4. \A r : Hits(r) => Hits(r)'
    BY <1>1 DEF Hits
  <1>5. \A r, m : Fresh(r, m) => Fresh(r, m)'
    BY <1>1 DEF Fresh, Same
  <1>6. OneAnswer'
    BY <1>1, <1>4, <1>5 DEF Inv, OneAnswer
  <1>7. ASSUME NEW r \in Requests, packed'[r] # <<>>
        PROVE  (packed[r].id = r /\ Hits(r) /\ Fresh(r, packed[r].msg))'
    <2>1. CASE r = answer.of
      <3>1. packed'[r] = [id |-> r, msg |-> answer.msg]
        BY <1>1, <1>2, <2>1 DEF Inv, AnsweredOK
      <3>. QED BY <1>2, <1>4, <1>5, <2>1, <3>1
    <2>2. CASE r # answer.of
      <3>1. packed'[r] = packed[r]
        BY <1>1, <2>2 DEF Inv, AnsweredOK
      <3>. QED BY <1>4, <1>5, <1>7, <3>1 DEF Inv, AnsweredOK
    <2>. QED BY <2>1, <2>2
  <1>8. AnsweredOK'
    BY <1>1, <1>7 DEF Inv, AnsweredOK
  <1>. QED BY <1>3, <1>6, <1>8 DEF Inv

\* A new answer comes behind all that hits have seen.
LEMMA StoreKeeps ==
    ASSUME Inv, TracksOK', NEW d \in Datagrams,
           NEW q \in Range(cacheKey), Stores(d, q)
    PROVE  Inv'
  <1>a. PICK n \in Nat : n = Len(stores)
    BY DEF Inv, StoresOK
  <1> DEFINE new == [msg |-> d, key |-> q, at |-> clock]
  <1>1. /\ d \in Requests
        /\ stores' = Append(stores, new)
        /\ storage' = [k \in DOMAIN storage \cup {q} |->
                         IF k = q THEN [msg |-> d, exp |-> clock + Ttl]
                         ELSE storage[k]]
        /\ UNCHANGED <<msgId, clock, found, read, packing, packed>>
    BY DEF Stores, store, Put, Assign, Inv, TracksOK
  <1>2. /\ new \in Stored /\ clock \in Nat
        /\ stores \in Seq(Stored)
    BY <1>1 DEF Inv, StoresOK, Stored
  <1>3. /\ stores' \in Seq(Stored) /\ Len(stores') = n + 1
        /\ stores'[n + 1] = new
        /\ \A i \in 1 .. n : stores'[i] = stores[i]
    BY <1>a, <1>1, <1>2
  <1> HIDE DEF new
  <1>4. StoresOK'
    BY <1>1, <1>2, <1>3 DEF StoresOK
  <1>5. ASSUME NEW key, NEW k \in Nat, k <= n
        PROVE  Same(key, k)' = Same(key, k)
    BY <1>2, <1>3, <1>5 DEF Same
  <1>6. ASSUME NEW key
        PROVE  \A j : j \in Same(key, n + 1)' <=>
                  j \in Same(key, n) \/ (j = n + 1 /\ q = key)
    <2>1. TAKE j
    <2>2. j \in 1 .. n + 1 <=> j \in 1 .. n \/ j = n + 1
      BY <1>2
    <2>3. j \in Same(key, n + 1)'
            <=> j \in 1 .. n + 1 /\ stores'[j].key = key
      BY Zenon DEF Same
    <2>4. j \in Same(key, n) <=> j \in 1 .. n /\ stores[j].key = key
      BY Zenon DEF Same
    <2>5. ~(n + 1 \in 1 .. n)
      BY <1>2
    <2>6. stores'[n + 1].key = q
      BY <1>3 DEF new
    <2>. QED BY <1>3, <2>2, <2>3, <2>4, <2>5, <2>6, Zenon
  <1>7. EntriesOK'
    <2> SUFFICES ASSUME NEW key \in DOMAIN storage'
                 PROVE  \E i \in Same(key, n + 1)' :
                           /\ \A j \in Same(key, n + 1)' : j <= i
                           /\ storage'[key].msg = stores'[i].msg
                           /\ storage'[key].exp = stores'[i].at + Ttl
      <3>1. Len(stores)' = n + 1
        BY <1>3
      <3>. QED BY <3>1, Zenon DEF EntriesOK
    <2>1. CASE key = q
      <3>1. storage'[key] = [msg |-> d, exp |-> clock + Ttl]
        BY <1>1, <2>1
      <3>2. n + 1 \in Same(key, n + 1)'
        BY <1>6, <2>1
      <3>3. \A j \in Same(key, n + 1)' : j <= n + 1
        <4>1. \A j \in Same(key, n) : j \in Nat /\ j <= n
          BY <1>2, Ranged
        <4>. QED BY <1>6, <4>1
      <3>. QED BY <1>3, <3>1, <3>2, <3>3 DEF new
    <2>2. CASE key # q
      <3>1. key \in DOMAIN storage /\ storage'[key] = storage[key]
        BY <1>1, <2>2
      <3>2. Same(key, n + 1)' = Same(key, n)
        <4>1. \A j : j \in Same(key, n + 1)' <=> j \in Same(key, n)
          BY <1>6, <2>2, Zenon
        <4> DEFINE A == Same(key, n + 1)'
                   B == Same(key, n)
        <4>2. \A j : j \in A <=> j \in B
          BY <4>1, Zenon
        <4> HIDE DEF A, B
        <4>3. A = B
          BY <4>2, SetExtensionality
        <4>. QED BY <4>3, Zenon DEF A, B
      <3>3. PICK i \in Same(key, n) :
               /\ \A j \in Same(key, n) : j <= i
               /\ storage[key].msg = stores[i].msg
               /\ storage[key].exp = stores[i].at + Ttl
        BY <1>a, <3>1, Zenon DEF Inv, EntriesOK
      <3>4. stores'[i] = stores[i]
        BY <1>3 DEF Same
      <3>. QED BY <3>1, <3>2, <3>3, <3>4
    <2>. QED BY <2>1, <2>2
  <1>8. ASSUME NEW r, NEW m, Hits(r), Fresh(r, m)
        PROVE  Hits(r)' /\ Fresh(r, m)'
    <2>1. found[r].after \in Nat /\ found[r].after <= n
      BY <1>a, <1>8 DEF Hits
    <2>2. Hits(r)'
      BY <1>1, <1>2, <1>3, <1>8, <2>1 DEF Hits
    <2>3. Same(cacheKey[r], found[r].after)' = Same(cacheKey[r], found[r].after)
      BY <1>1, <1>5, <2>1
    <2>4. \A i \in Same(cacheKey[r], found[r].after) : stores'[i] = stores[i]
      BY <1>2, <1>3, <2>1 DEF Same
    <2>5. Fresh(r, m)'
      BY <1>1, <1>8, <2>3, <2>4 DEF Fresh
    <2>. QED BY <2>2, <2>5
  <1>9. OneAnswer'
    BY <1>1, <1>8 DEF Inv, OneAnswer
  <1>10. AnsweredOK'
    BY <1>1, <1>8 DEF Inv, AnsweredOK
  <1>. QED BY <1>4, <1>7, <1>9, <1>10 DEF Inv

LEMMA NextInv == Inv /\ [Next]_vars => Inv'
  <1> SUFFICES ASSUME Inv, [Next]_vars PROVE Inv'
    OBVIOUS
  <1>1. TracksOK'
    BY TracksKeep DEF Inv
  <1>2. clock \in Nat /\ read \in [Datagrams -> Nat]
    BY DEF Inv, StoresOK, AnsweredOK
  <1> USE DEF cacheVars, history, udpVars, outVars
  <1>3. ASSUME NEW d \in Datagrams, ReadFragment(d) PROVE Inv'
    BY <1>1, <1>2, <1>3, ReadGrows, Quiet DEF ReadFragment, Takes
  <1>4. ASSUME NEW d \in Datagrams, ReadMiss(d) PROVE Inv'
    <2>1. \A key \in DOMAIN storage' :
             key \in DOMAIN storage /\ storage'[key] = storage[key]
      BY <1>4 DEF ReadMiss, Miss, Restrict
    <2>2. clock' = clock /\ UNCHANGED <<stores, found, packing, packed, msgId>>
      BY <1>4 DEF ReadMiss, Miss
    <2>. QED BY <1>1, <1>2, <1>4, <2>1, <2>2, ReadGrows, Quiet
         DEF ReadMiss, Takes
  <1>5. ASSUME NEW d \in Datagrams, Lose(d) PROVE Inv'
    BY <1>1, <1>2, <1>5, ReadGrows, Quiet DEF Lose
  <1>6. ASSUME NEW d \in Datagrams,
               \/ Answered(d) \/ GivesUp(d) \/ Push(d) \/ Sent(d)
               \/ StoresNothing(d)
        PROVE  Inv'
    <2>1. UNCHANGED <<storage, clock, read, stores, found, packing, packed, msgId>>
      BY <1>6 DEF Answered, GivesUp, Push, Sent, StoresNothing
    <2>. QED BY <1>1, <1>2, <2>1, Quiet
  <1>7. CASE Write \/ WriterQuits \/ UNCHANGED vars
    <2>1. UNCHANGED <<storage, clock, read, stores, found, packing, packed, msgId>>
      BY <1>7 DEF Write, WriterQuits, vars
    <2>. QED BY <1>1, <1>2, <2>1, Quiet
  <1>8. CASE Time
    <2>1. /\ UNCHANGED <<storage, read, stores, found, packing, packed, msgId>>
          /\ clock' = clock + 1
      BY <1>8 DEF Time, Tick
    <2>. QED BY <1>1, <1>2, <2>1, Quiet
  <1>9. ASSUME NEW answer \in packing, PackFails(answer) PROVE Inv'
    <2>1. /\ UNCHANGED <<storage, clock, read, stores, found, packed, msgId>>
          /\ packing' \subseteq packing
      BY <1>9 DEF PackFails
    <2>. QED BY <1>1, <1>2, <2>1, Quiet
  <1>. QED
    BY <1>1, <1>3, <1>4, <1>5, <1>6, <1>7, <1>8, <1>9, HitKeeps, StoreKeeps,
       PackKeeps
    DEF Next, ReaderStep, TrackStep

\* A request answered from the cache gets its own id, and the answer stored last
\* for its question, which had not expired, for any number of requests, keys and
\* tracks, and any time to live (udp.go:390-392, 449-465, 480-484).
THEOREM AnsweredFromCache == Spec => []CachedAnswers
  <1>1. Inv => CachedAnswers
    BY DEF Inv, AnsweredOK, CachedAnswers
  <1>. QED BY <1>1, InitInv, NextInv, PTL DEF Spec
-----------------------------------------------------------------------------
(* Types                                                                   *)

\* What Put and the functions that grow by one argument hold.
LEMMA Extended ==
    ASSUME NEW f, NEW x, NEW y
    PROVE  LET g == Assign(f, x, y) IN
           /\ DOMAIN g = DOMAIN f \cup {x}
           /\ g[x] = y
           /\ \A z \in DOMAIN f : z # x => g[z] = f[z]
  BY DEF Assign

LEMMA AppendType ==
    ASSUME NEW S, NEW s \in Seq(S), NEW e \in S
    PROVE  /\ Append(s, e) \in Seq(S) \ {<<>>} /\ Len(s) \in Nat
           /\ Len(Append(s, e)) = Len(s) + 1
           /\ Append(s, e)[Len(s) + 1] = e
           /\ \A i \in 1 .. Len(s) : Append(s, e)[i] = s[i]
  <1>1. /\ Append(s, e) \in Seq(S) /\ Len(Append(s, e)) = Len(s) + 1
        /\ Len(s) \in Nat
    OBVIOUS
  <1>2. Append(s, e) # <<>>
    BY <1>1
  <1>3. Append(s, e)[Len(s) + 1] = e
    OBVIOUS
  <1>4. \A i \in 1 .. Len(s) : Append(s, e)[i] = s[i]
    OBVIOUS
  <1>. QED BY <1>1, <1>2, <1>3, <1>4

LEMMA AppendFirst ==
    ASSUME NEW S, NEW s \in Seq(S), s # <<>>, NEW e \in S
    PROVE  Append(s, e) \in Seq(S) \ {<<>>} /\ Append(s, e)[1] = s[1]
  <1>1. Len(s) \in Nat /\ Len(s) # 0
    OBVIOUS
  <1>. QED BY <1>1, AppendType

LEMMA TailType ==
    ASSUME NEW S, NEW s \in Seq(S), s # <<>>
    PROVE  /\ Head(s) \in S /\ Tail(s) \in Seq(S)
           /\ Len(s) \in Nat \ {0} /\ Len(Tail(s)) = Len(s) - 1
           /\ Head(s) = s[1]
           /\ \A i \in 1 .. Len(s) - 1 : Tail(s)[i] = s[i + 1]
  <1>1. Head(s) \in S /\ Tail(s) \in Seq(S) /\ Head(s) = s[1]
    OBVIOUS
  <1>2. Len(s) \in Nat \ {0} /\ Len(Tail(s)) = Len(s) - 1
    OBVIOUS
  <1>3. \A i \in 1 .. Len(s) - 1 : Tail(s)[i] = s[i + 1]
    OBVIOUS
  <1>. QED BY <1>1, <1>2, <1>3

LEMMA TrainType ==
    ASSUME NEW ipid \in HeaderIds, NEW length \in Nat, length >= UDPHeader
    PROVE  Train(ipid, length) \in Seq(Packet)
  <1>1. Packets(length) \in Nat
    BY Counted
  <1>3. ASSUME NEW n \in Nat PROVE Fragment(ipid, length, n) \in Packet
    BY FragmentType DEF Packet
  <1>4. \A i \in 1 .. Packets(length) : Fragment(ipid, length, i - 1) \in Packet
    BY <1>1, <1>3
  <1>5. Train(ipid, length) \in [1 .. Packets(length) -> Packet]
    BY <1>4 DEF Train
  <1>. QED BY <1>1, <1>5

LEMMA NextIPIDType == ASSUME globalIPID \in HeaderIds PROVE NextIPID \in HeaderIds
  <1>1. ASSUME NEW m \in Nat \ {0}, NEW i \in 0 .. m - 1
        PROVE  (i + 1) % m \in 0 .. m - 1
    OBVIOUS
  <1>2. IdSpace \in Nat \ {0}
    BY DEF IdSpace
  <1>. QED BY <1>1, <1>2 DEF HeaderIds, NextIPID

LEMMA ReadType ==
    ASSUME ReaderTypeOK, NEW d \in Datagrams, read[d] < Parts[d],
           read' = [read EXCEPT ![d] = @ + 1]
    PROVE  /\ read' \in [Datagrams -> Nat]
           /\ \A e \in Datagrams : read'[e] <= Parts[e]
  <1>1. Parts \in [Datagrams -> Nat \ {0}] /\ read \in [Datagrams -> Nat]
    BY DatagramsAssumption DEF ReaderTypeOK
  <1>2. read'[d] <= Parts[d]
    BY <1>1
  <1>. QED BY <1>1, <1>2 DEF ReaderTypeOK

LEMMA TypeInit == Init => TypeOK
  <1> SUFFICES ASSUME Init PROVE TypeOK
    OBVIOUS
  <1>1. CacheTypeOK
    BY CacheAssumption DEF Init, CacheInit, CacheTypeOK
  <1>2. ReaderTypeOK
    BY DatagramsAssumption DEF Init, ReaderTypeOK
  <1>3. TracksTypeOK
    BY DEF Init, TracksTypeOK
  <1>4. OutTypeOK
    BY DatagramsAssumption DEF Init, OutTypeOK
  <1>. QED BY <1>1, <1>2, <1>3, <1>4 DEF TypeOK

LEMMA CacheTypeKeep ==
    ASSUME CacheTypeOK, TracksOK, [Next]_vars PROVE CacheTypeOK'
  <1> USE DEF CacheTypeOK, cacheVars
  <1>1. CASE UNCHANGED cacheVars
    BY <1>1
  <1>2. ASSUME NEW d \in Requests, Miss(d) PROVE CacheTypeOK'
    BY <1>2 DEF Miss, Restrict
  <1>3. ASSUME NEW d \in Requests, Hit(d) PROVE CacheTypeOK'
    BY <1>3 DEF Hit, Cached
  <1>4. ASSUME NEW d \in Requests, NEW key \in Range(cacheKey), store(d, key)
        PROVE  CacheTypeOK'
    <2>1. clock + Ttl \in Nat
      BY CacheAssumption
    <2>. QED BY <1>4, <2>1 DEF store, Put, Assign
  <1>5. CASE Tick
    BY <1>5, CacheAssumption DEF Tick
  <1>6. ASSUME NEW d \in Datagrams, NEW key \in Range(cacheKey),
               Stores(d, key)
        PROVE  CacheTypeOK'
    BY <1>4, <1>6 DEF Stores, TracksOK
  <1>7. ASSUME NEW d \in Datagrams, ReaderStep(d) PROVE CacheTypeOK'
    BY <1>1, <1>2, <1>3, <1>7 DEF ReaderStep, ReadFragment, ReadMiss, ReadHit
  <1>. QED
    BY <1>1, <1>5, <1>6, <1>7
    DEF Next, TrackStep, Lose, Answered, GivesUp, Push, Sent, StoresNothing,
        Pack, PackFails, Write, WriterQuits, Time, vars

LEMMA ReaderTypeKeep ==
    ASSUME ReaderTypeOK, [Next]_vars PROVE ReaderTypeOK'
  <1> USE DEF arrivals, history
  <1>1. ASSUME UNCHANGED <<arrivals, read, frags, lost, passed>>
        PROVE  ReaderTypeOK'
    BY <1>1 DEF ReaderTypeOK
  <1>2. ASSUME NEW d \in Datagrams, ReadFragment(d) PROVE ReaderTypeOK'
    <2> DEFINE packet == NextPacket(d)
               piece == Part(packet)
    <2>1. packet.id = ipId[d] /\ d \in DOMAIN ipId /\ piece = [of |-> d, part |-> read[d] + 1]
      BY <1>2, DatagramsAssumption
         DEF ReadFragment, Takes, NextPacket, Part, ReaderTypeOK, Fragmentary
    <2>2. packet.id \in IPIds /\ piece \in Piece
      BY <2>1 DEF ReaderTypeOK, Piece
    <2> HIDE DEF packet, piece
    <2>3. packet.id \in DOMAIN frags =>
             Append(frags[packet.id], piece) \in Seq(Piece) \ {<<>>}
      BY <2>2, AppendType DEF ReaderTypeOK
    <2>4. <<piece>> \in Seq(Piece) \ {<<>>}
      BY <2>2
    <2>5. /\ DOMAIN frags' \subseteq IPIds
          /\ \A id \in DOMAIN frags' : frags'[id] \in Seq(Piece) \ {<<>>}
      <3>1. procFragment(packet)
        BY <1>2 DEF ReadFragment, packet
      <3>2. CASE packet.id \in DOMAIN frags
        BY <2>3, <3>1, <3>2 DEF procFragment, ReaderTypeOK, piece
      <3>3. CASE packet.id \notin DOMAIN frags /\ packet.more
        BY <2>2, <2>4, <3>1, <3>3 DEF procFragment, ReaderTypeOK, piece, Assign
      <3>4. CASE packet.id \notin DOMAIN frags /\ ~packet.more
        BY <3>1, <3>4 DEF procFragment, ReaderTypeOK
      <3>. QED BY <3>2, <3>3, <3>4
    <2>6. passed' \in Seq(Seq(Piece) \ {<<>>})
      <3>1. CASE last(packet)
        <4>1. passed' = Append(passed, Append(frags[packet.id], piece))
          BY <1>2, <3>1 DEF ReadFragment, packet, piece, Wire
        <4>. QED BY <2>3, <3>1, <4>1, AppendType DEF last, ReaderTypeOK
      <3>2. CASE ~last(packet)
        BY <1>2, <3>2 DEF ReadFragment, packet, ReaderTypeOK
      <3>. QED BY <3>1, <3>2
    <2>7. UNCHANGED <<coming, ipId, lost>>
      BY <1>2 DEF ReadFragment
    <2>. QED BY <1>2, <2>5, <2>6, <2>7, ReadType
         DEF ReadFragment, Takes, ReaderTypeOK
  <1>3. ASSUME NEW d \in Datagrams, ReadMiss(d) \/ ReadHit(d)
        PROVE  ReaderTypeOK'
    BY <1>3, ReadType DEF ReadMiss, ReadHit, Takes, ReaderTypeOK
  <1>4. ASSUME NEW d \in Datagrams, Lose(d) PROVE ReaderTypeOK'
    BY <1>4, ReadType DEF Lose, ReaderTypeOK
  <1>. QED
    BY <1>1, <1>2, <1>3, <1>4
    DEF Next, ReaderStep, TrackStep, Answered, GivesUp, Push, Sent, Stores,
        StoresNothing, Pack, PackFails, Write, WriterQuits, Time, vars

LEMMA TracksTypeKeep ==
    ASSUME CacheTypeOK, TracksTypeOK, [Next]_vars PROVE TracksTypeOK'
  <1> USE DEF TracksTypeOK, udpVars
  <1>1. ASSUME UNCHANGED <<packing, packed>>,
               track' = track \/ \E d, pc : pc \in {"wait", "send", "store", "done"}
                                  /\ track' = [track EXCEPT ![d] = pc]
        PROVE  TracksTypeOK'
    BY <1>1
  <1>2. ASSUME NEW d \in Datagrams, ReadFragment(d) \/ ReadMiss(d)
        PROVE  TracksTypeOK'
    <2>1. UNCHANGED <<packing, packed>>
      BY <1>2 DEF ReadFragment, ReadMiss
    <2>2. track' = track \/ \E e : track' = [track EXCEPT ![e] = "wait"]
      BY <1>2 DEF ReadFragment, ReadMiss, Forward
    <2>. QED BY <1>1, <2>1, <2>2
  <1>3. ASSUME NEW d \in Datagrams, ReadHit(d) PROVE TracksTypeOK'
    <2>1. [of |-> d, msg |-> storage[cacheKey[d]].msg]
             \in [of: Requests, msg: Requests]
      BY <1>3 DEF ReadHit, Hit, Cached, CacheTypeOK
    <2>. QED BY <1>3, <2>1 DEF ReadHit
  <1>4. ASSUME NEW answer \in packing, Pack(answer) PROVE TracksTypeOK'
    <2>1. [id |-> msgId[answer.msg], msg |-> answer.msg]
             \in [id: Requests, msg: Requests]
      BY DEF CacheTypeOK
    <2>. QED BY <1>4, <2>1 DEF Pack
  <1>5. ASSUME NEW d \in Datagrams,
               Answered(d) \/ GivesUp(d) \/ TrackStep(d)
        PROVE  TracksTypeOK'
    <2>1. \E pc \in {"send", "store", "done"} : track' = [track EXCEPT ![d] = pc]
      BY <1>5 DEF Answered, GivesUp, TrackStep, Sent, Stores, StoresNothing,
                  TrackGoto
    <2>2. UNCHANGED <<packing, packed>>
      BY <1>5 DEF Answered, GivesUp, TrackStep, Sent, Stores, StoresNothing
    <2>. QED BY <1>1, <2>1, <2>2
  <1>6. ASSUME UNCHANGED udpVars PROVE TracksTypeOK'
    BY <1>6
  <1>7. ASSUME NEW answer \in packing, PackFails(answer)
        PROVE  TracksTypeOK'
    BY <1>7 DEF PackFails, Forward
  <1>. QED
    BY <1>2, <1>3, <1>4, <1>5, <1>6, <1>7
    DEF Next, ReaderStep, Lose, Push, Write, WriterQuits, Time, vars

LEMMA RespondType ==
    ASSUME OutTypeOK, NEW d \in Datagrams, NEW l \in Datagrams,
           Respond(d, Length[l]), UNCHANGED <<writeCh, writer, written>>
    PROVE  OutTypeOK'
  <1>1. NextIPID \in HeaderIds
    BY NextIPIDType DEF OutTypeOK
  <1>2. Length[l] \in Nat /\ Length[l] >= UDPHeader
    BY DatagramsAssumption
  <1>3. Train(NextIPID, Length[l]) \in Seq(Packet)
    BY <1>1, <1>2, TrainType
  <1>4. \A id \in DOMAIN begun' : begun'[id] \in Nat
    <2>1. ASSUME NEW id \in DOMAIN begun'
          PROVE  begun'[id] = Length[l]
                    \/ (id \in DOMAIN begun /\ begun'[id] = begun[id])
      BY DEF Respond, Assign
    <2>. QED BY <1>2, <2>1 DEF OutTypeOK
  <1>5. pushing' = [pushing EXCEPT ![d] = Train(NextIPID, Length[l])]
        /\ globalIPID' = NextIPID
    BY DEF Respond
  <1>6. pushing \in [Datagrams -> Seq(Packet)]
    BY DEF OutTypeOK
  <1>7. pushing' \in [Datagrams -> Seq(Packet)]
    BY <1>3, <1>5, <1>6
  <1>. QED BY <1>1, <1>4, <1>5, <1>7 DEF OutTypeOK

LEMMA OutTypeKeep ==
    ASSUME TracksTypeOK, OutTypeOK, [Next]_vars PROVE OutTypeOK'
  <1> USE DEF outVars
  <1>1. CASE UNCHANGED outVars
    BY <1>1 DEF OutTypeOK
  <1>2. ASSUME NEW answer \in packing, Pack(answer) PROVE OutTypeOK'
    <2>1. answer.of \in Datagrams /\ answer.msg \in Datagrams
      BY DatagramsAssumption DEF TracksTypeOK
    <2>. QED BY <1>2, <2>1, RespondType DEF Pack
  <1>3. ASSUME NEW d \in Datagrams, Answered(d) PROVE OutTypeOK'
    BY <1>3, RespondType DEF Answered
  <1>4. ASSUME NEW d \in Datagrams, Push(d) PROVE OutTypeOK'
    <2>1. pushing[d] \in Seq(Packet) /\ pushing[d] # <<>> /\ writeCh \in Seq(Packet)
      BY <1>4 DEF Push, OutTypeOK
    <2>2. Head(pushing[d]) \in Packet /\ Tail(pushing[d]) \in Seq(Packet)
      BY <2>1, TailType
    <2>3. /\ writeCh' \in Seq(Packet) /\ Len(writeCh') = Len(writeCh) + 1
          /\ Len(writeCh) \in Nat /\ Len(writeCh) < WriteCap
      BY <1>4, <2>1, <2>2, AppendType DEF Push
    <2>. QED BY <1>4, <2>2, <2>3, DatagramsAssumption DEF Push, OutTypeOK
  <1>5. CASE Write
    <2>1. writeCh # <<>> /\ writeCh' = Tail(writeCh) /\ writeCh \in Seq(Packet)
      BY <1>5 DEF Write, OutTypeOK
    <2>2. /\ Head(writeCh) \in Packet /\ writeCh' \in Seq(Packet)
          /\ Len(writeCh') <= WriteCap
      BY <2>1, TailType, DatagramsAssumption DEF OutTypeOK
    <2> DEFINE packet == Head(writeCh)
               before == IF packet.id \in DOMAIN written
                         THEN written[packet.id] ELSE <<>>
    <2>3. before \in Seq(Packet)
      BY DEF OutTypeOK
    <2>4. written' = Assign(written, packet.id, Append(before, packet))
      BY <1>5 DEF Write
    <2> HIDE DEF packet, before
    <2>5. Append(before, packet) \in Seq(Packet) \ {<<>>}
      BY <2>2, <2>3, AppendType DEF packet
    <2>6. \A id \in DOMAIN written' : written'[id] \in Seq(Packet) \ {<<>>}
      <3> DEFINE now == Append(before, packet)
      <3>1. ASSUME NEW id \in DOMAIN written'
            PROVE  written'[id] = now
                      \/ (id \in DOMAIN written /\ written'[id] = written[id])
        BY <2>4 DEF Assign
      <3>. QED BY <2>5, <3>1 DEF OutTypeOK
    <2>. QED BY <1>5, <2>2, <2>6 DEF Write, OutTypeOK
  <1>6. CASE WriterQuits
    BY <1>6 DEF WriterQuits, OutTypeOK
  <1>. QED
    BY <1>1, <1>2, <1>3, <1>4, <1>5, <1>6
    DEF Next, ReaderStep, TrackStep, ReadFragment, ReadMiss, ReadHit, Lose,
        GivesUp, Sent, Stores, StoresNothing, PackFails, Time, vars

LEMMA TypeNext == TypeOK /\ TracksOK /\ [Next]_vars => TypeOK'
  BY CacheTypeKeep, ReaderTypeKeep, TracksTypeKeep, OutTypeKeep DEF TypeOK

\* What is in the cache, in the table of fragments, under way to the writer and
\* written keeps its type, for any datagrams, capacities and times to live: the
\* counter of responses stays within the 16 bits of a header's id, and nobody
\* puts more in writeCh than it takes.
THEOREM TypeCorrect == Spec => []TypeOK
  <1>1. Inv => TracksOK
    BY DEF Inv
  <1>. QED BY <1>1, InitInv, NextInv, TypeInit, TypeNext, PTL DEF Spec
-----------------------------------------------------------------------------
(* Reassembly                                                              *)

\* The first n parts of a datagram; all are Whole(d).
FirstParts(d, n) == [i \in 1 .. n |-> [of |-> d, part |-> i]]

\* An entry begins with a fragment of a datagram that has its id.
HeadsOK ==
    \A id \in DOMAIN frags :
        frags[id][1].of \in DOMAIN ipId /\ ipId[frags[id][1].of] = id

\* The datagrams Reassembled is about.
Alone(d) == d \in DOMAIN ipId /\ SameId(d) = {d} /\ d \notin lost

\* What has been read of such a one is all there is under its id, and it is
\* passed on when, and only when, the last of it has been read.
Kept(d) ==
    /\ read[d] = 0 => ipId[d] \notin DOMAIN frags
    /\ read[d] > 0 => /\ ipId[d] \in DOMAIN frags
                      /\ frags[ipId[d]] = FirstParts(d, read[d])
    /\ \A i \in DOMAIN passed :
          passed[i][1].of = d => passed[i] = Whole(d) /\ read[d] = Parts[d]
    /\ read[d] = Parts[d] =>
          \E i \in DOMAIN passed :
             \A j \in DOMAIN passed : (passed[j][1].of = d) <=> j = i

ReassemblyOK == HeadsOK /\ \A d \in Datagrams : Alone(d) => Kept(d)

LEMMA FirstPartsGrow ==
    ASSUME NEW d \in Datagrams, NEW n \in Nat
    PROVE  /\ FirstParts(d, n) \in Seq(Piece)
           /\ Append(FirstParts(d, n), [of |-> d, part |-> n + 1])
                 = FirstParts(d, n + 1)
           /\ FirstParts(d, 1) = <<[of |-> d, part |-> 1]>>
           /\ n > 0 => FirstParts(d, n) # <<>> /\ FirstParts(d, n)[1].of = d
  <1> DEFINE s == FirstParts(d, n)
             x == [of |-> d, part |-> n + 1]
             t == FirstParts(d, n + 1)
  <1>1. \A i \in Nat : [of |-> d, part |-> i] \in Piece
    BY DEF Piece
  <1>2. s \in Seq(Piece) /\ Len(s) = n /\ t \in Seq(Piece) /\ Len(t) = n + 1
    BY <1>1 DEF FirstParts
  <1>3. \A i \in 1 .. n : s[i] = t[i]
    BY DEF FirstParts
  <1>4. t[n + 1] = x
    BY DEF FirstParts
  <1>5. FirstParts(d, 1) = <<[of |-> d, part |-> 1]>>
    BY DEF FirstParts
  <1>a. n > 0 => s # <<>> /\ s[1].of = d
    <2>1. Len(s) = n
      BY <1>2
    <2>. QED BY <2>1 DEF FirstParts
  <1>6. x \in Piece
    BY <1>1
  <1> HIDE DEF s, t, x
  <1>7. /\ Append(s, x) \in Seq(Piece) /\ Len(Append(s, x)) = n + 1
        /\ Append(s, x)[n + 1] = x /\ \A i \in 1 .. n : Append(s, x)[i] = s[i]
    BY <1>2, <1>6, AppendType
  <1>8. \A i \in 1 .. n + 1 : Append(s, x)[i] = t[i]
    BY <1>3, <1>4, <1>7
  <1>9. Append(s, x) = t
    BY <1>2, <1>7, <1>8
  <1>. QED BY <1>2, <1>5, <1>9, <1>a DEF s, t, x

\* What reading a fragment does, entry by entry.
LEMMA ReadFragmentStep ==
    ASSUME ReaderTypeOK, NEW d \in Datagrams, ReadFragment(d)
    PROVE  LET id == ipId[d]
               x == [of |-> d, part |-> read[d] + 1]
               more == read[d] + 1 < Parts[d]
           IN  /\ d \in DOMAIN ipId /\ read[d] < Parts[d] /\ Parts[d] > 1
               /\ x \in Piece
               /\ read' = [read EXCEPT ![d] = @ + 1]
               /\ UNCHANGED <<coming, ipId, lost>>
               /\ \A j \in DOMAIN frags :
                     j # id => j \in DOMAIN frags' /\ frags'[j] = frags[j]
               /\ \A j \in DOMAIN frags' : j # id => j \in DOMAIN frags
               /\ id \in DOMAIN frags =>
                     id \in DOMAIN frags' /\ frags'[id] = Append(frags[id], x)
               /\ id \notin DOMAIN frags /\ more =>
                     id \in DOMAIN frags' /\ frags'[id] = <<x>>
               /\ id \notin DOMAIN frags /\ ~more => id \notin DOMAIN frags'
               /\ passed' = IF id \in DOMAIN frags /\ ~more
                            THEN Append(passed, Append(frags[id], x))
                            ELSE passed
  <1> DEFINE id == ipId[d]
             x == [of |-> d, part |-> read[d] + 1]
             more == read[d] + 1 < Parts[d]
             p == NextPacket(d)
  <1>1. /\ d \in coming /\ Parts[d] > 1 /\ read[d] < Parts[d]
        /\ read' = [read EXCEPT ![d] = @ + 1] /\ UNCHANGED <<coming, ipId, lost>>
    BY DEF ReadFragment, Takes, arrivals
  <1>2. d \in DOMAIN ipId
    BY <1>1 DEF ReaderTypeOK, Fragmentary
  <1>3. x \in Piece
    BY DEF ReaderTypeOK, Piece
  <1>4. p.id = id /\ Part(p) = x /\ (p.more <=> more)
    BY DEF NextPacket, Part
  <1>5. procFragment(p)
    BY DEF ReadFragment
  <1>6. passed' = IF id \in DOMAIN frags /\ ~more
                  THEN Append(passed, Append(frags[id], x)) ELSE passed
    BY <1>4 DEF ReadFragment, last, Wire
  <1> HIDE DEF id, x, more, p
  <1>7. CASE id \in DOMAIN frags
    BY <1>1, <1>2, <1>3, <1>4, <1>5, <1>6, <1>7 DEF procFragment, id, x, more
  <1>8. CASE id \notin DOMAIN frags /\ more
    <2>1. frags' = Assign(frags, id, <<x>>)
      BY <1>4, <1>5, <1>8 DEF procFragment
    <2>2. /\ DOMAIN frags' = DOMAIN frags \cup {id} /\ frags'[id] = <<x>>
          /\ \A j \in DOMAIN frags : j # id => frags'[j] = frags[j]
      BY <2>1 DEF Assign
    <2>3. passed' = passed
      BY <1>6, <1>8
    <2>. QED
      BY <1>1, <1>2, <1>3, <1>6, <1>8, <2>2, <2>3 DEF id, x, more
  <1>9. CASE id \notin DOMAIN frags /\ ~more
    <2>1. frags' = frags
      BY <1>4, <1>5, <1>9 DEF procFragment
    <2>. QED
      BY <1>1, <1>2, <1>3, <1>6, <1>9, <2>1 DEF id, x, more
  <1>. QED BY <1>7, <1>8, <1>9

LEMMA HeadsKeep ==
    ASSUME ReaderTypeOK, HeadsOK, NEW d \in Datagrams, ReadFragment(d)
    PROVE  HeadsOK'
  <1> DEFINE id == ipId[d]
             x == [of |-> d, part |-> read[d] + 1]
  <1>1. /\ d \in DOMAIN ipId /\ x \in Piece /\ ipId' = ipId
        /\ \A j \in DOMAIN frags' :
              j # id => j \in DOMAIN frags /\ frags'[j] = frags[j]
        /\ id \in DOMAIN frags => frags'[id] = Append(frags[id], x)
        /\ id \in DOMAIN frags' /\ id \notin DOMAIN frags => frags'[id] = <<x>>
    BY ReadFragmentStep
  <1>2. ASSUME NEW j \in DOMAIN frags', j # id
        PROVE  frags'[j][1].of \in DOMAIN ipId /\ ipId[frags'[j][1].of] = j
    BY <1>1, <1>2 DEF HeadsOK
  <1>3. CASE id \in DOMAIN frags
    <2>1. frags[id] \in Seq(Piece) /\ frags[id] # <<>>
      BY <1>3 DEF ReaderTypeOK
    <2> HIDE DEF x
    <2>2. Append(frags[id], x)[1] = frags[id][1]
      BY <1>1, <2>1, AppendFirst
    <2>. QED BY <1>1, <1>2, <1>3, <2>2 DEF HeadsOK
  <1>4. CASE id \notin DOMAIN frags
    BY <1>1, <1>2, <1>4 DEF HeadsOK
  <1>. QED BY <1>3, <1>4

\* Of a fragment of another datagram that has no other's id nothing is seen.
LEMMA KeptByOthers ==
    ASSUME ReaderTypeOK, HeadsOK, NEW d \in Datagrams, ReadFragment(d),
           NEW e \in Datagrams, e # d, Alone(e), Kept(e)
    PROVE  Kept(e)'
  <1> DEFINE id == ipId[d]
             x == [of |-> d, part |-> read[d] + 1]
             more == read[d] + 1 < Parts[d]
             wire == Append(frags[id], x)
  <1>1. /\ d \in DOMAIN ipId /\ x \in Piece /\ ipId' = ipId
        /\ read' = [read EXCEPT ![d] = @ + 1]
        /\ \A j \in DOMAIN frags :
              j # id => j \in DOMAIN frags' /\ frags'[j] = frags[j]
        /\ \A j \in DOMAIN frags' : j # id => j \in DOMAIN frags
        /\ passed' = IF id \in DOMAIN frags /\ ~more
                     THEN Append(passed, wire) ELSE passed
    BY ReadFragmentStep
  <1>2. e \in DOMAIN ipId /\ ipId[e] # id
    BY <1>1 DEF Alone, SameId
  <1>3. read'[e] = read[e] /\ ipId'[e] = ipId[e]
    BY <1>1
  <1>4. /\ ipId[e] \in DOMAIN frags' <=> ipId[e] \in DOMAIN frags
        /\ ipId[e] \in DOMAIN frags => frags'[ipId[e]] = frags[ipId[e]]
    BY <1>1, <1>2
  <1>5. /\ \A i \in DOMAIN passed : i \in DOMAIN passed' /\ passed'[i] = passed[i]
        /\ \A i \in DOMAIN passed' : i \notin DOMAIN passed => passed'[i][1].of # e
    <2>1. CASE id \in DOMAIN frags /\ ~more
      <3>1. /\ frags[id] \in Seq(Piece) /\ frags[id] # <<>>
            /\ passed \in Seq(Seq(Piece) \ {<<>>})
        BY <2>1 DEF ReaderTypeOK
      <3> HIDE DEF x, more
      <3>2. wire \in Seq(Piece) \ {<<>>} /\ wire[1] = frags[id][1]
        <4>1. x \in Piece
          BY <1>1
        <4> HIDE DEF id
        <4>. QED BY <3>1, <4>1, AppendFirst
      <3>3. wire[1].of # e
        BY <1>2, <2>1, <3>2 DEF HeadsOK
      <3> HIDE DEF wire
      <3>4. passed' = Append(passed, wire)
        BY <1>1, <2>1
      <3>5. /\ DOMAIN passed = 1 .. Len(passed)
            /\ DOMAIN passed' = 1 .. Len(passed) + 1
            /\ passed'[Len(passed) + 1] = wire
            /\ \A i \in 1 .. Len(passed) : passed'[i] = passed[i]
            /\ Len(passed) \in Nat
        <4> DEFINE S == Seq(Piece) \ {<<>>}
        <4>1. passed \in Seq(S) /\ wire \in S
          BY <3>1, <3>2
        <4> HIDE DEF S
        <4>. QED BY <3>4, <4>1, AppendType
      <3>. QED BY <3>1, <3>3, <3>5
    <2>2. CASE ~(id \in DOMAIN frags /\ ~more)
      BY <1>1, <2>2
    <2>. QED BY <2>1, <2>2
  <1> HIDE DEF id, x, more, wire
  <1>6. /\ read'[e] = 0 => ipId'[e] \notin DOMAIN frags'
        /\ read'[e] > 0 => /\ ipId'[e] \in DOMAIN frags'
                           /\ frags'[ipId'[e]] = FirstParts(e, read'[e])
    BY <1>3, <1>4 DEF Kept
  <1>7. \A i \in DOMAIN passed' :
           passed'[i][1].of = e => passed'[i] = Whole(e) /\ read'[e] = Parts[e]
    BY <1>3, <1>5 DEF Kept
  <1>8. read'[e] = Parts[e] =>
           \E i \in DOMAIN passed' :
              \A j \in DOMAIN passed' : (passed'[j][1].of = e) <=> j = i
    BY <1>3, <1>5 DEF Kept
  <1>. QED BY <1>6, <1>7, <1>8 DEF Kept, Whole, FirstParts

LEMMA KeptByOwn ==
    ASSUME ReaderTypeOK, NEW d \in Datagrams, ReadFragment(d), Kept(d)
    PROVE  Kept(d)'
  <1> DEFINE id == ipId[d]
             n == read[d]
             x == [of |-> d, part |-> n + 1]
             wire == Append(frags[id], x)
  <1>1. /\ n < Parts[d] /\ Parts[d] > 1 /\ ipId' = ipId
        /\ read' = [read EXCEPT ![d] = @ + 1]
        /\ id \in DOMAIN frags => id \in DOMAIN frags' /\ frags'[id] = wire
        /\ id \notin DOMAIN frags /\ n + 1 < Parts[d] =>
              id \in DOMAIN frags' /\ frags'[id] = <<x>>
        /\ passed' = IF id \in DOMAIN frags /\ ~(n + 1 < Parts[d])
                     THEN Append(passed, wire) ELSE passed
    BY ReadFragmentStep
  <1>2. /\ n \in Nat /\ Parts[d] \in Nat /\ read'[d] = n + 1
    BY <1>1, DatagramsAssumption DEF ReaderTypeOK
  <1>3. id \in DOMAIN frags' /\ frags'[id] = FirstParts(d, n + 1)
    <2>1. CASE n = 0
      <3>1. id \notin DOMAIN frags /\ x = [of |-> d, part |-> 1]
        BY <2>1 DEF Kept
      <3>. QED BY <1>1, <1>2, <2>1, <3>1, FirstPartsGrow
    <2>2. CASE n > 0
      <3>1. id \in DOMAIN frags /\ wire = Append(FirstParts(d, n), x)
        BY <2>2 DEF Kept
      <3>. QED BY <1>1, <1>2, <3>1, FirstPartsGrow
    <2>. QED BY <1>2, <2>1, <2>2
  <1>4. \A i \in DOMAIN passed : passed[i][1].of # d
    BY <1>1, <1>2 DEF Kept
  <1>5. CASE n + 1 < Parts[d]
    <2>1. passed' = passed
      BY <1>1, <1>5
    <2>. QED BY <1>1, <1>2, <1>3, <1>4, <1>5, <2>1 DEF Kept
  <1>6. CASE n + 1 = Parts[d]
    <2>1. n > 0 /\ id \in DOMAIN frags
      BY <1>1, <1>2, <1>6 DEF Kept
    <2>2. wire = FirstParts(d, n + 1)
      BY <1>1, <1>3, <2>1
    <2>3. wire = Whole(d) /\ wire[1].of = d /\ wire \in Seq(Piece) \ {<<>>}
      <3>1. Whole(d) = FirstParts(d, n + 1)
        BY <1>6 DEF Whole, FirstParts
      <3>2. n + 1 \in Nat /\ n + 1 > 0
        BY <1>2
      <3> HIDE DEF wire, n
      <3>. QED BY <2>2, <3>1, <3>2, FirstPartsGrow
    <2>4. passed' = Append(passed, wire)
      BY <1>1, <1>2, <1>6, <2>1
    <2> HIDE DEF wire
    <2>5. /\ DOMAIN passed = 1 .. Len(passed)
          /\ DOMAIN passed' = 1 .. Len(passed) + 1
          /\ passed'[Len(passed) + 1] = wire
          /\ \A i \in 1 .. Len(passed) : passed'[i] = passed[i]
          /\ Len(passed) \in Nat
      <3> DEFINE S == Seq(Piece) \ {<<>>}
      <3>1. passed \in Seq(S) /\ wire \in S
        BY <2>3 DEF ReaderTypeOK
      <3> HIDE DEF S
      <3>. QED BY <2>4, <3>1, AppendType
    <2>6. \A i \in DOMAIN passed' : (passed'[i][1].of = d) <=> i = Len(passed) + 1
      BY <1>4, <2>3, <2>5
    <2>7. Whole(d)' = Whole(d)
      BY DEF Whole
    <2>8. /\ read'[d] = n + 1 /\ n + 1 # 0 /\ ipId'[d] = id
          /\ passed'[Len(passed) + 1] = Whole(d)
          /\ Len(passed) + 1 \in DOMAIN passed'
      BY <1>1, <1>2, <2>3, <2>5
    <2> HIDE DEF n, id
    <2>9. \A i \in DOMAIN passed' :
             passed'[i][1].of = d => passed'[i] = Whole(d)' /\ read'[d] = Parts[d]
      BY <1>6, <2>6, <2>7, <2>8
    <2>. QED BY <1>3, <2>6, <2>8, <2>9 DEF Kept
  <1>7. n + 1 < Parts[d] \/ n + 1 = Parts[d]
    BY <1>1, <1>2
  <1>. QED BY <1>5, <1>6, <1>7

LEMMA ReassemblyNext == ReaderTypeOK /\ ReassemblyOK /\ [Next]_vars => ReassemblyOK'
  <1> SUFFICES ASSUME ReaderTypeOK, ReassemblyOK, [Next]_vars
               PROVE  ReassemblyOK'
    OBVIOUS
  <1> USE DEF arrivals, history
  <1>1. ASSUME UNCHANGED <<ipId, frags, passed>>, lost \subseteq lost',
               \A e \in Datagrams : Alone(e)' => read'[e] = read[e]
        PROVE  ReassemblyOK'
    <2>1. HeadsOK'
      BY <1>1 DEF ReassemblyOK, HeadsOK
    <2>2. ASSUME NEW e \in Datagrams, Alone(e)' PROVE Kept(e)'
      <3>1. Alone(e) /\ read'[e] = read[e]
        BY <1>1, <2>2 DEF Alone, SameId
      <3>. QED BY <1>1, <3>1 DEF ReassemblyOK, Kept
    <2>. QED BY <2>1, <2>2 DEF ReassemblyOK
  <1>2. ASSUME NEW d \in Datagrams, ReadFragment(d) PROVE ReassemblyOK'
    <2>1. UNCHANGED <<ipId, lost>>
      BY <1>2, ReadFragmentStep
    <2>2. ASSUME NEW e \in Datagrams, Alone(e)' PROVE Kept(e)'
      <3>1. Alone(e) /\ Kept(e)
        BY <2>1, <2>2 DEF Alone, SameId, ReassemblyOK
      <3>. QED BY <1>2, <3>1, KeptByOwn, KeptByOthers DEF ReassemblyOK
    <2>. QED BY <1>2, <2>2, HeadsKeep DEF ReassemblyOK
  <1>3. ASSUME NEW d \in Datagrams, ReadMiss(d) \/ ReadHit(d)
        PROVE  ReassemblyOK'
    <2>1. /\ Parts[d] = 1 /\ UNCHANGED <<ipId, frags, passed, lost>>
          /\ read' = [read EXCEPT ![d] = @ + 1]
      BY <1>3, DatagramsAssumption DEF ReadMiss, ReadHit, Takes
    <2>2. ASSUME NEW e \in Datagrams, Alone(e)' PROVE e # d
      BY <2>1, <2>2 DEF Alone, ReaderTypeOK, Fragmentary
    <2>. QED BY <1>1, <2>1, <2>2
  <1>4. ASSUME NEW d \in Datagrams, Lose(d) PROVE ReassemblyOK'
    <2>1. /\ lost' = lost \cup {d} /\ UNCHANGED <<ipId, frags, passed>>
          /\ read' = [read EXCEPT ![d] = @ + 1]
      BY <1>4 DEF Lose
    <2>. QED BY <1>1, <2>1 DEF Alone
  <1>5. ASSUME UNCHANGED <<arrivals, read, frags, lost, passed>>
        PROVE  ReassemblyOK'
    BY <1>1, <1>5
  <1>. QED
    BY <1>2, <1>3, <1>4, <1>5
    DEF Next, ReaderStep, TrackStep, Answered, GivesUp, Push, Sent, Stores,
        StoresNothing, Pack, PackFails, Write, WriterQuits, Time, vars

LEMMA ReassemblyInit == Init => ReassemblyOK
  <1> SUFFICES ASSUME Init PROVE ReassemblyOK
    OBVIOUS
  <1>1. DOMAIN frags = {} /\ DOMAIN passed = {}
    BY DEF Init
  <1>2. \A d \in Datagrams : read[d] = 0 /\ Parts[d] # 0
    BY DatagramsAssumption DEF Init
  <1>. QED BY <1>1, <1>2 DEF ReassemblyOK, HeadsOK, Kept

LEMMA ReassemblyHolds == ReaderTypeOK /\ ReassemblyOK => Reassembled
  <1> SUFFICES ASSUME ReaderTypeOK, ReassemblyOK, NEW d \in DOMAIN ipId,
                      SameId(d) = {d}, d \notin lost
               PROVE  LET its == {i \in DOMAIN passed : passed[i][1].of = d} IN
                      /\ \A i \in DOMAIN passed :
                            (passed[i][1].of = d) => passed[i] = Whole(d)
                      /\ Cardinality(its) = IF read[d] = Parts[d] THEN 1 ELSE 0
    BY DEF Reassembled
  <1> DEFINE its == {i \in DOMAIN passed : passed[i][1].of = d}
  <1>1. d \in Datagrams /\ Kept(d)
    BY DEF ReaderTypeOK, Fragmentary, ReassemblyOK, Alone
  <1>2. \A i \in its : passed[i] = Whole(d) /\ read[d] = Parts[d]
    BY <1>1 DEF Kept
  <1>3. CASE read[d] = Parts[d]
    <2>1. PICK i : its = {i}
      BY <1>1, <1>3 DEF Kept
    <2>. QED BY <1>2, <1>3, <2>1, FS_Singleton
  <1>4. CASE read[d] # Parts[d]
    <2>1. its = {}
      BY <1>2, <1>4
    <2>. QED BY <1>2, <1>4, <2>1, FS_EmptySet
  <1>. QED BY <1>3, <1>4

\* Fragments are put together into what was sent, once, for any number of
\* datagrams and of fragments of each, however they are mixed (ip.go:19-50), if
\* none of the datagram is lost and no other has its id.
THEOREM ReassemblyCorrect == Spec => []Reassembled
  <1>1. TypeOK => ReaderTypeOK
    BY DEF TypeOK
  <1>. QED
    BY <1>1, TypeCorrect, ReassemblyInit, ReassemblyNext, ReassemblyHolds, PTL
    DEF Spec
-----------------------------------------------------------------------------
(* The order of what is written                                            *)

\* The packet that n others of the response begun under the id precede.
PacketOf(id, n) == Fragment(id, begun[id], n)

OnDevice(id) == IF id \in DOMAIN written THEN Len(written[id]) ELSE 0

\* The packets of a response that m others precede.
Rest(ipid, length, m) ==
    [i \in 1 .. Packets(length) - m |-> Fragment(ipid, length, m + i - 1)]

Pushes(d, id) == pushing[d] # <<>> /\ pushing[d][1].id = id

\* The first m packets of the response have been put in writeCh: those that are
\* on the device first, then those that are in the queue.
UpTo(id, m) ==
    /\ OnDevice(id) <= m /\ m <= Packets(begun[id])
    /\ \A i \in 1 .. OnDevice(id) : written[id][i] = PacketOf(id, i - 1)
    /\ \A k \in 1 .. Len(writeCh) : writeCh[k].id = id =>
          \E n \in OnDevice(id) .. m - 1 : writeCh[k] = PacketOf(id, n)
    /\ \A n \in OnDevice(id) .. m - 1 :
          \E k \in 1 .. Len(writeCh) : writeCh[k] = PacketOf(id, n)
    /\ \A d \in Datagrams : Pushes(d, id) => pushing[d] = Rest(id, begun[id], m)

InTurn ==
    \A j, k \in 1 .. Len(writeCh) :
       writeCh[j].id = writeCh[k].id /\ j < k => writeCh[j].from < writeCh[k].from

Begun ==
    /\ DOMAIN written \subseteq DOMAIN begun
    /\ \A k \in 1 .. Len(writeCh) : writeCh[k].id \in DOMAIN begun
    /\ \A d \in Datagrams : pushing[d] # <<>> => pushing[d][1].id \in DOMAIN begun
    /\ \A id \in DOMAIN begun : begun[id] \in Nat /\ begun[id] >= UDPHeader

\* Each response has one who pushes it.
OnePusher ==
    \A id : \A d, e \in Datagrams : Pushes(d, id) /\ Pushes(e, id) => d = e

OrderOK ==
    /\ Begun /\ OnePusher /\ InTurn
    /\ \A id \in DOMAIN begun : \E m \in Nat : UpTo(id, m)

LEMMA RestBegins ==
    ASSUME NEW ipid \in HeaderIds, NEW length \in Nat, length >= UDPHeader,
           NEW m \in Nat
    PROVE  /\ Rest(ipid, length, m) # <<>> => m < Packets(length)
           /\ m < Packets(length) =>
                 /\ Rest(ipid, length, m) # <<>>
                 /\ Head(Rest(ipid, length, m)) = Fragment(ipid, length, m)
                 /\ Rest(ipid, length, m)[1] = Fragment(ipid, length, m)
                 /\ Tail(Rest(ipid, length, m)) = Rest(ipid, length, m + 1)
           /\ Rest(ipid, length, 0) = Train(ipid, length)
  <1> DEFINE count == Packets(length)
             packet(n) == Fragment(ipid, length, n)
             s == Rest(ipid, length, m)
             t == Rest(ipid, length, m + 1)
  <1>1. count \in Nat
    BY Counted
  <1>2. \A n \in Nat : packet(n) \in Packet
    BY FragmentType DEF Packet
  <1>3. Rest(ipid, length, 0) = Train(ipid, length)
    <2>1. \A i \in 1 .. count : packet(0 + i - 1) = packet(i - 1)
      OBVIOUS
    <2>. QED BY <1>1, <2>1 DEF Rest, Train
  <1>4. s = [i \in 1 .. count - m |-> packet(m + i - 1)]
        /\ t = [i \in 1 .. count - (m + 1) |-> packet(m + 1 + i - 1)]
    BY DEF Rest
  <1> HIDE DEF count, packet, s, t
  <1>5. m >= count => s = <<>>
    BY <1>1, <1>4
  <1>6. CASE m < count
    <2>1. \A i \in 1 .. count - m : packet(m + i - 1) \in Packet
      BY <1>2
    <2>2. s \in Seq(Packet) /\ Len(s) = count - m
      <3>1. s \in [1 .. count - m -> Packet]
        BY <1>4, <2>1
      <3>. QED BY <1>1, <1>6, <3>1
    <2>3. s[1] = packet(m)
      BY <1>1, <1>4, <1>6
    <2>4. \A i \in 1 .. count - (m + 1) : packet(m + 1 + i - 1) \in Packet
      BY <1>2
    <2>5. t \in Seq(Packet) /\ Len(t) = count - (m + 1)
      <3>1. t \in [1 .. count - (m + 1) -> Packet]
        BY <1>4, <2>4
      <3>. QED BY <1>1, <1>6, <3>1
    <2>6. s # <<>>
      BY <1>1, <1>6, <2>2
    <2>7. /\ Head(s) = s[1] /\ Tail(s) \in Seq(Packet)
          /\ Len(Tail(s)) = count - (m + 1)
          /\ \A i \in 1 .. count - (m + 1) : Tail(s)[i] = s[i + 1]
      BY <1>1, <1>6, <2>2, <2>6, TailType
    <2>8. \A i \in 1 .. count - (m + 1) : s[i + 1] = t[i]
      <3>1. ASSUME NEW i \in 1 .. count - (m + 1) PROVE s[i + 1] = t[i]
        <4>1. i + 1 \in 1 .. count - m /\ m + (i + 1) - 1 = m + 1 + i - 1
          BY <1>1, <1>6
        <4>. QED BY <1>4, <4>1
      <3>. QED BY <3>1
    <2>9. Tail(s) = t
      BY <2>5, <2>7, <2>8
    <2>. QED BY <1>3, <2>3, <2>6, <2>7, <2>9, <1>6 DEF s, t, packet, count
  <1>. QED BY <1>1, <1>3, <1>5, <1>6 DEF s, t, packet, count

\* A packet of the response is one of those that have been put in writeCh and not
\* been taken from it.
LEMMA InQueue ==
    ASSUME OutTypeOK, NEW id, NEW m \in Nat, UpTo(id, m),
           NEW k \in 1 .. Len(writeCh), writeCh[k].id = id
    PROVE  /\ OnDevice(id) \in Nat
           /\ \E n \in Nat : /\ OnDevice(id) <= n /\ n < m
                             /\ writeCh[k] = PacketOf(id, n)
  <1>1. OnDevice(id) \in Nat
    BY DEF OutTypeOK, OnDevice
  <1>2. PICK n \in OnDevice(id) .. m - 1 : writeCh[k] = PacketOf(id, n)
    BY DEF UpTo
  <1>. QED BY <1>1, <1>2

LEMMA PushKeeps ==
    ASSUME OutTypeOK, OrderOK, NEW d \in Datagrams, Push(d)
    PROVE  OrderOK'
  <1>1. /\ pushing[d] # <<>> /\ pushing \in [Datagrams -> Seq(Packet)]
        /\ writeCh' = Append(writeCh, Head(pushing[d]))
        /\ pushing' = [pushing EXCEPT ![d] = Tail(@)]
        /\ UNCHANGED <<begun, written>>
        /\ writeCh \in Seq(Packet)
    BY DEF Push, OutTypeOK
  <1>2. PICK p \in Packet : p = Head(pushing[d]) /\ p = pushing[d][1]
    <2>1. pushing[d] \in Seq(Packet)
      BY <1>1
    <2>. QED BY <1>1, <2>1, TailType
  <1>a. PICK id \in HeaderIds : id = p.id
    BY DEF Packet
  <1>b. id \in DOMAIN begun /\ begun[id] \in Nat /\ begun[id] >= UDPHeader
    BY <1>1, <1>2, <1>a DEF OrderOK, Begun
  <1>c. PICK b \in Nat : b = begun[id] /\ b >= UDPHeader
    BY <1>b
  <1>3. Pushes(d, id)
    BY <1>1, <1>2, <1>a DEF Pushes
  <1>4. PICK m \in Nat : UpTo(id, m)
    BY <1>b DEF OrderOK
  <1>d. PICK L \in Nat : L = Len(writeCh)
    BY <1>1
  <1>5. /\ m < Packets(b) /\ p = Fragment(id, b, m)
        /\ pushing'[d] = Rest(id, b, m + 1)
        /\ Packets(b) \in Nat
    <2>1. pushing[d] = Rest(id, b, m)
      BY <1>3, <1>4, <1>c DEF UpTo
    <2>2. pushing'[d] = Tail(Rest(id, b, m)) /\ p = Head(Rest(id, b, m))
      BY <1>1, <1>2, <2>1
    <2>3. m < Packets(b)
      BY <1>1, <1>c, <2>1, RestBegins
    <2>. QED BY <1>c, <2>2, <2>3, RestBegins, Counted
  <1>6. /\ Len(writeCh') = L + 1 /\ writeCh'[L + 1] = p
        /\ \A k \in 1 .. L : writeCh'[k] = writeCh[k]
    BY <1>1, <1>2, <1>d, AppendType
  <1>7. pushing'[d] # <<>> => pushing'[d][1].id = id
    <2>1. m + 1 \in Nat /\ Fragment(id, b, m + 1).id = id
      BY DEF Fragment
    <2>. QED BY <1>c, <1>5, <2>1, RestBegins
  <1>8. \A e \in Datagrams : e # d => pushing'[e] = pushing[e]
    BY <1>1
  <1>9. \A i : \A e \in Datagrams : Pushes(e, i)' => Pushes(e, i)
    BY <1>1, <1>3, <1>7, <1>8 DEF Pushes
  <1>10. Begun'
    <2>1. \A k \in 1 .. Len(writeCh') : writeCh'[k].id \in DOMAIN begun
      <3>1. \A k \in 1 .. L : writeCh[k].id \in DOMAIN begun
        BY <1>d DEF OrderOK, Begun
      <3>2. ASSUME NEW k \in 1 .. L + 1 PROVE k = L + 1 \/ k \in 1 .. L
        OBVIOUS
      <3>. QED BY <1>a, <1>b, <1>6, <3>1, <3>2
    <2>2. ASSUME NEW e \in Datagrams, pushing'[e] # <<>>
          PROVE  pushing'[e][1].id \in DOMAIN begun
      BY <1>b, <1>7, <1>8, <2>2 DEF OrderOK, Begun
    <2>. QED BY <1>1, <2>1, <2>2 DEF OrderOK, Begun
  <1>11. OnePusher'
    BY <1>9 DEF OrderOK, OnePusher
  <1>12. \A k \in 1 .. L : writeCh[k].id = id => writeCh[k].from < p.from
    <2>1. ASSUME NEW k \in 1 .. L, writeCh[k].id = id
          PROVE  writeCh[k].from < p.from
      <3>1. PICK n \in Nat : n < m /\ writeCh[k] = Fragment(id, b, n)
        BY <1>4, <1>c, <1>d, <2>1, InQueue DEF PacketOf
      <3>. QED BY <1>5, <3>1, Ordered
    <2>. QED BY <2>1
  <1>13. InTurn'
    <2>1. ASSUME NEW j \in 1 .. L + 1, NEW k \in 1 .. L + 1, j < k,
                 writeCh'[j].id = writeCh'[k].id
          PROVE  writeCh'[j].from < writeCh'[k].from
      <3>1. j \in 1 .. L /\ writeCh'[j] = writeCh[j]
        BY <1>6, <2>1
      <3>2. CASE k = L + 1
        BY <1>a, <1>6, <1>12, <2>1, <3>1, <3>2
      <3>3. CASE k \in 1 .. L
        BY <1>d, <1>6, <2>1, <3>1, <3>3 DEF OrderOK, InTurn
      <3>. QED BY <1>6, <3>2, <3>3
    <2>. QED BY <1>6, <2>1 DEF InTurn
  <1>14. UpTo(id, m + 1)'
    <2>1. OnDevice(id) \in Nat /\ OnDevice(id)' = OnDevice(id)
      BY <1>1 DEF OutTypeOK, OnDevice
    <2>2. OnDevice(id) <= m
      BY <1>4 DEF UpTo
    <2>3. \A k \in 1 .. L + 1 : writeCh'[k].id = id =>
             \E n \in OnDevice(id) .. m : writeCh'[k] = Fragment(id, b, n)
      <3>1. ASSUME NEW k \in 1 .. L, writeCh[k].id = id
            PROVE  \E n \in OnDevice(id) .. m : writeCh'[k] = Fragment(id, b, n)
        <4>1. PICK n \in Nat : /\ OnDevice(id) <= n /\ n < m
                               /\ writeCh[k] = Fragment(id, b, n)
          BY <1>4, <1>c, <1>d, <3>1, InQueue DEF PacketOf
        <4>2. n \in OnDevice(id) .. m
          BY <2>1, <4>1
        <4>. QED BY <1>6, <4>1, <4>2
      <3>2. m \in OnDevice(id) .. m /\ writeCh'[L + 1] = Fragment(id, b, m)
        BY <1>5, <1>6, <2>1, <2>2
      <3>. QED BY <1>6, <3>1, <3>2
    <2>4. \A n \in OnDevice(id) .. m :
             \E k \in 1 .. L + 1 : writeCh'[k] = Fragment(id, b, n)
      <3>1. ASSUME NEW n \in OnDevice(id) .. m - 1
            PROVE  \E k \in 1 .. L : writeCh'[k] = Fragment(id, b, n)
        BY <1>4, <1>c, <1>d, <1>6, <3>1 DEF UpTo, PacketOf
      <3>. QED BY <1>5, <1>6, <2>1, <3>1
    <2>5. ASSUME NEW e \in Datagrams, Pushes(e, id)'
          PROVE  pushing'[e] = Rest(id, b, m + 1)
      <3>1. e = d
        BY <1>3, <1>9, <2>5 DEF OrderOK, OnePusher
      <3>. QED BY <1>5, <3>1
    <2>6. (\A n : PacketOf(id, n)' = Fragment(id, b, n)) /\ begun'[id] = b
      BY <1>1, <1>c DEF PacketOf
    <2>7. \A i \in 1 .. OnDevice(id) : written'[id][i] = Fragment(id, b, i - 1)
      BY <1>1, <1>4, <1>c DEF UpTo, PacketOf
    <2>8. m + 1 <= Packets(b) /\ OnDevice(id) <= m + 1 /\ m + 1 - 1 = m
      BY <1>5, <2>1, <2>2
    <2>. QED
      BY <1>6, <2>1, <2>3, <2>4, <2>5, <2>6, <2>7, <2>8, SMTT(30) DEF UpTo
  <1>15. ASSUME NEW i \in DOMAIN begun, i # id, NEW l \in Nat, UpTo(i, l)
         PROVE  UpTo(i, l)'
    <2>1. OnDevice(i)' = OnDevice(i) /\ begun'[i] = begun[i]
          /\ written' = written /\ \A n : PacketOf(i, n)' = PacketOf(i, n)
      BY <1>1 DEF OnDevice, PacketOf
    <2>2. \A k \in 1 .. L + 1 : writeCh'[k].id = i => k \in 1 .. L
      BY <1>a, <1>6, <1>15
    <2>3. ASSUME NEW e \in Datagrams, Pushes(e, i)'
          PROVE  Pushes(e, i) /\ pushing'[e] = pushing[e]
      BY <1>3, <1>7, <1>8, <1>9, <1>15, <2>3 DEF Pushes
    <2>4. \A k \in 1 .. L : k \in 1 .. L + 1
      BY <1>6
    <2> DEFINE W == OnDevice(i)
    <2>5. /\ W <= l /\ l <= Packets(begun[i])
          /\ \A k \in 1 .. W : written[i][k] = PacketOf(i, k - 1)
          /\ \A k \in 1 .. L : writeCh[k].id = i =>
                \E n \in W .. l - 1 : writeCh[k] = PacketOf(i, n)
          /\ \A n \in W .. l - 1 : \E k \in 1 .. L : writeCh[k] = PacketOf(i, n)
          /\ \A e \in Datagrams : Pushes(e, i) => pushing[e] = Rest(i, begun[i], l)
      BY <1>15, <1>d DEF UpTo
    <2>6. \A k \in 1 .. L + 1 : writeCh'[k].id = i =>
             \E n \in W .. l - 1 : writeCh'[k] = PacketOf(i, n)
      BY <1>6, <2>2, <2>5
    <2>7. \A n \in W .. l - 1 : \E k \in 1 .. L + 1 : writeCh'[k] = PacketOf(i, n)
      BY <1>6, <2>4, <2>5
    <2>8. \A e \in Datagrams : Pushes(e, i)' => pushing'[e] = Rest(i, begun[i], l)
      BY <2>3, <2>5
    <2>. QED BY <1>6, <2>1, <2>5, <2>6, <2>7, <2>8 DEF UpTo
  <1>16. \A i \in DOMAIN begun' : \E l \in Nat : UpTo(i, l)'
    <2>1. m + 1 \in Nat /\ begun' = begun
      BY <1>1
    <2>. QED BY <1>14, <1>15, <2>1 DEF OrderOK
  <1>. QED BY <1>10, <1>11, <1>13, <1>16 DEF OrderOK

\* The packet at the head of the queue is the next of its response.
LEMMA HeadIsNext ==
    ASSUME OutTypeOK, OrderOK, writeCh # <<>>,
           NEW m \in Nat, UpTo(writeCh[1].id, m)
    PROVE  /\ OnDevice(writeCh[1].id) < m
           /\ writeCh[1] = PacketOf(writeCh[1].id, OnDevice(writeCh[1].id))
           /\ \A k \in 1 .. Len(writeCh) :
                 k > 1 => writeCh[k]
                             # PacketOf(writeCh[1].id, OnDevice(writeCh[1].id))
  <1> DEFINE id == writeCh[1].id
             W == OnDevice(id)
  <1>1. writeCh \in Seq(Packet) /\ 1 \in 1 .. Len(writeCh) /\ Len(writeCh) \in Nat
    BY DEF OutTypeOK
  <1>2. W \in Nat
    BY DEF OutTypeOK, OnDevice
  <1>3. PICK n \in Nat : W <= n /\ n < m /\ writeCh[1] = PacketOf(id, n)
    BY <1>1, InQueue
  <1>4. \A k \in 1 .. Len(writeCh) :
           k > 1 /\ writeCh[k].id = id => writeCh[1].from < writeCh[k].from
    BY <1>1 DEF OrderOK, InTurn
  <1>5. PacketOf(id, W).id = id /\ PacketOf(id, W).from \in Nat
    <2>1. Capacity \in Nat
      BY MTUAssumption DEF Capacity, IPHeader
    <2>. QED BY <1>2, <2>1 DEF PacketOf, Fragment
  <1> HIDE DEF W, id
  <1>6. ~(W < n)
    <2>1. SUFFICES ASSUME W < n PROVE FALSE
      OBVIOUS
    <2>2. W \in W .. m - 1
      BY <1>2, <1>3, <2>1
    <2>3. PICK k \in 1 .. Len(writeCh) : writeCh[k] = PacketOf(id, W)
      BY <2>2 DEF UpTo, W, id
    <2>4. writeCh[k].from < writeCh[1].from
      BY <1>2, <1>3, <2>1, <2>3, Ordered DEF PacketOf
    <2>5. writeCh[1].from \in Nat /\ writeCh[k].from \in Nat
      <3>1. writeCh[1] \in Packet /\ writeCh[k] \in Packet
        BY <1>1, Element
      <3>. QED BY <3>1 DEF Packet
    <2>6. k # 1
      BY <2>4, <2>5
    <2>7. k > 1 /\ writeCh[k].id = id
      BY <1>1, <1>5, <2>3, <2>6
    <2>8. writeCh[1].from < writeCh[k].from
      BY <1>4, <2>7
    <2>. QED BY <2>4, <2>5, <2>8
  <1>7. n = W
    BY <1>2, <1>3, <1>6
  <1>8. \A k \in 1 .. Len(writeCh) : k > 1 => writeCh[k] # PacketOf(id, W)
    BY <1>3, <1>4, <1>5, <1>7
  <1>. QED BY <1>3, <1>7, <1>8 DEF id, W

LEMMA WriteKeeps ==
    ASSUME OutTypeOK, OrderOK, Write
    PROVE  OrderOK'
  <1>1. /\ writeCh # <<>> /\ writeCh \in Seq(Packet)
        /\ writeCh' = Tail(writeCh)
        /\ UNCHANGED <<begun, pushing>>
    BY DEF Write, OutTypeOK
  <1>2. PICK p \in Packet : p = Head(writeCh) /\ p = writeCh[1]
    BY <1>1, TailType
  <1>3. PICK id \in HeaderIds : id = p.id
    BY DEF Packet
  <1>4. PICK L \in Nat \ {0} : L = Len(writeCh)
    BY <1>1, TailType
  <1>5. /\ Len(writeCh') = L - 1 /\ 1 \in 1 .. L
        /\ \A k \in 1 .. L - 1 : writeCh'[k] = writeCh[k + 1]
    BY <1>1, <1>4, TailType
  <1>6. id \in DOMAIN begun
    <2>1. \A k \in 1 .. Len(writeCh) : writeCh[k].id \in DOMAIN begun
      BY DEF OrderOK, Begun
    <2>2. 1 \in 1 .. Len(writeCh)
      BY <1>4
    <2>. QED BY <1>2, <1>3, <2>1, <2>2
  <1>7. PICK m \in Nat : UpTo(id, m)
    BY <1>6 DEF OrderOK
  <1>8. PICK W \in Nat : W = OnDevice(id)
    <2>1. OnDevice(id) \in Nat
      BY DEF OutTypeOK, OnDevice
    <2>. QED BY <2>1
  <1>9. /\ W < m /\ p = PacketOf(id, W)
        /\ \A k \in 1 .. L : k > 1 => writeCh[k] # PacketOf(id, W)
    <2>1. id = writeCh[1].id
      BY <1>2, <1>3
    <2>2. UpTo(writeCh[1].id, m) /\ W = OnDevice(writeCh[1].id)
      BY <1>7, <1>8, <2>1
    <2>3. /\ OnDevice(writeCh[1].id) < m
          /\ writeCh[1] = PacketOf(writeCh[1].id, OnDevice(writeCh[1].id))
          /\ \A k \in 1 .. Len(writeCh) :
                k > 1 => writeCh[k]
                            # PacketOf(writeCh[1].id, OnDevice(writeCh[1].id))
      BY <1>1, <2>2, HeadIsNext
    <2>. QED BY <1>2, <1>4, <2>1, <2>2, <2>3
  <1>10. /\ DOMAIN written' = DOMAIN written \cup {id}
         /\ \A i \in DOMAIN written : i # id => written'[i] = written[i]
         /\ Len(written'[id]) = W + 1 /\ written'[id][W + 1] = p
         /\ \A i \in 1 .. W : written'[id][i] = written[id][i]
    <2> DEFINE before == IF id \in DOMAIN written THEN written[id] ELSE <<>>
    <2>1. written' = Assign(written, id, Append(before, p))
      BY <1>2, <1>3 DEF Write
    <2>2. before \in Seq(Packet)
      BY DEF OutTypeOK
    <2>3. Len(before) = W
      BY <1>8 DEF OnDevice
    <2>4. W > 0 => before = written[id]
      BY <1>8 DEF OnDevice
    <2> HIDE DEF before
    <2>5. /\ DOMAIN written' = DOMAIN written \cup {id}
          /\ \A i \in DOMAIN written : i # id => written'[i] = written[i]
          /\ written'[id] = Append(before, p)
      BY <2>1 DEF Assign
    <2>6. /\ Len(Append(before, p)) = W + 1 /\ Append(before, p)[W + 1] = p
          /\ \A i \in 1 .. W : Append(before, p)[i] = before[i]
      BY <2>2, <2>3, AppendType
    <2>. QED BY <2>4, <2>5, <2>6
  <1>11. /\ OnDevice(id)' = W + 1
         /\ \A i : i # id => OnDevice(i)' = OnDevice(i)
    BY <1>10 DEF OnDevice
  <1>12. \A i, n : PacketOf(i, n)' = PacketOf(i, n)
    BY <1>1 DEF PacketOf
  <1>13. \A k \in 1 .. L - 1 : k + 1 \in 1 .. L /\ k + 1 > 1
    BY <1>4
  <1>14. \A k \in 1 .. L : k # 1 => k - 1 \in 1 .. L - 1 /\ k - 1 + 1 = k
    BY <1>4
  <1>15. Begun'
    <2>1. \A k \in 1 .. L - 1 : writeCh'[k].id \in DOMAIN begun
      BY <1>4, <1>5, <1>13 DEF OrderOK, Begun
    <2>2. DOMAIN written' \subseteq DOMAIN begun
      BY <1>6, <1>10 DEF OrderOK, Begun
    <2>. QED BY <1>1, <1>5, <2>1, <2>2 DEF OrderOK, Begun
  <1>16. OnePusher'
    BY <1>1 DEF OrderOK, OnePusher, Pushes
  <1>17. InTurn'
    <2>1. ASSUME NEW j \in 1 .. L - 1, NEW k \in 1 .. L - 1, j < k,
                 writeCh'[j].id = writeCh'[k].id
          PROVE  writeCh'[j].from < writeCh'[k].from
      <3>1. /\ j + 1 \in 1 .. L /\ k + 1 \in 1 .. L /\ j + 1 < k + 1
            /\ writeCh'[j] = writeCh[j + 1] /\ writeCh'[k] = writeCh[k + 1]
        BY <1>5, <1>13, <2>1
      <3>. QED BY <1>4, <2>1, <3>1 DEF OrderOK, InTurn
    <2>. QED BY <1>5, <2>1 DEF InTurn
  <1>18. UpTo(id, m)'
    <2>1. m <= Packets(begun[id]) /\ W + 1 <= m
      BY <1>7, <1>9 DEF UpTo
    <2>2. \A i \in 1 .. W + 1 : written'[id][i] = PacketOf(id, i - 1)
      <3>1. \A i \in 1 .. W : written[id][i] = PacketOf(id, i - 1)
        BY <1>7, <1>8 DEF UpTo
      <3>2. written'[id][W + 1] = PacketOf(id, (W + 1) - 1)
        BY <1>9, <1>10
      <3>3. \A i \in 1 .. W + 1 : i \in 1 .. W \/ i = W + 1
        OBVIOUS
      <3>. QED BY <1>10, <3>1, <3>2, <3>3
    <2>3. ASSUME NEW k \in 1 .. L - 1, writeCh'[k].id = id
          PROVE  \E n \in W + 1 .. m - 1 : writeCh'[k] = PacketOf(id, n)
      <3>1. k + 1 \in 1 .. L /\ k + 1 > 1 /\ writeCh'[k] = writeCh[k + 1]
        BY <1>5, <1>13
      <3>2. PICK n \in Nat : W <= n /\ n < m /\ writeCh[k + 1] = PacketOf(id, n)
        BY <1>4, <1>7, <1>8, <2>3, <3>1, InQueue
      <3>3. n # W
        BY <1>9, <3>1, <3>2
      <3>4. n \in W + 1 .. m - 1
        BY <3>2, <3>3
      <3>. QED BY <3>1, <3>2, <3>4
    <2>4. ASSUME NEW n \in W + 1 .. m - 1
          PROVE  \E k \in 1 .. L - 1 : writeCh'[k] = PacketOf(id, n)
      <3>1. n \in W .. m - 1 /\ n \in Nat /\ W < n
        OBVIOUS
      <3>2. PICK k \in 1 .. L : writeCh[k] = PacketOf(id, n)
        BY <1>4, <1>7, <1>8, <3>1 DEF UpTo
      <3>3. k # 1
        <4>1. PacketOf(id, W).from < PacketOf(id, n).from
          BY <3>1, Ordered DEF PacketOf
        <4>2. PacketOf(id, W).from \in Nat
          BY <1>9 DEF Packet
        <4>. QED BY <1>2, <1>9, <3>2, <4>1, <4>2
      <3>. QED BY <1>5, <1>14, <3>2, <3>3
    <2>5. ASSUME NEW e \in Datagrams, Pushes(e, id)'
          PROVE  pushing'[e] = Rest(id, begun[id], m)
      BY <1>1, <1>7, <2>5 DEF UpTo, Pushes
    <2>6. begun' = begun /\ L - 1 = Len(writeCh')
      BY <1>1, <1>5
    <2>. QED
      BY <1>11, <1>12, <2>1, <2>2, <2>3, <2>4, <2>5, <2>6 DEF UpTo
  <1>19. ASSUME NEW i \in DOMAIN begun, i # id, NEW l \in Nat, UpTo(i, l)
         PROVE  UpTo(i, l)'
    <2> DEFINE V == OnDevice(i)
    <2>1. /\ V <= l /\ l <= Packets(begun[i])
          /\ \A k \in 1 .. V : written[i][k] = PacketOf(i, k - 1)
          /\ \A k \in 1 .. L : writeCh[k].id = i =>
                \E n \in V .. l - 1 : writeCh[k] = PacketOf(i, n)
          /\ \A n \in V .. l - 1 : \E k \in 1 .. L : writeCh[k] = PacketOf(i, n)
          /\ \A e \in Datagrams : Pushes(e, i) => pushing[e] = Rest(i, begun[i], l)
      BY <1>4, <1>19 DEF UpTo
    <2>2. \A k \in 1 .. V : written'[i][k] = written[i][k]
      BY <1>10, <1>19 DEF OnDevice
    <2>3. \A k \in 1 .. L - 1 : writeCh'[k].id = i =>
             \E n \in V .. l - 1 : writeCh'[k] = PacketOf(i, n)
      BY <1>5, <1>13, <2>1
    <2>4. ASSUME NEW n \in V .. l - 1
          PROVE  \E k \in 1 .. L - 1 : writeCh'[k] = PacketOf(i, n)
      <3>1. PICK k \in 1 .. L : writeCh[k] = PacketOf(i, n)
        BY <2>1
      <3>2. writeCh[k].id = i
        BY <3>1 DEF PacketOf, Fragment
      <3>3. k # 1
        BY <1>2, <1>3, <1>19, <3>2
      <3>. QED BY <1>5, <1>14, <3>1, <3>3
    <2>5. \A e \in Datagrams : Pushes(e, i)' => pushing'[e] = Rest(i, begun[i], l)
      BY <1>1, <2>1 DEF Pushes
    <2>6. begun' = begun /\ L - 1 = Len(writeCh') /\ OnDevice(i)' = V
      BY <1>1, <1>5, <1>11, <1>19
    <2> HIDE DEF V
    <2>. QED BY <1>12, <2>1, <2>2, <2>3, <2>4, <2>5, <2>6 DEF UpTo
  <1>20. \A i \in DOMAIN begun' : \E l \in Nat : UpTo(i, l)'
    BY <1>1, <1>18, <1>19 DEF OrderOK
  <1>. QED BY <1>15, <1>16, <1>17, <1>20 DEF OrderOK

-----------------------------------------------------------------------------
(* Every response has an id of its own                                     *)

LEMMA Division ==
    ASSUME NEW a \in Nat, NEW m \in Nat \ {0}
    PROVE  /\ a \div m \in Nat /\ a % m \in 0 .. m - 1
           /\ a = m * (a \div m) + (a % m)
  BY SMT

LEMMA Divided ==
    ASSUME NEW a \in Nat, NEW m \in Nat \ {0}
    PROVE  \E p \in Nat, r \in 0 .. m - 1 : r = a % m /\ a = m * p + r
  <1>1. /\ a \div m \in Nat /\ a % m \in 0 .. m - 1
        /\ a = m * (a \div m) + (a % m)
    BY Division
  <1>. QED BY <1>1

LEMMA Monotone ==
    ASSUME NEW m \in Nat, NEW p \in Nat, NEW q \in Nat, p <= q
    PROVE  m * p <= m * q
  BY SMT

LEMMA SameQuotient ==
    ASSUME NEW m \in Nat \ {0}, NEW p \in Nat, NEW q \in Nat,
           NEW r \in 0 .. m - 1, NEW t \in 0 .. m - 1,
           m * p + r = m * q + t
    PROVE  p = q /\ r = t
  <1>1. ~(p < q)
    <2>1. SUFFICES ASSUME p < q PROVE FALSE
      OBVIOUS
    <2>2. p + 1 <= q
      BY <2>1
    <2>3. m * (p + 1) <= m * q /\ m * (p + 1) = m * p + m
      BY <2>2, SMT
    <2>. QED BY <2>3
  <1>2. ~(q < p)
    <2>1. SUFFICES ASSUME q < p PROVE FALSE
      OBVIOUS
    <2>2. q + 1 <= p
      BY <2>1
    <2>3. m * (q + 1) <= m * p /\ m * (q + 1) = m * q + m
      BY <2>2, SMT
    <2>. QED BY <2>3
  <1>. QED BY <1>1, <1>2

LEMMA NextModulo ==
    ASSUME NEW a \in Nat, NEW m \in Nat \ {0}
    PROVE  ((a % m) + 1) % m = (a + 1) % m
  <1>2. PICK p \in Nat, r \in 0 .. m - 1 : r = a % m /\ a = m * p + r
    BY Divided
  <1>3. PICK q \in Nat, t \in 0 .. m - 1 : t = (a + 1) % m /\ a + 1 = m * q + t
    <2>1. a + 1 \in Nat
      OBVIOUS
    <2>. QED BY <2>1, Divided
  <1>4. PICK e \in Nat, u \in 0 .. m - 1 : u = (r + 1) % m /\ r + 1 = m * e + u
    <2>1. r + 1 \in Nat
      OBVIOUS
    <2>. QED BY <2>1, Divided
  <1>5. m * (p + e) + u = m * q + t
    <2>1. m * (p + e) = m * p + m * e
      BY SMT
    <2>2. m * p \in Nat /\ m * e \in Nat /\ m * q \in Nat
      BY SMT
    <2>. QED BY <1>2, <1>3, <1>4, <2>1, <2>2
  <1>6. p + e \in Nat
    OBVIOUS
  <1>7. u = t
    BY <1>5, <1>6, SameQuotient
  <1>. QED BY <1>2, <1>3, <1>4, <1>7

LEMMA DistinctModulo ==
    ASSUME NEW m \in Nat \ {0}, NEW a \in Nat, NEW b \in Nat, a < b, b < a + m
    PROVE  a % m # b % m
  <1>1. PICK p \in Nat, r \in 0 .. m - 1 : r = a % m /\ a = m * p + r
    BY Divided
  <1>2. PICK q \in Nat, t \in 0 .. m - 1 : t = b % m /\ b = m * q + t
    BY Divided
  <1>3. SUFFICES ASSUME r = t PROVE FALSE
    BY <1>1, <1>2
  <1>4. m * p \in Nat /\ m * q \in Nat /\ m * p < m * q /\ m * q < m * p + m
    BY <1>1, <1>2, <1>3, SMT
  <1>5. m * (p + 1) = m * p + m
    BY SMT
  <1>6. p < q
    <2>1. q <= p => m * q <= m * p
      BY Monotone
    <2>. QED BY <1>4, <2>1
  <1>7. q < p + 1
    <2>1. p + 1 <= q => m * (p + 1) <= m * q
      BY Monotone
    <2>. QED BY <1>4, <1>5, <2>1
  <1>. QED BY <1>6, <1>7

\* The id of the i-th response.
NthId(i) == (FirstIPID + i) % IdSpace

LEMMA NthIds ==
    ASSUME NEW n \in Nat
    PROVE  /\ (NthId(n) + 1) % IdSpace = NthId(n + 1)
           /\ n < IdSpace => \A i \in 1 .. n : NthId(i) # NthId(n + 1)
           /\ NthId(0) = FirstIPID
  <1>1. IdSpace \in Nat \ {0}
    BY DEF IdSpace
  <1>2. FirstIPID \in 0 .. IdSpace - 1
    BY DatagramsAssumption DEF HeaderIds
  <1>3. (NthId(n) + 1) % IdSpace = NthId(n + 1)
    <2>1. FirstIPID + n \in Nat /\ FirstIPID + n + 1 = FirstIPID + (n + 1)
      BY <1>1, <1>2
    <2>. QED BY <1>1, <2>1, NextModulo DEF NthId
  <1>4. ASSUME n < IdSpace, NEW i \in 1 .. n PROVE NthId(i) # NthId(n + 1)
    <2> DEFINE a == FirstIPID + i
               b == FirstIPID + (n + 1)
    <2>1. a \in Nat /\ b \in Nat /\ a < b /\ b < a + IdSpace
      BY <1>1, <1>2, <1>4
    <2> HIDE DEF a, b
    <2>2. a % IdSpace # b % IdSpace
      BY <1>1, <2>1, DistinctModulo
    <2>. QED BY <2>2 DEF a, b, NthId
  <1>5. NthId(0) = FirstIPID
    <2>1. ASSUME NEW m \in Nat \ {0}, NEW f \in 0 .. m - 1 PROVE (f + 0) % m = f
      OBVIOUS
    <2>. QED BY <1>1, <1>2, <2>1 DEF NthId
  <1>. QED BY <1>3, <1>4, <1>5

\* The datagrams that have been answered, or given up.
Spent == {d \in Datagrams : track[d] \in {"send", "store", "done"}}
            \cup {r \in Requests : packed[r] # <<>>}

\* A request is answered from the cache or has a track, and a datagram of one
\* packet has a track once.
OnceOK ==
    /\ \A d \in Datagrams : Parts[d] = 1 /\ track[d] # "none" => read[d] = 1
    /\ \A a \in packing : track[a.of] = "none" /\ packed[a.of] = <<>>
    /\ \A r \in Requests : packed[r] # <<>> => track[r] = "none"

\* The ids are given out one after another, no more than there are datagrams
\* that have been answered.
IdsOK ==
    \E n \in Nat : /\ DOMAIN begun = {NthId(i) : i \in 1 .. n}
                   /\ globalIPID = NthId(n)
                   /\ n <= Cardinality(Spent)

LEMMA ForwardsFragmentary ==
    ASSUME ReaderTypeOK, HeadsOK, NEW d \in Datagrams, ReadFragment(d)
    PROVE  \/ track' = track
           \/ \E f \in Datagrams : /\ Parts[f] > 1 /\ track[f] = "none"
                                   /\ track' = [track EXCEPT ![f] = "wait"]
  <1>1. CASE ~last(NextPacket(d))
    BY <1>1 DEF ReadFragment
  <1>2. CASE last(NextPacket(d))
    <2> DEFINE id == ipId[d]
               x == [of |-> d, part |-> read[d] + 1]
               f == frags[id][1].of
    <2>1. id \in DOMAIN frags /\ x \in Piece
      BY <1>2, ReadFragmentStep DEF last, NextPacket
    <2>2. Wire(NextPacket(d)) = Append(frags[id], x)
      BY DEF Wire, NextPacket, Part
    <2>3. frags[id] \in Seq(Piece) /\ frags[id] # <<>>
      BY <2>1 DEF ReaderTypeOK
    <2> HIDE DEF x
    <2>4. Append(frags[id], x)[1] = frags[id][1]
      <3> HIDE DEF id
      <3>. QED BY <2>1, <2>3, AppendFirst
    <2>5. Wire(NextPacket(d))[1].of = f
      BY <2>2, <2>4
    <2>6. f \in Datagrams /\ Parts[f] > 1
      BY <2>1 DEF HeadsOK, ReaderTypeOK, Fragmentary
    <2>. QED BY <1>2, <2>5, <2>6 DEF ReadFragment, Forward
  <1>. QED BY <1>1, <1>2

LEMMA OnceKeep ==
    ASSUME ReaderTypeOK, TracksTypeOK, Inv, HeadsOK, OnceOK, [Next]_vars
    PROVE  OnceOK' /\ Spent \subseteq Spent'
  <1> USE DEF udpVars
  <1>1. /\ track \in [Datagrams -> {"none", "wait", "send", "store", "done"}]
        /\ packing \subseteq [of: Requests, msg: Requests]
        /\ DOMAIN packed = Requests
        /\ read \in [Datagrams -> Nat] /\ \A d \in Datagrams : read[d] <= Parts[d]
    BY DEF TracksTypeOK, ReaderTypeOK
  <1>2. /\ \A r \in Requests : r \in Datagrams /\ Parts[r] = 1
        /\ Parts \in [Datagrams -> Nat]
    BY DatagramsAssumption
  <1>3. /\ \A a, b \in packing : a = b
        /\ \A a \in packing : a.of \in Requests
        /\ \A r \in Requests : packed[r] # <<>> => read[r] = 1
    BY DEF Inv, OneAnswer, AnsweredOK, Hits
  <1>4. ASSUME UNCHANGED <<packing, packed, track>>,
               \A d \in Datagrams : read[d] = 1 /\ Parts[d] = 1 => read'[d] = 1
        PROVE  OnceOK' /\ Spent \subseteq Spent'
    BY <1>4 DEF OnceOK, Spent
  <1>5. ASSUME NEW d \in Datagrams, ReadFragment(d)
        PROVE  OnceOK' /\ Spent \subseteq Spent'
    <2>1. /\ Parts[d] > 1 /\ read' = [read EXCEPT ![d] = @ + 1]
          /\ UNCHANGED <<packing, packed>>
      BY <1>5 DEF ReadFragment, Takes
    <2>2. CASE track' = track
      BY <1>1, <1>4, <2>1, <2>2
    <2>3. ASSUME NEW f \in Datagrams, Parts[f] > 1, track[f] = "none",
                 track' = [track EXCEPT ![f] = "wait"]
          PROVE  OnceOK' /\ Spent \subseteq Spent'
      <3>1. \A e \in Datagrams : e # f => track'[e] = track[e]
        BY <1>1, <2>3
      <3>2. f \notin Requests /\ f \notin Spent
        BY <1>2, <2>3 DEF Spent
      <3>3. \A e \in Datagrams : Parts[e] = 1 => read'[e] = read[e] /\ e # f
        BY <1>1, <2>1, <2>3
      <3>4. OnceOK'
        BY <1>2, <1>3, <2>1, <3>1, <3>2, <3>3 DEF OnceOK
      <3>5. Spent \subseteq Spent'
        BY <2>1, <3>1, <3>2 DEF Spent
      <3>. QED BY <3>4, <3>5
    <2>. QED BY <1>5, <2>2, <2>3, ForwardsFragmentary
  <1>6. ASSUME NEW d \in Datagrams, ReadMiss(d)
        PROVE  OnceOK' /\ Spent \subseteq Spent'
    <2>1. /\ Parts[d] = 1 /\ read[d] < Parts[d] /\ packing = {}
          /\ read' = [read EXCEPT ![d] = @ + 1]
          /\ track' = [track EXCEPT ![d] = "wait"]
          /\ UNCHANGED <<packing, packed>>
      BY <1>6 DEF ReadMiss, Takes, Forward, ReaderFree
    <2>2. /\ read[d] = 0 /\ read'[d] = 1
          /\ \A e \in Datagrams : e # d => track'[e] = track[e] /\ read'[e] = read[e]
      BY <1>1, <2>1
    <2>3. track[d] = "none" /\ (d \in Requests => packed[d] = <<>>)
      BY <1>3, <2>1, <2>2 DEF OnceOK
    <2>4. OnceOK'
      BY <1>2, <2>1, <2>2, <2>3 DEF OnceOK
    <2>5. Spent \subseteq Spent'
      BY <1>2, <2>1, <2>2, <2>3 DEF Spent
    <2>. QED BY <2>4, <2>5
  <1>7. ASSUME NEW d \in Datagrams, ReadHit(d)
        PROVE  OnceOK' /\ Spent \subseteq Spent'
    <2>1. /\ d \in Requests /\ read[d] < Parts[d] /\ packing = {}
          /\ read' = [read EXCEPT ![d] = @ + 1]
          /\ UNCHANGED <<packed, track>>
          /\ \A a \in packing' : a.of = d
      BY <1>7 DEF ReadHit, Takes, ReaderFree
    <2>2. /\ read[d] = 0 /\ read'[d] = 1
          /\ \A e \in Datagrams : e # d => read'[e] = read[e]
      BY <1>1, <1>2, <2>1
    <2>3. track[d] = "none" /\ packed[d] = <<>>
      BY <1>2, <1>3, <2>1, <2>2 DEF OnceOK
    <2>. QED BY <2>1, <2>2, <2>3 DEF OnceOK, Spent
  <1>8. ASSUME NEW answer \in packing, Pack(answer)
        PROVE  OnceOK' /\ Spent \subseteq Spent'
    <2> DEFINE r == answer.of
               v == [id |-> msgId[answer.msg], msg |-> answer.msg]
    <2>1. /\ packing' = {} /\ UNCHANGED <<track, read>>
          /\ packed' = [packed EXCEPT ![r] = v]
      BY <1>3, <1>8 DEF Pack
    <2>2. r \in Requests /\ track[r] = "none" /\ packed[r] = <<>>
      BY <1>3 DEF OnceOK
    <2> HIDE DEF v
    <2>3. \A q \in Requests : q # r => packed'[q] = packed[q]
      BY <1>1, <2>1
    <2>. QED BY <2>1, <2>2, <2>3 DEF OnceOK, Spent
  <1>9. ASSUME NEW d \in Datagrams, Lose(d)
        PROVE  OnceOK' /\ Spent \subseteq Spent'
    <2>1. /\ read[d] < Parts[d] /\ read' = [read EXCEPT ![d] = @ + 1]
          /\ UNCHANGED udpVars
      BY <1>9 DEF Lose
    <2>2. \A e \in Datagrams : read[e] = 1 /\ Parts[e] = 1 => read'[e] = 1
      BY <1>1, <2>1
    <2>. QED BY <1>4, <2>1, <2>2
  <1>10. ASSUME NEW d \in Datagrams, Answered(d) \/ GivesUp(d) \/ TrackStep(d)
         PROVE  OnceOK' /\ Spent \subseteq Spent'
    <2>1. PICK pc \in {"send", "store", "done"} : track' = [track EXCEPT ![d] = pc]
      BY <1>10 DEF Answered, GivesUp, TrackStep, Sent, Stores, StoresNothing,
                   TrackGoto
    <2>2. track[d] # "none" /\ UNCHANGED <<packing, packed, read>>
      BY <1>10 DEF Answered, GivesUp, TrackStep, Sent, Stores, StoresNothing
    <2>3. track'[d] = pc /\ \A e \in Datagrams : e # d => track'[e] = track[e]
      BY <1>1, <2>1
    <2>4. OnceOK'
      BY <1>2, <1>3, <2>2, <2>3 DEF OnceOK
    <2>5. Spent \subseteq Spent'
      BY <2>2, <2>3 DEF Spent
    <2>. QED BY <2>4, <2>5
  <1>11. ASSUME UNCHANGED <<read, udpVars>>
         PROVE  OnceOK' /\ Spent \subseteq Spent'
    BY <1>4, <1>11
  <1>12. ASSUME NEW answer \in packing, PackFails(answer)
         PROVE  OnceOK' /\ Spent \subseteq Spent'
    <2> DEFINE r == answer.of
    <2>1. /\ packing' = {} /\ UNCHANGED <<packed, read>>
          /\ track' = [track EXCEPT ![r] = "wait"]
      BY <1>3, <1>12 DEF PackFails, Forward
    <2>2. /\ r \in Requests /\ track[r] = "none" /\ packed[r] = <<>>
          /\ read[r] = 1
      BY <1>3 DEF OnceOK, Inv, OneAnswer, Hits
    <2>3. \A e \in Datagrams : e # r => track'[e] = track[e]
      BY <1>1, <2>1
    <2>. QED BY <1>2, <2>1, <2>2, <2>3 DEF OnceOK, Spent
  <1>. QED
    BY <1>5, <1>6, <1>7, <1>8, <1>9, <1>10, <1>11, <1>12
    DEF Next, ReaderStep, Push, Write, WriterQuits, Time, vars

\* There are no more datagrams than ids.
FewDatagrams == IsFiniteSet(Datagrams) /\ Cardinality(Datagrams) <= IdSpace

LEMMA SpentFinite ==
    ASSUME FewDatagrams
    PROVE  Spent \subseteq Datagrams /\ IsFiniteSet(Spent)
  <1>1. Spent \subseteq Datagrams
    BY DatagramsAssumption DEF Spent
  <1>. QED BY <1>1, FS_Subset DEF FewDatagrams

\* The id of a response is new, as its datagram has not been answered before.
LEMMA FreshId ==
    ASSUME FewDatagrams, IdsOK, NEW d \in Datagrams, d \notin Spent
    PROVE  NextIPID \notin DOMAIN begun
  <1>1. PICK n \in Nat : /\ DOMAIN begun = {NthId(i) : i \in 1 .. n}
                         /\ globalIPID = NthId(n) /\ n <= Cardinality(Spent)
    BY DEF IdsOK
  <1>2. Spent \cup {d} \in SUBSET Datagrams /\ IsFiniteSet(Spent)
    BY SpentFinite
  <1>3. Cardinality(Spent \cup {d}) = Cardinality(Spent) + 1
    BY <1>2, FS_AddElement
  <1>4. Cardinality(Spent \cup {d}) <= Cardinality(Datagrams)
    BY <1>2, FS_Subset DEF FewDatagrams
  <1>5. /\ Cardinality(Spent) \in Nat /\ Cardinality(Datagrams) \in Nat
        /\ IdSpace \in Nat
    BY <1>2, FS_CardinalityType DEF FewDatagrams, IdSpace
  <1>6. n < IdSpace
    BY <1>1, <1>3, <1>4, <1>5 DEF FewDatagrams
  <1>7. NextIPID = NthId(n + 1)
    BY <1>1, NthIds DEF NextIPID
  <1>. QED BY <1>1, <1>6, <1>7, NthIds

LEMMA IdsRespond ==
    ASSUME FewDatagrams, IdsOK, NEW d \in Datagrams, d \notin Spent,
           NEW length, Respond(d, length), Spent \subseteq Spent', d \in Spent'
    PROVE  IdsOK'
  <1>1. PICK n \in Nat : /\ DOMAIN begun = {NthId(i) : i \in 1 .. n}
                         /\ globalIPID = NthId(n) /\ n <= Cardinality(Spent)
    BY DEF IdsOK
  <1>2. NextIPID = NthId(n + 1)
    BY <1>1, NthIds DEF NextIPID
  <1>3. globalIPID' = NthId(n + 1)
    BY <1>2 DEF Respond
  <1>4. DOMAIN begun' = {NthId(i) : i \in 1 .. n + 1}
    <2>1. DOMAIN begun' = DOMAIN begun \cup {NthId(n + 1)}
      BY <1>2 DEF Respond, Assign
    <2>2. \A i : i \in 1 .. n + 1 <=> i \in 1 .. n \/ i = n + 1
      OBVIOUS
    <2>. QED BY <1>1, <2>1, <2>2
  <1>5. n + 1 <= Cardinality(Spent')
    <2>1. IsFiniteSet(Spent) /\ IsFiniteSet(Spent')
      <3>1. IsFiniteSet(Spent)
        BY SpentFinite
      <3>2. Spent' \subseteq Datagrams
        BY DatagramsAssumption DEF Spent
      <3>. QED BY <3>1, <3>2, FS_Subset DEF FewDatagrams
    <2>2. Spent \cup {d} \in SUBSET Spent'
      OBVIOUS
    <2>3. Cardinality(Spent \cup {d}) = Cardinality(Spent) + 1
      BY <2>1, FS_AddElement
    <2>4. Cardinality(Spent \cup {d}) <= Cardinality(Spent')
      BY <2>1, <2>2, FS_Subset
    <2>5. Cardinality(Spent) \in Nat /\ Cardinality(Spent') \in Nat
      BY <2>1, FS_CardinalityType
    <2>. QED BY <1>1, <2>3, <2>4, <2>5
  <1>6. \A i : NthId(i)' = NthId(i)
    BY DEF NthId
  <1>. QED BY <1>3, <1>4, <1>5, <1>6 DEF IdsOK

LEMMA IdsStay ==
    ASSUME FewDatagrams, IdsOK, UNCHANGED <<begun, globalIPID>>,
           Spent \subseteq Spent'
    PROVE  IdsOK'
  <1>1. PICK n \in Nat : /\ DOMAIN begun = {NthId(i) : i \in 1 .. n}
                         /\ globalIPID = NthId(n) /\ n <= Cardinality(Spent)
    BY DEF IdsOK
  <1>2. IsFiniteSet(Spent')
    <2>1. Spent' \subseteq Datagrams
      BY DatagramsAssumption DEF Spent
    <2>. QED BY <2>1, FS_Subset DEF FewDatagrams
  <1>3. /\ Cardinality(Spent) <= Cardinality(Spent')
        /\ Cardinality(Spent) \in Nat /\ Cardinality(Spent') \in Nat
    BY <1>2, SpentFinite, FS_Subset, FS_CardinalityType
  <1>4. n <= Cardinality(Spent')
    BY <1>1, <1>3
  <1>5. \A i : NthId(i)' = NthId(i)
    BY DEF NthId
  <1>. QED BY <1>1, <1>4, <1>5 DEF IdsOK

LEMMA RespondKeeps ==
    ASSUME OutTypeOK, OrderOK, NextIPID \notin DOMAIN begun,
           NEW d \in Datagrams, NEW b \in Nat, b >= UDPHeader,
           Respond(d, b), UNCHANGED <<writeCh, written>>
    PROVE  OrderOK'
  <1>1. PICK id \in HeaderIds : id = NextIPID
    BY NextIPIDType DEF OutTypeOK
  <1>2. /\ pushing' = [pushing EXCEPT ![d] = Train(id, b)]
        /\ DOMAIN begun' = DOMAIN begun \cup {id} /\ begun'[id] = b
        /\ \A i \in DOMAIN begun : begun'[i] = begun[i]
    BY <1>1 DEF Respond, Assign
  <1>3. pushing \in [Datagrams -> Seq(Packet)] /\ id \notin DOMAIN begun
    BY <1>1 DEF OutTypeOK
  <1>4. /\ pushing'[d] = Rest(id, b, 0) /\ Packets(b) \in Nat \ {0}
        /\ pushing'[d] # <<>> /\ pushing'[d][1].id = id
    <2>1. pushing'[d] = Rest(id, b, 0) /\ Packets(b) \in Nat \ {0}
      BY <1>2, <1>3, RestBegins, Counted
    <2>2. Fragment(id, b, 0).id = id
      BY DEF Fragment
    <2>. QED BY <2>1, <2>2, RestBegins
  <1>5. \A e \in Datagrams : e # d => pushing'[e] = pushing[e]
    BY <1>2, <1>3
  <1>6. \A i : \A e \in Datagrams :
           Pushes(e, i)' => IF e = d THEN i = id
                            ELSE Pushes(e, i) /\ i \in DOMAIN begun
    BY <1>4, <1>5 DEF Pushes, OrderOK, Begun
  <1>7. Begun'
    <2>1. \A e \in Datagrams :
             pushing'[e] # <<>> => pushing'[e][1].id \in DOMAIN begun'
      BY <1>2, <1>4, <1>5 DEF OrderOK, Begun
    <2>2. \A i \in DOMAIN begun' : begun'[i] \in Nat /\ begun'[i] >= UDPHeader
      BY <1>2 DEF OrderOK, Begun
    <2>. QED BY <1>2, <2>1, <2>2 DEF OrderOK, Begun
  <1>8. OnePusher'
    BY <1>3, <1>6 DEF OrderOK, OnePusher
  <1>9. InTurn'
    BY DEF OrderOK, InTurn
  <1>10. UpTo(id, 0)'
    <2>1. OnDevice(id)' = 0
      BY <1>3 DEF OnDevice, OrderOK, Begun
    <2>2. \A k \in 1 .. Len(writeCh') : writeCh'[k].id # id
      BY <1>3 DEF OrderOK, Begun
    <2>3. \A e \in Datagrams : Pushes(e, id)' => pushing'[e] = Rest(id, b, 0)
      BY <1>3, <1>4, <1>6
    <2>4. 0 <= Packets(b) /\ (\A n : n \notin 0 .. 0 - 1) /\ \A i : i \notin 1 .. 0
      BY <1>4
    <2>. QED BY <1>2, <2>1, <2>2, <2>3, <2>4 DEF UpTo
  <1>11. ASSUME NEW i \in DOMAIN begun, NEW l \in Nat, UpTo(i, l)
         PROVE  UpTo(i, l)'
    <2>1. /\ begun'[i] = begun[i] /\ OnDevice(i)' = OnDevice(i)
          /\ \A n : PacketOf(i, n)' = PacketOf(i, n)
      BY <1>2 DEF OnDevice, PacketOf
    <2>2. \A e \in Datagrams :
             Pushes(e, i)' => Pushes(e, i) /\ pushing'[e] = pushing[e]
      BY <1>3, <1>5, <1>6
    <2>. QED BY <1>11, <2>1, <2>2 DEF UpTo
  <1>12. \A i \in DOMAIN begun' : \E l \in Nat : UpTo(i, l)'
    BY <1>2, <1>10, <1>11 DEF OrderOK
  <1>. QED BY <1>7, <1>8, <1>9, <1>12 DEF OrderOK

\* Who responds has not done so before.
LEMMA Responding ==
    ASSUME TracksTypeOK, Inv, OnceOK, NEW d \in Datagrams, NEW l \in Datagrams,
           \/ Answered(d) /\ l = d
           \/ \E answer \in packing : /\ Pack(answer) /\ d = answer.of
                                      /\ l = answer.msg
    PROVE  /\ d \notin Spent /\ d \in Spent'
           /\ Respond(d, Length[l]) /\ UNCHANGED <<writeCh, written>>
           /\ Length[l] \in Nat /\ Length[l] >= UDPHeader
  <1>1. Length[l] \in Nat /\ Length[l] >= UDPHeader
    BY DatagramsAssumption
  <1>2. CASE Answered(d) /\ l = d
    <2>1. track[d] = "wait" /\ track' = [track EXCEPT ![d] = "send"]
      BY <1>2 DEF Answered, TrackGoto
    <2>2. track'[d] = "send"
      BY <2>1 DEF TracksTypeOK
    <2>3. d \notin Spent
      BY <2>1 DEF OnceOK, Spent
    <2>. QED BY <1>1, <1>2, <2>2, <2>3 DEF Answered, Spent
  <1>3. ASSUME NEW answer \in packing, Pack(answer), d = answer.of,
               l = answer.msg
        PROVE  /\ d \notin Spent /\ d \in Spent'
               /\ Respond(d, Length[l]) /\ UNCHANGED <<writeCh, written>>
    <2> DEFINE v == [id |-> msgId[l], msg |-> l]
    <2>1. d \in Requests /\ track[d] = "none" /\ packed[d] = <<>>
      BY <1>3 DEF OnceOK, Inv, OneAnswer
    <2>2. packed'[d] = v
      BY <1>3, <2>1 DEF Pack, TracksTypeOK
    <2>3. v # <<>>
      OBVIOUS
    <2>4. d \in Spent'
      BY <2>1, <2>2, <2>3 DEF Spent
    <2>5. d \notin Spent
      BY <2>1 DEF Spent
    <2>. QED BY <1>3, <2>4, <2>5 DEF Pack
  <1>. QED BY <1>1, <1>2, <1>3

SendInv == OnceOK /\ IdsOK /\ OrderOK

LEMMA SendInit == FewDatagrams /\ Init => SendInv
  <1> SUFFICES ASSUME FewDatagrams, Init PROVE SendInv
    OBVIOUS
  <1>1. OnceOK
    BY DatagramsAssumption DEF Init, OnceOK
  <1>2. IdsOK
    <2>1. DOMAIN begun = {NthId(i) : i \in 1 .. 0} /\ globalIPID = NthId(0)
      BY NthIds DEF Init
    <2>2. 0 <= Cardinality(Spent)
      BY SpentFinite, FS_CardinalityType
    <2>. QED BY <2>1, <2>2 DEF IdsOK
  <1>3. OrderOK
    BY DEF Init, OrderOK, Begun, OnePusher, Pushes, InTurn
  <1>. QED BY <1>1, <1>2, <1>3 DEF SendInv

LEMMA SendNext ==
    ASSUME FewDatagrams, TypeOK, Inv, HeadsOK, SendInv, [Next]_vars
    PROVE  SendInv'
  <1>1. ReaderTypeOK /\ TracksTypeOK /\ OutTypeOK
    BY DEF TypeOK
  <1>2. OnceOK' /\ Spent \subseteq Spent'
    BY <1>1, OnceKeep DEF SendInv
  <1>3. ASSUME NEW d \in Datagrams, NEW l \in Datagrams,
               \/ Answered(d) /\ l = d
               \/ \E answer \in packing : /\ Pack(answer) /\ d = answer.of
                                          /\ l = answer.msg
        PROVE  IdsOK' /\ OrderOK'
    <2>1. /\ d \notin Spent /\ d \in Spent'
          /\ Respond(d, Length[l]) /\ UNCHANGED <<writeCh, written>>
          /\ Length[l] \in Nat /\ Length[l] >= UDPHeader
      BY <1>1, <1>3, Responding DEF SendInv
    <2>2. IdsOK'
      BY <1>2, <2>1, IdsRespond DEF SendInv
    <2>3. NextIPID \notin DOMAIN begun
      BY <2>1, FreshId DEF SendInv
    <2>. QED BY <1>1, <2>1, <2>2, <2>3, RespondKeeps DEF SendInv
  <1>4. ASSUME NEW answer \in packing, Pack(answer) PROVE IdsOK' /\ OrderOK'
    <2>1. answer.of \in Datagrams /\ answer.msg \in Datagrams
      BY <1>1, DatagramsAssumption DEF TracksTypeOK
    <2>. QED BY <1>3, <1>4, <2>1
  <1>5. ASSUME NEW d \in Datagrams, Answered(d) PROVE IdsOK' /\ OrderOK'
    BY <1>3, <1>5
  <1>6. ASSUME NEW d \in Datagrams, Push(d) PROVE IdsOK' /\ OrderOK'
    <2>1. UNCHANGED <<begun, globalIPID>>
      BY <1>6 DEF Push
    <2>. QED BY <1>1, <1>2, <1>6, <2>1, IdsStay, PushKeeps DEF SendInv
  <1>7. ASSUME Write PROVE IdsOK' /\ OrderOK'
    <2>1. UNCHANGED <<begun, globalIPID>>
      BY <1>7 DEF Write
    <2>. QED BY <1>1, <1>2, <1>7, <2>1, IdsStay, WriteKeeps DEF SendInv
  <1>8. ASSUME UNCHANGED <<globalIPID, begun, pushing, writeCh, written>>
        PROVE  IdsOK' /\ OrderOK'
    <2>1. IdsOK'
      BY <1>2, <1>8, IdsStay DEF SendInv
    <2>2. OrderOK'
      <3>1. \A i, l : UpTo(i, l) => UpTo(i, l)'
        BY <1>8 DEF UpTo, OnDevice, PacketOf, Pushes
      <3>2. Begun' /\ OnePusher' /\ InTurn'
        BY <1>8 DEF SendInv, OrderOK, Begun, OnePusher, Pushes, InTurn
      <3>. QED BY <1>8, <3>1, <3>2 DEF SendInv, OrderOK
    <2>. QED BY <2>1, <2>2
  <1>9. ASSUME NEW d \in Datagrams,
               ReaderStep(d) \/ Lose(d) \/ GivesUp(d) \/ TrackStep(d)
        PROVE  UNCHANGED <<globalIPID, begun, pushing, writeCh, written>>
    <2>1. UNCHANGED outVars
      BY <1>9 DEF ReaderStep, TrackStep, ReadFragment, ReadMiss, ReadHit, Lose,
                  GivesUp, Sent, Stores, StoresNothing
    <2>. QED BY <2>1 DEF outVars
  <1>10. ASSUME WriterQuits \/ Time \/ UNCHANGED vars
         PROVE  UNCHANGED <<globalIPID, begun, pushing, writeCh, written>>
    BY <1>10 DEF WriterQuits, Time, vars, outVars
  <1>11. ASSUME NEW answer \in packing, PackFails(answer)
         PROVE  UNCHANGED <<globalIPID, begun, pushing, writeCh, written>>
    BY <1>11 DEF PackFails, outVars
  <1>12. IdsOK' /\ OrderOK'
    BY <1>4, <1>5, <1>6, <1>7, <1>8, <1>9, <1>10, <1>11,
       Zenon DEF Next
  <1>. QED BY <1>2, <1>12 DEF SendInv

LEMMA OrderHolds == OutTypeOK /\ OrderOK => AnswersInOrder
  <1> SUFFICES ASSUME OutTypeOK, OrderOK, NEW id \in DOMAIN written
               PROVE  LET pieces == written[id] IN
                      /\ pieces[1].from = 0
                      /\ \A i \in 1 .. Len(pieces) - 1 :
                            pieces[i].more /\ pieces[i + 1].from = pieces[i].to
                      /\ Complete(pieces) => pieces[Len(pieces)].to = begun[id]
    BY DEF AnswersInOrder
  <1>1. PICK b \in Nat : b = begun[id] /\ b >= UDPHeader
    BY DEF OrderOK, Begun
  <1>2. PICK m \in Nat : UpTo(id, m)
    BY DEF OrderOK, Begun
  <1>3. PICK W \in Nat \ {0} : W = Len(written[id]) /\ W = OnDevice(id)
    <2>1. written[id] \in Seq(Packet) /\ written[id] # <<>>
      BY DEF OutTypeOK
    <2>. QED BY <2>1 DEF OnDevice
  <1>4. PICK count \in Nat \ {0} : count = Packets(b) /\ W <= count
    <2>1. Packets(b) \in Nat \ {0}
      BY <1>1, Counted
    <2>2. W <= m /\ m <= Packets(b)
      BY <1>1, <1>2, <1>3 DEF UpTo
    <2>. QED BY <2>1, <2>2
  <1>5. \A i \in 1 .. W : written[id][i] = Fragment(id, b, i - 1)
    BY <1>1, <1>2, <1>3 DEF UpTo, PacketOf
  <1>6. /\ Fragment(id, b, 0).from = 0
        /\ \A n \in 0 .. count - 2 :
              Fragment(id, b, n).to = Fragment(id, b, n + 1).from
        /\ Fragment(id, b, count - 1).to = b
    <2>1. Fragment(id, b, 0).from = 0
      BY <1>1, Pieces
    <2>2. ASSUME NEW n \in 0 .. Packets(b) - 2
          PROVE  Fragment(id, b, n).to = Fragment(id, b, n + 1).from
      BY <1>1, Adjoining
    <2>3. Fragment(id, b, Packets(b) - 1).to = b
      BY <1>1, Pieces
    <2>. QED BY <1>4, <2>1, <2>2, <2>3
  <1>7. \A n \in 0 .. count - 1 : Fragment(id, b, n).more <=> n < count - 1
    BY <1>1, <1>4, Cut
  <1>8. written[id][1].from = 0
    BY <1>5, <1>6
  <1>9. ASSUME NEW i \in 1 .. W - 1
        PROVE  written[id][i].more /\ written[id][i + 1].from = written[id][i].to
    <2>1. /\ i \in 1 .. W /\ i + 1 \in 1 .. W /\ i - 1 \in 0 .. count - 2
          /\ i - 1 \in 0 .. count - 1 /\ i - 1 < count - 1
          /\ (i - 1) + 1 = (i + 1) - 1
      BY <1>4
    <2>2. /\ written[id][i] = Fragment(id, b, i - 1)
          /\ written[id][i + 1] = Fragment(id, b, (i - 1) + 1)
      BY <1>5, <2>1
    <2>. QED BY <1>6, <1>7, <2>1, <2>2
  <1>10. ~written[id][W].more => written[id][W].to = b
    <2>1. W \in 1 .. W /\ W - 1 \in 0 .. count - 1
      BY <1>4
    <2>2. written[id][W] = Fragment(id, b, W - 1)
      BY <1>5, <2>1
    <2>3. ~(W - 1 < count - 1) => W - 1 = count - 1
      BY <1>4
    <2>. QED BY <1>6, <1>7, <2>1, <2>2, <2>3
  <1>. QED BY <1>1, <1>3, <1>8, <1>9, <1>10 DEF Complete

\* What is written of a response is its beginning, its pieces in order and none
\* missing or twice, for any number of responses that share writeCh, any capacity
\* of it and any lengths (udp.go:97-159, 393-402); as long as there are no more
\* datagrams than ids, after which ids come again.
THEOREM OrderCorrect ==
    ASSUME FewDatagrams
    PROVE  Spec => []AnswersInOrder
  <1>1. TypeOK => ReaderTypeOK /\ OutTypeOK
    BY DEF TypeOK
  <1>2. ReassemblyOK => HeadsOK
    BY DEF ReassemblyOK
  <1>3. SendInv => OrderOK
    BY DEF SendInv
  <1>5. Init => TypeOK /\ Inv /\ ReassemblyOK /\ SendInv
    BY InitInv, TypeInit, ReassemblyInit, SendInit
  <1>6. TypeOK /\ Inv /\ ReassemblyOK /\ SendInv /\ [Next]_vars
           => (TypeOK /\ Inv /\ ReassemblyOK /\ SendInv)'
    <2>1. Inv => TracksOK
      BY DEF Inv
    <2>2. Inv /\ [Next]_vars => Inv'
      BY NextInv
    <2>3. TypeOK /\ Inv /\ [Next]_vars => TypeOK'
      BY <2>1, TypeNext
    <2>4. TypeOK /\ ReassemblyOK /\ [Next]_vars => ReassemblyOK'
      BY <1>1, ReassemblyNext
    <2>5. TypeOK /\ Inv /\ ReassemblyOK /\ SendInv /\ [Next]_vars => SendInv'
      BY <1>2, SendNext
    <2>. QED BY <2>2, <2>3, <2>4, <2>5
  <1>7. TypeOK /\ SendInv => AnswersInOrder
    BY <1>1, <1>3, OrderHolds
  <1>. QED BY <1>5, <1>6, <1>7, PTL DEF Spec
=============================================================================
