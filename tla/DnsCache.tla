-------------------------------- MODULE DnsCache --------------------------------
(***************************************************************************)
(* dnsCache (udp.go): answers of the DNS servers by question, each until   *)
(* its time to live has passed.  An entry points to the message it was     *)
(* made from, and query hands out that message, with the id of the request *)
(* written into it; it is serialised later, without the lock.              *)
(*                                                                         *)
(* A message is named for the request it answered.  What is asked is the   *)
(* key the cache uses, name and type; the class is not part of it.  A      *)
(* message is stored under the question it repeats, whoever asked what.    *)
(***************************************************************************)
EXTENDS Naturals, Functions, GoMaps

CONSTANTS
    Requests,       \* the DNS requests of the clients
    cacheKey,       \* what each asks
    Ttl,            \* the time to live of an answer
    MaxTime         \* bound: the clock stops

ASSUME CacheAssumption ==
    DOMAIN cacheKey = Requests /\ Ttl \in Nat /\ MaxTime \in Nat

VARIABLES
    storage,        \* from key to the entry: message and time of expiry
    msgId,          \* the id in each message
    clock

cacheVars == <<storage, msgId, clock>>

CacheTypeOK ==
    /\ DOMAIN storage \subseteq Range(cacheKey)
    /\ \A key \in DOMAIN storage :
          storage[key] \in [msg: Requests, exp: Nat]
    /\ msgId \in [Requests -> Requests]
    /\ clock \in 0 .. MaxTime

\* A message carries the id of the request it answered.
CacheInit ==
    /\ storage = <<>>
    /\ msgId = [r \in Requests |-> r]
    /\ clock = 0

\* Mutant: the expiry is not looked at.
ExpiredNever(entry) == FALSE

Expired(entry) == clock > entry.exp

Cached(key) == key \in DOMAIN storage /\ ~Expired(storage[key])

\* query finds nothing; an expired entry is deleted.
Miss(request) ==
    /\ ~Cached(cacheKey[request])
    /\ storage' = Restrict(storage, DOMAIN storage \ {cacheKey[request]})
    /\ UNCHANGED <<msgId, clock>>

\* query returns the message of the entry.
Hit(request) ==
    /\ Cached(cacheKey[request])
    /\ msgId' = [msgId EXCEPT ![storage[cacheKey[request]].msg] = request]
    /\ UNCHANGED <<storage, clock>>

Put(key, entry) ==
    storage' = Assign(storage, key, entry)

\* Mutant: an entry that is there gets the new expiry and keeps its message.
storeInPlace(msg, key) ==
    /\ Put(key, [msg |-> IF key \in DOMAIN storage
                         THEN storage[key].msg ELSE msg,
                 exp |-> clock + Ttl])
    /\ UNCHANGED <<msgId, clock>>

\* An answer without an error and with something in it is stored under the
\* key of the first question it repeats.
store(msg, key) ==
    /\ Put(key, [msg |-> msg, exp |-> clock + Ttl])
    /\ UNCHANGED <<msgId, clock>>

Tick ==
    /\ clock < MaxTime /\ clock' = clock + 1
    /\ UNCHANGED <<storage, msgId>>
=============================================================================
