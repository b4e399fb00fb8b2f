------------------------------- MODULE Reassembly -------------------------------
(***************************************************************************)
(* procFragment (ip.go): the tun reader puts the fragments it reads        *)
(* together, by IP id alone, in the order they come.  A packet of the      *)
(* device is a record with the IP id, the flag that more follow and the    *)
(* datagram and the part of it that it carries.  A packet whose id is new  *)
(* and that says none follows is dropped.  No entry is ever deleted, so    *)
(* that a datagram that reuses an id is appended to the older one.         *)
(***************************************************************************)
EXTENDS Sequences, GoMaps

VARIABLE frags      \* from IP id to the parts put together

Part(packet) == [of |-> packet.of, part |-> packet.part]

\* The variable last: a fragment that completes what there is under its id.
last(packet) == packet.id \in DOMAIN frags /\ ~packet.more

\* What is handed on then: the wire of the entry.
Wire(packet) == Append(frags[packet.id], Part(packet))

\* Mutant: every fragment starts the entry anew.
procFragmentReplaces(packet) ==
    frags' = IF packet.id \in DOMAIN frags \/ packet.more
             THEN Assign(frags, packet.id, <<Part(packet)>>) ELSE frags

procFragment(packet) ==
    \/ packet.id \in DOMAIN frags
       /\ frags' = [frags EXCEPT ![packet.id] = Append(@, Part(packet))]
    \/ packet.id \notin DOMAIN frags /\ packet.more
       /\ frags' = Assign(frags, packet.id, <<Part(packet)>>)
    \/ packet.id \notin DOMAIN frags /\ ~packet.more
       /\ UNCHANGED frags
=============================================================================
