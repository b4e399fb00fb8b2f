------------------------------- MODULE Fragments -------------------------------
(***************************************************************************)
(* The packets of one response: responsePacket (udp.go) and genFragments   *)
(* (ip.go).  What is sent is an IP payload, the UDP header and the data;   *)
(* a packet is a piece of it: the bytes from .. to - 1, under the IP id of *)
(* the response, the offset written in its header, in units of 8 bytes,    *)
(* and the flag that more follow.                                          *)
(***************************************************************************)
EXTENDS Integers

CONSTANT MTU

ASSUME MTUAssumption == MTU \in Nat /\ MTU > 28

IPHeader == 20
UDPHeader == 8

\* What a packet carries, and the step of genFragments' variable offset.
Capacity == MTU - IPHeader
OffsetStep == (MTU - IPHeader) \div 8

\* A response of so many bytes is fragmented,
Fragmented(length) == length - UDPHeader > MTU - IPHeader - UDPHeader

\* and has so many packets: the turns of the loop of genFragments, and one.
Packets(length) ==
    IF Fragmented(length) THEN (length + Capacity - 1) \div Capacity ELSE 1

\* Mutant: the next piece starts one byte late.
FragmentSkips(ipid, length, n) ==
    [id |-> ipid, offset |-> n * OffsetStep, from |-> n * (Capacity + 1),
     to |-> IF length <= (n + 1) * Capacity THEN length ELSE (n + 1) * Capacity,
     more |-> length > (n + 1) * Capacity]

\* The packet that n others precede.  The first carries the UDP header, whose
\* length and checksum are of the whole.
Fragment(ipid, length, n) ==
    [id |-> ipid, offset |-> n * OffsetStep, from |-> n * Capacity,
     to |-> IF length <= (n + 1) * Capacity THEN length ELSE (n + 1) * Capacity,
     more |-> length > (n + 1) * Capacity]

Train(ipid, length) ==
    [i \in 1 .. Packets(length) |-> Fragment(ipid, length, i - 1)]
=============================================================================
