--------------------------------- MODULE Bytes ---------------------------------
(* Bytes, and the two that a 16-bit number is on the wire (basic.go).       *)
EXTENDS Integers, Sequences

Byte == 0 .. 255
Uint16 == {n \in Nat : n < 65536}

Htons(port) == <<port \div 256, port % 256>>

Ntohs(high, low) == 256 * high + low
=============================================================================
