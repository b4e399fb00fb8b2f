------------------------------ MODULE UdpReader ------------------------------
(***************************************************************************)
(* gosocks.UDPReader: a goroutine that reads the datagrams of one socket   *)
(* and offers each on an unbuffered channel, until a read fails or the     *)
(* channel quit is closed; then it closes its channel.  The module that    *)
(* instantiates it says when the socket delivers and who takes the offer.  *)
(***************************************************************************)

VARIABLE pc     \* "none" before it is started; "closed": the channel, too

UdpReaderTypeOK == pc \in {"none", "read", "offer", "closed"}

Started == pc = "none" /\ pc' = "read"
Reads == pc = "read" /\ pc' = "offer"
ReadFails == pc = "read" /\ pc' = "closed"
Taken == pc = "offer" /\ pc' = "read"
Quits == pc = "offer" /\ pc' = "closed"
=============================================================================
