-------------------------------- MODULE BytePipe --------------------------------
(***************************************************************************)
(* What either direction of a connection promises: bytes that are taken    *)
(* from one end come out at the other, none that was not taken, and until  *)
(* the way is cut no more than Limit are between the two.  What is between *)
(* them when it is cut never comes out, so that Limit is also how much can *)
(* be lost of what has been taken.                                         *)
(*                                                                         *)
(* TcpTrack is shown to implement this module twice: for what it           *)
(* acknowledges to the client and what the socket accepts, and for what it *)
(* reads from the socket and what it sends to the client.                  *)
(***************************************************************************)
EXTENDS Integers

CONSTANT Limit      \* a natural number

VARIABLES
    taken,      \* how many bytes have been taken
    out,        \* how many have come out
    cut

pipeVars == <<taken, out, cut>>

PipeInit == taken = 0 /\ out = 0 /\ cut = FALSE

Take ==
    /\ taken' \in Nat /\ taken' >= taken
    /\ cut \/ taken' - out <= Limit
    /\ UNCHANGED <<out, cut>>

Deliver ==
    /\ ~cut
    /\ out' \in Nat /\ out' >= out /\ out' <= taken
    /\ UNCHANGED <<taken, cut>>

Cut ==
    /\ cut' = TRUE
    /\ UNCHANGED <<taken, out>>

PipeNext == Take \/ Deliver \/ Cut

PipeSpec == PipeInit /\ [][PipeNext]_pipeVars
=============================================================================
