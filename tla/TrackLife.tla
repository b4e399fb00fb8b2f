------------------------------ MODULE TrackLife ------------------------------
(***************************************************************************)
(* What the rest of tun2socks may rely on about one connection track,      *)
(* whatever protocol it speaks: how the goroutine that owns the track      *)
(* ends, which channels it leaves closed behind it and which flag it       *)
(* leaves set.  The packet dispatcher blocks on the quit channels          *)
(* (newPacket), the reader and writer goroutines poll the flag destroyed,  *)
(* and Stop closes quitByOther: none of them looks at anything else.       *)
(*                                                                         *)
(* TcpTrack is shown to implement this module; TrackTable runs one copy    *)
(* of it per track.                                                        *)
(***************************************************************************)

VARIABLES
    phase,         \* run(): "run", "clear" (between the two calls), "done"
    destroyed,     \* the flag polled by the reader, the writer and tcp()
    quitBySelf,    \* is the channel quitBySelf closed?
    quitByOther    \* is the channel quitByOther closed?

lifeVars == <<phase, destroyed, quitBySelf, quitByOther>>

LifeTypeOK ==
    /\ phase \in {"run", "clear", "done"}
    /\ destroyed \in BOOLEAN
    /\ quitBySelf \in BOOLEAN
    /\ quitByOther \in BOOLEAN

LifeInit ==
    /\ phase = "run"
    /\ destroyed = FALSE
    /\ quitBySelf = FALSE
    /\ quitByOther = FALSE

\* Anyone may condemn the track: its own goroutines, Stop, or the clear of
\* an older track that had the same identifier.
Doom ==
    /\ destroyed' = TRUE
    /\ UNCHANGED <<phase, quitBySelf, quitByOther>>

\* run() gives up: it closes quitBySelf before it takes the table's lock.
End ==
    /\ phase = "run"
    /\ phase' = "clear"
    /\ quitBySelf' = TRUE
    /\ destroyed' \in {destroyed, TRUE}
    /\ UNCHANGED quitByOther

\* clearTCPConnTrack returned.
Clear ==
    /\ phase = "clear"
    /\ phase' = "done"
    /\ destroyed' = TRUE
    /\ UNCHANGED <<quitBySelf, quitByOther>>

\* run() leaves without clearing: somebody else closed quitByOther.
QuitOther ==
    /\ phase = "run"
    /\ quitByOther
    /\ phase' = "done"
    /\ UNCHANGED <<destroyed, quitBySelf, quitByOther>>

\* Stop reaches the track.
StopIt ==
    /\ ~quitByOther
    /\ destroyed' = TRUE
    /\ quitByOther' = TRUE
    /\ UNCHANGED <<phase, quitBySelf>>

LifeNext == Doom \/ End \/ Clear \/ QuitOther \/ StopIt

LifeSpec == LifeInit /\ [][LifeNext]_lifeVars

\* A track whose run() has left its loop holds nobody up: one of the two
\* channels newPacket selects on (tcp.go:820-827) is closed.
LifeUnblocked ==
    phase # "run" => quitBySelf \/ quitByOther

\* A track whose run() has returned is marked destroyed, which is what ends
\* its writer and reader (tcp.go:588, 602) and makes tcp() ignore it (1015).
LifeGoneIsDoomed ==
    (phase = "done" \/ quitByOther) => destroyed
=============================================================================
