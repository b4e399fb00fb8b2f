------------------------------ MODULE TwoWayCopy ------------------------------
(***************************************************************************)
(* The connections of the two tunnel ends of kcp/service/conn.go and of    *)
(* the plain SOCKS5 server of socks/server/Server.go.  All three prepare a *)
(* local and a remote socket, start two goroutines that copy between them  *)
(* through buffers of a shared pool, wait for the first error on a channel *)
(* and return.  They differ in the order of the preparation; in who closes *)
(* the sockets, which the tunnel always defers and the SOCKS5 server does  *)
(* by hand where it gives up early; in the channel, which holds no error   *)
(* in the tunnel and one in the SOCKS5 server; and in one copier of the    *)
(* tunnel, which goes on after a failed write.                             *)
(*                                                                         *)
(* What is copied is left out.  The small buffers of the tunnel's          *)
(* preparation are, too.                                                   *)
(***************************************************************************)
EXTENDS Naturals

CONSTANT Conn       \* client connections

VARIABLES
    program,        \* which of the three programs it is
    pc,             \* the goroutine of each connection
    local, remote,  \* its sockets
    closing,        \* those that what is deferred has yet to close
    copier,         \* its copiers: "down" to the local, "up" to the remote
    held,           \* the buffer a copier holds, 0 for none
    errs,           \* errors in its error channel
    pool,           \* buffers in MPool (lPool)
    made            \* buffers the pool has made

sockets == <<local, remote, closing>>
buffers == <<held, pool, made>>
vars == <<program, pc, sockets, copier, errs, buffers>>

Sockets == {"local", "remote"}
Programs == {"tunnel client", "tunnel server", "socks5"}
Dirs == {"down", "up"}
Copier == Conn \X Dirs

TypeOK ==
    /\ program \in Programs
    /\ pc \in [Conn -> {"request", "dial", "answer", "wait", "return", "done"}]
    /\ local \in [Conn -> {"open", "ended", "closed"}]
    /\ remote \in [Conn -> {"nil", "open", "ended", "closed"}]
    /\ closing \in [Conn -> SUBSET Sockets]
    /\ copier \in [Copier -> {"none", "get", "read", "write", "retry",
                              "report", "reportOn", "put", "done"}]
    /\ held \in [Copier -> Nat]
    /\ errs \in [Conn -> 0 .. 1]
    /\ pool \subseteq Nat
    /\ made \in Nat

\* The goroutine has been started for each connection: in the tunnel that is
\* handle, which defers the closing of the client's socket.
Init ==
    /\ program \in Programs
    /\ pc = [c \in Conn |->
                IF program = "tunnel client" THEN "dial" ELSE "request"]
    /\ local = [c \in Conn |-> "open"]
    /\ remote = [c \in Conn |-> "nil"]
    /\ closing = [c \in Conn |->
                     IF program = "socks5" THEN {} ELSE {"local"}]
    /\ copier = [k \in Copier |-> "none"]
    /\ held = [k \in Copier |-> 0]
    /\ errs = [c \in Conn |-> 0]
    /\ pool = {} /\ made = 0

Defer(c, socks) == closing' = [closing EXCEPT ![c] = @ \cup socks]
PcGoto(c, l) == pc' = [pc EXCEPT ![c] = l]
CopierGoto(c, d, l) == copier' = [copier EXCEPT ![<<c, d>>] = l]
CopierAt(c, d, l) == copier[<<c, d>>] = l
-----------------------------------------------------------------------------
(* Preparation                                                             *)

\* serverSide, Socks5Auth and Socks5Connect read what the client wants, then
\* dial; clientSide dials first and passes the client's request on.
Requested(c) ==
    /\ pc[c] = "request"
    /\ IF program = "tunnel client"
         THEN /\ PcGoto(c, "wait") /\ Defer(c, Sockets)
              /\ copier' = [k \in Copier |->
                                IF k[1] = c THEN "get" ELSE copier[k]]
         ELSE PcGoto(c, "dial") /\ UNCHANGED <<copier, closing>>
    /\ UNCHANGED <<program, local, remote, errs, buffers>>

\* Where the tunnel has dialled it defers the closing of both sockets.
Dialled(c) ==
    /\ pc[c] = "dial"
    /\ remote' = [remote EXCEPT ![c] = "open"]
    /\ Defer(c, IF program = "socks5" THEN {} ELSE Sockets)
    /\ PcGoto(c, IF program = "tunnel client" THEN "request" ELSE "answer")
    /\ UNCHANGED <<program, local, copier, errs, buffers>>

\* The client is told, or the tunnel server writes a plain request on.  The
\* SOCKS5 server defers the closing of its sockets only now.
Answered(c) ==
    /\ pc[c] = "answer" /\ PcGoto(c, "wait")
    /\ Defer(c, Sockets)
    /\ copier' = [k \in Copier |-> IF k[1] = c THEN "get" ELSE copier[k]]
    /\ UNCHANGED <<program, local, remote, errs, buffers>>

\* An early return of the tunnel leaves the closing to what is deferred.
PrepareFails(c) ==
    /\ program # "socks5"
    /\ pc[c] \in {"request", "dial", "answer"} /\ PcGoto(c, "return")
    /\ UNCHANGED <<program, sockets, copier, errs, buffers>>

\* The request of a SOCKS5 client is bad or its target cannot be reached:
\* process closes the client's socket.
RequestFails(c) ==
    /\ program = "socks5"
    /\ pc[c] \in {"request", "dial"} /\ PcGoto(c, "return")
    /\ local' = [local EXCEPT ![c] = "closed"]
    /\ UNCHANGED <<program, remote, closing, copier, errs, buffers>>

\* The client cannot be told: Socks5Connect closes the target before process
\* closes the client's socket.
AnswerFails(c) ==
    /\ program = "socks5"
    /\ pc[c] = "answer" /\ PcGoto(c, "return")
    /\ remote' = [remote EXCEPT ![c] = "closed"]
    /\ local' = [local EXCEPT ![c] = "closed"]
    /\ UNCHANGED <<program, closing, copier, errs, buffers>>
-----------------------------------------------------------------------------
(* The copiers                                                             *)

Source(c, d) == IF d = "down" THEN remote[c] ELSE local[c]
Target(c, d) == IF d = "down" THEN local[c] ELSE remote[c]

\* Mutant: GetMiddlePool puts the buffer back, as GetSmallPool does.
GetBufferShared(c, d) ==
    /\ CopierAt(c, d, "get") /\ CopierGoto(c, d, "read")
    /\ \/ \E b \in pool :
              /\ held' = [held EXCEPT ![<<c, d>>] = b]
              /\ UNCHANGED <<pool, made>>
       \/ /\ pool = {}
          /\ made' = made + 1
          /\ held' = [held EXCEPT ![<<c, d>>] = made + 1]
          /\ pool' = {made + 1}
    /\ UNCHANGED <<program, pc, sockets, errs>>

\* GetMiddlePool, or lPool.Get: a buffer of the pool or a new one.
GetBuffer(c, d) ==
    /\ CopierAt(c, d, "get") /\ CopierGoto(c, d, "read")
    /\ \/ \E b \in pool :
              /\ held' = [held EXCEPT ![<<c, d>>] = b]
              /\ pool' = pool \ {b}
              /\ UNCHANGED made
       \/ /\ pool = {}
          /\ made' = made + 1
          /\ held' = [held EXCEPT ![<<c, d>>] = made + 1]
          /\ UNCHANGED pool
    /\ UNCHANGED <<program, pc, sockets, errs>>

Reads(c, d) ==
    /\ CopierAt(c, d, "read") /\ Source(c, d) = "open"
    /\ CopierGoto(c, d, "write")
    /\ UNCHANGED <<program, pc, sockets, errs, buffers>>

\* Mutant: an end of file is no error.
ReadFailsSilently(c, d) ==
    /\ CopierAt(c, d, "read") /\ Source(c, d) # "open"
    /\ CopierGoto(c, d, "put")
    /\ UNCHANGED <<program, pc, sockets, errs, buffers>>

ReadFails(c, d) ==
    /\ CopierAt(c, d, "read") /\ Source(c, d) # "open"
    /\ CopierGoto(c, d, "report")
    /\ UNCHANGED <<program, pc, sockets, errs, buffers>>

Writes(c, d) ==
    /\ CopierAt(c, d, "write") /\ Target(c, d) # "closed"
    /\ CopierGoto(c, d, "read")
    /\ UNCHANGED <<program, pc, sockets, errs, buffers>>

\* The loop to the tunnel's local socket has no break after an error.
GoesOn(d) == d = "down" /\ program # "socks5"

WriteFails(c, d) ==
    /\ CopierAt(c, d, "write") /\ Target(c, d) # "open"
    /\ CopierGoto(c, d, IF GoesOn(d) THEN "reportOn" ELSE "report")
    /\ UNCHANGED <<program, pc, sockets, errs, buffers>>

\* It then writes what is left of the data, which is nothing: that may fail
\* again, and it must on a socket that is closed.
WritesRest(c, d) ==
    /\ CopierAt(c, d, "retry")
    /\ \/ Target(c, d) # "closed" /\ CopierGoto(c, d, "read")
       \/ Target(c, d) # "open" /\ CopierGoto(c, d, "reportOn")
    /\ UNCHANGED <<program, pc, sockets, errs, buffers>>

\* Mutant: the channel of the SOCKS5 server holds nothing, either.
ReportsUnbuffered(c, d) ==
    /\ copier[<<c, d>>] \in {"report", "reportOn"}
    /\ CopierGoto(c, d, IF CopierAt(c, d, "report") THEN "put" ELSE "retry")
    /\ pc[c] = "wait" /\ PcGoto(c, "return") /\ UNCHANGED errs
    /\ UNCHANGED <<program, sockets, buffers>>

\* errChan <- err needs the goroutine of the connection, which receives once;
\* error0 <- err needs room.
Reports(c, d) ==
    /\ copier[<<c, d>>] \in {"report", "reportOn"}
    /\ CopierGoto(c, d, IF CopierAt(c, d, "report") THEN "put" ELSE "retry")
    /\ \/ /\ program # "socks5"
          /\ pc[c] = "wait" /\ PcGoto(c, "return") /\ UNCHANGED errs
       \/ /\ program = "socks5"
          /\ errs[c] = 0 /\ errs' = [errs EXCEPT ![c] = 1] /\ UNCHANGED pc
    /\ UNCHANGED <<program, sockets, buffers>>

PutBuffer(c, d) ==
    /\ CopierAt(c, d, "put") /\ CopierGoto(c, d, "done")
    /\ pool' = pool \union {held[<<c, d>>]}
    /\ held' = [held EXCEPT ![<<c, d>>] = 0]
    /\ UNCHANGED <<program, pc, sockets, errs, made>>
-----------------------------------------------------------------------------
\* transport receives the first error.
Receives(c) ==
    /\ pc[c] = "wait" /\ errs[c] = 1
    /\ errs' = [errs EXCEPT ![c] = 0]
    /\ PcGoto(c, "return")
    /\ UNCHANGED <<program, sockets, copier, buffers>>

\* A deferred call closes its socket,
Closes(c) ==
    /\ pc[c] = "return"
    /\ \E socket \in closing[c] :
          /\ closing' = [closing EXCEPT ![c] = @ \ {socket}]
          /\ local' = IF socket = "local"
                        THEN [local EXCEPT ![c] = "closed"] ELSE local
          /\ remote' = IF socket = "remote"
                         THEN [remote EXCEPT ![c] = "closed"] ELSE remote
    /\ UNCHANGED <<program, pc, copier, errs, buffers>>

\* and after the last of them the goroutine ends.
Returns(c) ==
    /\ pc[c] = "return" /\ closing[c] = {} /\ PcGoto(c, "done")
    /\ UNCHANGED <<program, sockets, copier, errs, buffers>>

\* A peer ends its direction or resets the connection.
LocalEnds(c) ==
    /\ local[c] = "open" /\ local' = [local EXCEPT ![c] = "ended"]
    /\ UNCHANGED <<program, pc, remote, closing, copier, errs, buffers>>

RemoteEnds(c) ==
    /\ remote[c] = "open" /\ remote' = [remote EXCEPT ![c] = "ended"]
    /\ UNCHANGED <<program, pc, local, closing, copier, errs, buffers>>
-----------------------------------------------------------------------------
CopierMoves(c, d) ==
    \/ GetBuffer(c, d) \/ ReadFails(c, d) \/ WriteFails(c, d)
    \/ WritesRest(c, d) \/ Reports(c, d) \/ PutBuffer(c, d)

Next ==
    \E c \in Conn :
        \/ Requested(c) \/ Dialled(c) \/ Answered(c)
        \/ PrepareFails(c) \/ RequestFails(c) \/ AnswerFails(c)
        \/ Receives(c) \/ Closes(c) \/ Returns(c) \/ LocalEnds(c) \/ RemoteEnds(c)
        \/ \E d \in Dirs :
               CopierMoves(c, d) \/ Reads(c, d) \/ Writes(c, d)

Spec == Init /\ [][Next]_vars

\* The scheduler runs every goroutine that can move.  Neither peer has to
\* send, to take what is written to it, or to end.
Fairness ==
    \A c \in Conn :
        /\ WF_vars(Receives(c)) /\ WF_vars(Closes(c)) /\ WF_vars(Returns(c))
        /\ \A d \in Dirs : WF_vars(CopierMoves(c, d))

FairSpec == Spec /\ Fairness
=============================================================================
