----------------------------- MODULE SocksHandler -----------------------------
(***************************************************************************)
(* One client of the SOCKS server of gotun2socks/gosocks/server.go: the    *)
(* goroutine Serve starts for it, which authenticates it and runs          *)
(* BasicSocksHandler.ServeSocks, and the goroutines that one starts.       *)
(* CONNECT runs two copiers between the client and the target              *)
(* (CopyLoopTimeout); UDP ASSOCIATE relays datagrams between two UDP       *)
(* sockets, read by two UDPReaders, until ConnMonitor sees anything happen *)
(* on the client's connection or a timer fires.                            *)
(*                                                                         *)
(* What is relayed is left out: a copier holds something to write or not.  *)
(* Time is not modelled: an armed deadline or timer may fire at any        *)
(* moment.  A stream is "eof" when its peer has shut down its direction.   *)
(***************************************************************************)
EXTENDS Naturals

VARIABLES
    handler,        \* the client's goroutine: the function it is in
    conn,           \* the client's connection
    remote,         \* CONNECT: the connection to the target
    copier,         \* CONNECT: the goroutine that copies to each socket
    clientBind, forwardingBind,     \* UDP ASSOCIATE: the two sockets
    quit,           \* times the channel quit was closed
    monitor,        \* the goroutine ConnMonitor
    clientReader, remoteReader      \* the UDPReaders of the two sockets

connect == <<remote, copier>>
binds == <<clientBind, forwardingBind>>
helpers == <<quit, monitor, clientReader, remoteReader>>
associate == <<binds, helpers>>
vars == <<handler, conn, connect, associate>>

Client == INSTANCE UdpReader WITH pc <- clientReader
Remote == INSTANCE UdpReader WITH pc <- remoteReader

Ends == {"conn", "remote"}
Other(end) == CHOOSE e \in Ends : e # end

TypeOK ==
    /\ handler \in {"none", "auth", "request", "dial", "reply", "copy",
                    "bind", "bindReply", "first", "dialUDP", "write", "select",
                    "drainClient", "drainRemote", "done"}
    /\ conn \in {"open", "eof", "closed"}
    /\ remote \in {"nil", "open", "eof", "closed"}
    /\ copier \in [Ends -> {"none", "read", "write", "done"}]
    /\ clientBind \in {"nil", "open", "closed"}
    /\ forwardingBind \in {"nil", "open", "closed"}
    /\ quit \in 0 .. 1
    /\ monitor \in {"none", "read", "done"}
    /\ Client!UdpReaderTypeOK /\ Remote!UdpReaderTypeOK

Init ==
    /\ handler = "none"
    /\ conn = "open" /\ remote = "nil"
    /\ copier = [end \in Ends |-> "none"]
    /\ clientBind = "nil" /\ forwardingBind = "nil"
    /\ quit = 0 /\ monitor = "none"
    /\ clientReader = "none" /\ remoteReader = "none"

Closed(socket) == IF socket = "nil" THEN "nil" ELSE "closed"
-----------------------------------------------------------------------------
(* Serve's goroutine and ServeSocks                                        *)

\* Serve takes the connection from its acceptor.
Started ==
    /\ handler = "none" /\ handler' = "auth"
    /\ UNCHANGED <<conn, connect, associate>>

AuthFails ==
    /\ handler = "auth" /\ handler' = "done"
    /\ conn' = "closed"
    /\ UNCHANGED <<connect, associate>>

\* Also when the server has no authenticator.
AuthSucceeds ==
    /\ handler = "auth" /\ handler' = "request"
    /\ UNCHANGED <<conn, connect, associate>>

\* A request that cannot be read, or of an unknown command: the connection
\* stays open.
RequestFails ==
    /\ handler = "request" /\ handler' = "done"
    /\ UNCHANGED <<conn, connect, associate>>

RequestConnect ==
    /\ handler = "request" /\ handler' = "dial"
    /\ UNCHANGED <<conn, connect, associate>>

RequestAssociate ==
    /\ handler = "request" /\ handler' = "bind"
    /\ UNCHANGED <<conn, connect, associate>>

RequestBind ==
    /\ handler = "request" /\ handler' = "done"
    /\ conn' = "closed"
    /\ UNCHANGED <<connect, associate>>
-----------------------------------------------------------------------------
(* HandleCmdConnect                                                        *)

DialFails ==
    /\ handler = "dial" /\ handler' = "done"
    /\ conn' = "closed"
    /\ UNCHANGED <<connect, associate>>

DialSucceeds ==
    /\ handler = "dial" /\ handler' = "reply"
    /\ remote' = "open"
    /\ UNCHANGED <<conn, copier, associate>>

ReplyFails ==
    /\ handler = "reply" /\ handler' = "done"
    /\ conn' = "closed" /\ remote' = "closed"
    /\ UNCHANGED <<copier, associate>>

ReplySent ==
    /\ handler = "reply" /\ handler' = "copy"
    /\ copier' = [end \in Ends |-> "read"]
    /\ UNCHANGED <<conn, remote, associate>>

Socket(end) == IF end = "conn" THEN conn ELSE remote

CopierGoto(end, pc) == copier' = [copier EXCEPT ![end] = pc]

\* The copier to dst reads what the other socket has received,
CopyReads(dst) ==
    /\ copier[dst] = "read" /\ Socket(Other(dst)) = "open"
    /\ CopierGoto(dst, "write")
    /\ UNCHANGED <<handler, conn, remote, associate>>

\* writes it,
CopyWrites(dst) ==
    /\ copier[dst] = "write" /\ Socket(dst) # "closed"
    /\ CopierGoto(dst, "read")
    /\ UNCHANGED <<handler, conn, remote, associate>>

\* Mutant: a copier does nothing about an end of file.
CopyEOFKeepsBoth(dst) ==
    /\ copier[dst] = "read" /\ Socket(Other(dst)) = "eof"
    /\ CopierGoto(dst, "done")
    /\ UNCHANGED <<handler, conn, remote, associate>>

\* ends at an end of file, when it closes the socket it writes to,
CopyEOF(dst) ==
    /\ copier[dst] = "read" /\ Socket(Other(dst)) = "eof"
    /\ CopierGoto(dst, "done")
    /\ conn' = IF dst = "conn" THEN "closed" ELSE conn
    /\ remote' = IF dst = "remote" THEN "closed" ELSE remote
    /\ UNCHANGED <<handler, associate>>

\* or with an error, a deadline that has passed for one, when it closes both.
CopyFails(dst) ==
    /\ copier[dst] \in {"read", "write"}
    /\ CopierGoto(dst, "done")
    /\ conn' = "closed" /\ remote' = "closed"
    /\ UNCHANGED <<handler, associate>>

\* wg.Wait returns.
CopyReturns ==
    /\ handler = "copy" /\ \A end \in Ends : copier[end] = "done"
    /\ handler' = "done"
    /\ UNCHANGED <<conn, connect, associate>>
-----------------------------------------------------------------------------
(* UDPAssociateFirstPacket                                                 *)

BindFails ==
    /\ handler = "bind" /\ handler' = "done"
    /\ conn' = "closed"
    /\ UNCHANGED <<connect, associate>>

BindSucceeds ==
    /\ handler = "bind" /\ handler' = "bindReply"
    /\ clientBind' = "open"
    /\ UNCHANGED <<conn, connect, forwardingBind, helpers>>

\* The reply, or the wait for the first datagram, fails: HandleCmdUDPAssociate
\* closes the connection.
FirstFails ==
    /\ handler \in {"bindReply", "first"} /\ handler' = "done"
    /\ clientBind' = "closed" /\ conn' = "closed"
    /\ UNCHANGED <<connect, forwardingBind, helpers>>

BindReplySent ==
    /\ handler = "bindReply" /\ handler' = "first"
    /\ UNCHANGED <<conn, connect, associate>>

\* Datagrams from elsewhere and fragments change nothing.
FirstTaken ==
    /\ handler = "first" /\ handler' = "dialUDP"
    /\ UNCHANGED <<conn, connect, associate>>
-----------------------------------------------------------------------------
(* UDPAssociateForwarding                                                  *)

DialUDPFails ==
    /\ handler = "dialUDP" /\ handler' = "done"
    /\ clientBind' = "closed" /\ conn' = "closed"
    /\ UNCHANGED <<connect, forwardingBind, helpers>>

\* The error of ListenUDP is ignored.
DialUDPSucceeds ==
    /\ handler = "dialUDP" /\ handler' = "write"
    /\ forwardingBind' \in {"nil", "open"}
    /\ UNCHANGED <<conn, connect, clientBind, helpers>>

\* The connection stays open.
FirstWriteFails ==
    /\ handler = "write" /\ handler' = "done"
    /\ clientBind' = "closed"
    /\ forwardingBind' = Closed(forwardingBind)
    /\ UNCHANGED <<conn, connect, helpers>>

FirstWritten ==
    /\ handler = "write" /\ forwardingBind = "open"
    /\ handler' = "select"
    /\ monitor' = "read" /\ Client!Started /\ Remote!Started
    /\ UNCHANGED <<conn, connect, binds, quit>>

\* Mutants: the loop leaves one of the sockets open.
LeaveKeepsForwarding ==
    /\ handler' = "drainClient"
    /\ conn' = "closed" /\ clientBind' = "closed"
    /\ UNCHANGED forwardingBind
LeaveKeepsConn ==
    /\ handler' = "drainClient"
    /\ clientBind' = "closed" /\ forwardingBind' = "closed"
    /\ UNCHANGED conn

\* Every way out of the loop.
Leave ==
    /\ handler' = "drainClient"
    /\ conn' = "closed" /\ clientBind' = "closed" /\ forwardingBind' = "closed"

Stay == UNCHANGED <<handler, conn, binds>>

\* A datagram of the client is ignored or forwarded; it cannot be parsed or
\* written, or the reader has ended.
SelectClient ==
    /\ handler = "select"
    /\ \/ Client!Taken /\ (Stay \/ Leave)
       \/ clientReader = "closed" /\ Leave /\ UNCHANGED clientReader
    /\ UNCHANGED <<connect, quit, monitor, remoteReader>>

SelectRemote ==
    /\ handler = "select"
    /\ \/ Remote!Taken /\ (Stay \/ Leave)
       \/ remoteReader = "closed" /\ Leave /\ UNCHANGED remoteReader
    /\ UNCHANGED <<connect, quit, monitor, clientReader>>

\* Mutant: the event on the connection is not looked at.
SelectQuitIgnored ==
    /\ handler = "select" /\ quit > 0
    /\ Stay
    /\ UNCHANGED <<connect, helpers>>

SelectQuit ==
    /\ handler = "select" /\ quit > 0
    /\ Leave
    /\ UNCHANGED <<connect, helpers>>

SelectTimeout ==
    /\ handler = "select"
    /\ Leave
    /\ UNCHANGED <<connect, helpers>>

\* One receive from each reader: a datagram it holds, or the closed channel.
DrainClient ==
    /\ handler = "drainClient" /\ handler' = "drainRemote"
    /\ \/ Client!Taken
       \/ clientReader = "closed" /\ UNCHANGED clientReader
    /\ UNCHANGED <<conn, connect, binds, quit, monitor, remoteReader>>

DrainRemote ==
    /\ handler = "drainRemote" /\ handler' = "done"
    /\ \/ Remote!Taken
       \/ remoteReader = "closed" /\ UNCHANGED remoteReader
    /\ UNCHANGED <<conn, connect, binds, quit, monitor, clientReader>>
-----------------------------------------------------------------------------
(* ConnMonitor and the UDPReaders                                          *)

MonitorEnds ==
    /\ monitor = "read" /\ monitor' = "done"
    /\ quit' = quit + 1
    /\ UNCHANGED <<handler, conn, connect, binds, clientReader, remoteReader>>

ClientReads ==
    /\ clientBind = "open" /\ Client!Reads
    /\ UNCHANGED <<handler, conn, connect, binds, quit, monitor, remoteReader>>

RemoteReads ==
    /\ forwardingBind = "open" /\ Remote!Reads
    /\ UNCHANGED <<handler, conn, connect, binds, quit, monitor, clientReader>>

ClientEnds ==
    /\ \/ Client!ReadFails
       \/ quit > 0 /\ Client!Quits
    /\ UNCHANGED <<handler, conn, connect, binds, quit, monitor, remoteReader>>

RemoteEnds ==
    /\ \/ Remote!ReadFails
       \/ quit > 0 /\ Remote!Quits
    /\ UNCHANGED <<handler, conn, connect, binds, quit, monitor, clientReader>>
-----------------------------------------------------------------------------
\* The client or the target shuts down its direction; before the handler runs
\* it would not be noticed.
PeerEOF ==
    /\ handler # "none"
    /\ \/ conn = "open" /\ conn' = "eof" /\ UNCHANGED remote
       \/ remote = "open" /\ remote' = "eof" /\ UNCHANGED conn
    /\ UNCHANGED <<handler, copier, associate>>
-----------------------------------------------------------------------------
ServeStep ==
    \/ AuthFails \/ AuthSucceeds
    \/ RequestFails \/ RequestConnect \/ RequestAssociate \/ RequestBind
    \/ DialFails \/ DialSucceeds \/ ReplyFails \/ ReplySent \/ CopyReturns
    \/ BindFails \/ BindSucceeds \/ FirstFails \/ BindReplySent \/ FirstTaken
    \/ DialUDPFails \/ DialUDPSucceeds \/ FirstWriteFails \/ FirstWritten
    \/ DrainClient \/ DrainRemote

SelectStep == SelectClient \/ SelectRemote \/ SelectQuit \/ SelectTimeout

CopyStep ==
    \E dst \in Ends :
        CopyReads(dst) \/ CopyWrites(dst) \/ CopyEOF(dst) \/ CopyFails(dst)

HelperStep ==
    MonitorEnds \/ ClientReads \/ RemoteReads \/ ClientEnds \/ RemoteEnds

Step == ServeStep \/ SelectStep \/ CopyStep \/ HelperStep \/ PeerEOF

Next == Started \/ Step

Spec == Init /\ [][Next]_vars

\* Every wait of the handler has a deadline or a timer.  The copiers share
\* theirs: traffic in one direction postpones the deadline of the other, so
\* that only one of them is sure to move.  A read of a UDPReader or of
\* ConnMonitor is only sure to end once its socket is shut down or closed.
Fairness ==
    /\ WF_vars(ServeStep) /\ WF_vars(SelectStep) /\ SF_vars(SelectQuit)
    /\ WF_vars(CopyStep)
    /\ WF_vars(conn # "open" /\ MonitorEnds)
    /\ WF_vars(clientBind = "closed" /\ ClientEnds)
    /\ WF_vars(forwardingBind = "closed" /\ RemoteEnds)

FairSpec == Spec /\ Fairness
=============================================================================
