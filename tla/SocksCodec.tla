------------------------------- MODULE SocksCodec -------------------------------
(***************************************************************************)
(* The messages of gotun2socks/gosocks (basic.go) and the choice of a      *)
(* method (server.go), over sequences of bytes.  A host is the bytes of    *)
(* its address or name; that net.IP turns an address into text and back    *)
(* is the library's business.                                              *)
(***************************************************************************)
EXTENDS Bytes

SocksVersion == 5
SocksReserved == 0
SocksIPv4Host == 1
SocksDomainHost == 3
SocksIPv6Host == 4
SocksNoAuthentication == 0
SocksNoAcceptableMethods == 255
smallBufSize == 512

HostTypes == {SocksIPv4Host, SocksDomainHost, SocksIPv6Host}

\* The hosts a message can carry: the length of a name is one byte.
Fits(host, hostType) ==
    IF hostType = SocksDomainHost THEN Len(host) <= 255
    ELSE Len(host) = IF hostType = SocksIPv4Host THEN 4 ELSE 16

\* A name has its length in front.
packSocksHost(hostType, host) ==
    IF hostType = SocksDomainHost
    THEN [i \in 1 .. 1 + Len(host) |->
            IF i = 1 THEN Len(host) % 256 ELSE host[i - 1]]
    ELSE host

\* Four bytes, the host, the port and what follows, each copied to its place.
Message(front, host, port, rest) ==
    LET h == packSocksHost(front[4], host)
        k == Len(h)
    IN  [i \in 1 .. 6 + k + Len(rest) |->
           IF i <= 4 THEN front[i]
           ELSE IF i <= 4 + k THEN h[i - 4]
           ELSE IF i <= 6 + k THEN Htons(port)[i - 4 - k]
           ELSE rest[i - 6 - k]]

\* Where the host of a message is: four bytes stand in front of it, or of the
\* length of a name.
HostFirst(message) == IF message[4] = SocksDomainHost THEN 6 ELSE 5
HostLength(message) ==
    IF message[4] = SocksDomainHost THEN message[5]
    ELSE IF message[4] = SocksIPv4Host THEN 4 ELSE 16
HostLast(message) == HostFirst(message) + HostLength(message) - 1

HostBytes(message) ==
    [i \in 1 .. HostLength(message) |-> message[HostFirst(message) - 1 + i]]

PortAfter(message, last) == Ntohs(message[last + 1], message[last + 2])

\* How a function that reads ends.
Read(data) == [end |-> "read", data |-> data]
Failed == [end |-> "error"]
Panicked == [end |-> "panic"]

\* readSocksDomainHost computes where the name ends in one byte, and slices a
\* buffer from 1 to there: the longest name is out of its range.
NameEnd(message) == (1 + message[5]) % 256
NameInRange(message) == message[4] = SocksDomainHost => 1 <= NameEnd(message)

\* What begins with the four bytes and whatever has arrived behind them.
readSocksHost(message) ==
    IF message[4] \notin HostTypes \/ Len(message) < HostFirst(message) - 1
    THEN Failed
    ELSE IF ~NameInRange(message) THEN Panicked
    ELSE IF Len(message) < HostLast(message) THEN Failed
    ELSE Read(HostBytes(message))
-----------------------------------------------------------------------------
(* Requests and replies over TCP                                           *)

SocksMessage ==
    {d \in [flag: Byte, hostType: HostTypes,
            host: Seq(Byte), port: Uint16] : Fits(d.host, d.hostType)}

writeSocksComm(d) ==
    Message(<<SocksVersion, d.flag, SocksReserved, d.hostType>>,
            d.host, d.port, <<>>)

readSocksComm(message) ==
    IF Len(message) < 4 \/ message[1] # SocksVersion THEN Failed
    ELSE IF readSocksHost(message).end # "read" THEN readSocksHost(message)
    ELSE IF Len(message) < HostLast(message) + 2 THEN Failed
    ELSE Read([flag |-> message[2], hostType |-> message[4],
               host |-> readSocksHost(message).data,
               port |-> PortAfter(message, HostLast(message))])
-----------------------------------------------------------------------------
(* Datagrams of an association                                             *)

UDPRequest ==
    {u \in [frag: Byte, hostType: HostTypes,
            host: Seq(Byte), port: Uint16, data: Seq(Byte)] :
        Fits(u.host, u.hostType)}

PackUDPRequest(u) ==
    Message(<<SocksReserved, SocksReserved, u.frag, u.hostType>>,
            u.host, u.port, u.data)

\* What reading the host leaves behind: a type that is unknown takes no byte, and
\* what is cut short takes all there is.
HostTaken(data) ==
    IF readSocksHost(data).end = "read" THEN HostLast(data)
    ELSE IF data[4] \in HostTypes THEN Len(data) ELSE 4

\* Refused is only what is shorter than the shortest could be: the errors of host
\* and port are not looked at, and the host or port is then empty.
ParseUDPRequest(data) ==
    LET host == readSocksHost(data)
        last == HostTaken(data)
        whole == last + 2 <= Len(data)
        first == IF whole THEN last + 2 ELSE Len(data)
    IN  IF Len(data) <= 8 THEN Failed
        ELSE IF host.end = "panic" THEN Panicked
        ELSE Read([frag |-> data[3], hostType |-> data[4],
                   host |-> IF host.end = "read" THEN host.data ELSE <<>>,
                   port |-> IF whole THEN PortAfter(data, last) ELSE 0,
                   data |-> [i \in 1 .. Len(data) - first |-> data[first + i]]])
-----------------------------------------------------------------------------
(* The choice of a method                                                  *)

\* What ServerAuthenticate reads into h, 512 bytes that were 0, seen from 0.
Hello(methods) ==
    [i \in 0 .. smallBufSize - 1 |->
       IF i = 0 THEN SocksVersion
       ELSE IF i = 1 THEN Len(methods)
       ELSE IF i - 1 <= Len(methods) THEN methods[i - 1] ELSE 0]

\* It looks for the method one byte behind where each is.
MethodFound(h) == \E i \in 0 .. h[1] - 1 : h[i + 3] = SocksNoAuthentication

ServerAuthenticate(h) ==
    IF MethodFound(h) THEN SocksNoAuthentication ELSE SocksNoAcceptableMethods
=============================================================================
