------------------------------ MODULE CodecProofs ------------------------------
(* What the pure functions on bytes promise: the cipher of the tunnel and   *)
(* the messages of SOCKS.                                                  *)
EXTENDS Ciphers, SocksCodec, SequenceTheorems, TLAPS

\* The way back of one byte, and the table for it.
LEMMA DecodedByte ==
    ASSUME NEW p \in RandPassword, NEW b \in Byte
    PROVE  p[b] \in Byte /\ Decoded(p, p[b]) = b
  <1>1. p[b] \in Byte
    BY DEF RandPassword, password
  <1>2. \A i \in Byte : p[i] = p[b] <=> i = b
    BY DEF RandPassword
  <1> DEFINE Last(i) == /\ p[i] = p[b]
                        /\ \A j \in Byte : p[j] = p[b] => j <= i
  <1>3. \A i \in Byte : Last(i) <=> i = b
    BY <1>2 DEF Byte
  <1>4. (CHOOSE i \in Byte : Last(i)) = b
    BY <1>3
  <1>. QED BY <1>1, <1>4 DEF Decoded

LEMMA DecodeTable ==
    ASSUME NEW p \in RandPassword
    PROVE  decodePassword(p) \in password
  <1>1. ASSUME NEW v \in Byte PROVE Decoded(p, v) \in Byte
    <2>1. CASE \E b \in Byte : p[b] = v
      BY <2>1, DecodedByte
    <2>2. CASE ~\E b \in Byte : p[b] = v
      <3>1. Decoded(p, v) = 0
        BY <2>2, Zenon DEF Decoded
      <3>. QED BY <3>1 DEF Byte
    <2>. QED BY <2>1, <2>2
  <1>. QED BY <1>1, Zenon DEF password, decodePassword

\* What a password of RandPassword encrypts it decrypts (little/cipher.go:11-24).
THEOREM DecryptsEncrypted ==
    ASSUME NEW p \in RandPassword, NEW bs \in Seq(Byte)
    PROVE  Decrypt(p, Encrypt(p, bs)) = bs
  <1>1. Len(Encrypt(p, bs)) = Len(bs)
    BY DEF Encrypt
  <1>2. \A i \in 1 .. Len(bs) : decodePassword(p)[Encrypt(p, bs)[i]] = bs[i]
    <2>1. TAKE i \in 1 .. Len(bs)
    <2>2. bs[i] \in Byte
      OBVIOUS
    <2>3. Encrypt(p, bs)[i] = p[bs[i]] /\ p[bs[i]] \in Byte
      BY <2>2, DecodedByte DEF Encrypt
    <2>. QED BY <2>2, <2>3, DecodedByte DEF decodePassword
  <1>3. bs = [i \in 1 .. Len(bs) |-> bs[i]]
    OBVIOUS
  <1>. QED BY <1>1, <1>2, <1>3 DEF Decrypt

\* However the bytes are cut on their way, what arrives is what was sent: the two
\* ends of the tunnel read and decrypt in other pieces than were encrypted and
\* written (kcp/service/conn.go:150-215).
THEOREM PiecesDoNotMatter ==
    ASSUME NEW p \in RandPassword, NEW a \in Seq(Byte), NEW b \in Seq(Byte)
    PROVE  /\ Encrypt(p, a) \o Encrypt(p, b) = Encrypt(p, a \o b)
           /\ Decrypt(p, a) \o Decrypt(p, b) = Decrypt(p, a \o b)
  <1>1. /\ a \o b \in Seq(Byte) /\ Len(a \o b) = Len(a) + Len(b)
        /\ \A i \in 1 .. Len(a) + Len(b) :
              (a \o b)[i] = IF i <= Len(a) THEN a[i] ELSE b[i - Len(a)]
    BY ConcatProperties
  <1>2. ASSUME NEW table \in password
        PROVE  LET F(s) == [i \in 1 .. Len(s) |-> table[s[i]]] IN
               F(a) \o F(b) = F(a \o b)
    <2> DEFINE F(s) == [i \in 1 .. Len(s) |-> table[s[i]]]
    <2>1. ASSUME NEW s \in Seq(Byte)
          PROVE  /\ F(s) \in Seq(Byte) /\ Len(F(s)) = Len(s)
                 /\ \A i \in 1 .. Len(s) : F(s)[i] = table[s[i]]
      BY <1>2 DEF password
    <2>2. F(a) \in Seq(Byte) /\ F(b) \in Seq(Byte) /\ F(a \o b) \in Seq(Byte)
      BY <1>1, <2>1
    <2>3. Len(F(a)) = Len(a) /\ Len(F(b)) = Len(b)
          /\ Len(F(a \o b)) = Len(a) + Len(b)
      BY <1>1, <2>1
    <2>4. /\ F(a) \o F(b) \in Seq(Byte) /\ Len(F(a) \o F(b)) = Len(a) + Len(b)
          /\ \A i \in 1 .. Len(a) + Len(b) :
                (F(a) \o F(b))[i] =
                   IF i <= Len(a) THEN F(a)[i] ELSE F(b)[i - Len(a)]
      BY <2>2, <2>3, ConcatProperties
    <2>5. \A i \in 1 .. Len(a) + Len(b) : (F(a) \o F(b))[i] = F(a \o b)[i]
      BY <1>1, <2>1, <2>4
    <2>. QED BY <2>2, <2>3, <2>4, <2>5, SeqEqual
  <1>3. p \in password /\ decodePassword(p) \in password
    BY DecodeTable DEF RandPassword
  <1>. QED BY <1>2, <1>3 DEF Encrypt, Decrypt
-----------------------------------------------------------------------------
(* SOCKS messages                                                          *)

LEMMA Port ==
    ASSUME NEW port \in Uint16
    PROVE  /\ Htons(port) \in Seq(Byte) /\ Len(Htons(port)) = 2
           /\ Ntohs(Htons(port)[1], Htons(port)[2]) = port
  <1>1. port \in Int /\ 0 <= port /\ port <= 65535
    BY DEF Uint16
  <1>2. port \div 256 \in 0 .. 255 /\ port % 256 \in 0 .. 255
    BY <1>1
  <1>3. PICK high \in 0 .. 255, low \in 0 .. 255 :
               high = port \div 256 /\ low = port % 256
    BY <1>2, Zenon
  <1>4. high \in Byte /\ low \in Byte
    BY <1>3 DEF Byte
  <1>5. Htons(port) = <<high, low>>
    BY <1>3 DEF Htons
  <1>6. Ntohs(high, low) = port
    BY <1>1, <1>3 DEF Ntohs
  <1>. QED BY <1>4, <1>5, <1>6

\* A host as it is packed: the name with its length in front, or the address.
LEMMA Packed ==
    ASSUME NEW host \in Seq(Byte), NEW hostType, Fits(host, hostType)
    PROVE  /\ Len(host) \in Nat
           /\ hostType # SocksDomainHost => packSocksHost(hostType, host) = host
           /\ hostType = SocksDomainHost =>
                 /\ Len(packSocksHost(hostType, host)) = 1 + Len(host)
                 /\ packSocksHost(hostType, host)[1] = Len(host)
                 /\ \A i \in 1 .. Len(host) :
                       packSocksHost(hostType, host)[1 + i] = host[i]
  <1>1. Len(host) \in Nat
    OBVIOUS
  <1>2. CASE hostType = SocksDomainHost
    <2>1. Len(host) % 256 = Len(host)
      BY <1>1, <1>2 DEF Fits
    <2>2. packSocksHost(hostType, host) =
            [i \in 1 .. 1 + Len(host) |-> IF i = 1 THEN Len(host) ELSE host[i - 1]]
      BY <1>2, <2>1 DEF packSocksHost
    <2>3. 1 + Len(host) \in Nat
      BY <1>1
    <2>. QED BY <1>1, <1>2, <2>2, <2>3
  <1>3. CASE hostType # SocksDomainHost
    BY <1>1, <1>3 DEF packSocksHost
  <1>. QED BY <1>2, <1>3

LEMMA SomeLength ==
    ASSUME NEW s \in Seq(Byte)
    PROVE  Len(s) \in Nat /\ s = [i \in 1 .. Len(s) |-> s[i]]
  OBVIOUS

LEMMA PackedLength ==
    ASSUME NEW host \in Seq(Byte), NEW hostType, Fits(host, hostType)
    PROVE  /\ Len(packSocksHost(hostType, host)) \in Nat
           /\ Len(packSocksHost(hostType, host)) =
                 IF hostType = SocksDomainHost THEN 1 + Len(host) ELSE Len(host)
  <1>1. Len(host) \in Nat
    OBVIOUS
  <1>2. CASE hostType = SocksDomainHost
    BY <1>1, <1>2, Packed
  <1>3. CASE hostType # SocksDomainHost
    BY <1>1, <1>3, Packed
  <1>. QED BY <1>2, <1>3

\* What a reader finds that reads a message, or whatever begins with one: n bytes
\* are the message, in front are front and h, k bytes, then the port and the rest.
Begins(m, w) ==
    /\ Len(m) \in Nat /\ Len(w) <= Len(m)
    /\ \A i \in 1 .. Len(w) : m[i] = w[i]

Holds(m, front, h, k, bytes, rest, n) ==
    /\ n = 6 + k + Len(rest)
    /\ \A i \in 1 .. 4 : m[i] = front[i]
    /\ \A i \in 1 .. k : m[4 + i] = h[i]
    /\ m[5 + k] = bytes[1] /\ m[6 + k] = bytes[2]
    /\ \A i \in 1 .. Len(rest) : m[6 + k + i] = rest[i]

LEMMA Layout ==
    ASSUME NEW front, NEW host, NEW port, NEW rest, NEW m, Len(rest) \in Nat,
           Begins(m, Message(front, host, port, rest)),
           Len(packSocksHost(front[4], host)) \in Nat
    PROVE  Holds(m, front, packSocksHost(front[4], host),
                 Len(packSocksHost(front[4], host)), Htons(port), rest,
                 Len(Message(front, host, port, rest)))
  <1> DEFINE h == packSocksHost(front[4], host)
             k == Len(h)
             bytes == Htons(port)
             w == Message(front, host, port, rest)
             n == 6 + k + Len(rest)
  <1>a. k \in Nat /\ \A i \in 1 .. Len(w) : m[i] = w[i]
    BY Zenon DEF Begins
  <1>1. w = [i \in 1 .. n |->
               IF i <= 4 THEN front[i]
               ELSE IF i <= 4 + k THEN h[i - 4]
               ELSE IF i <= 6 + k THEN bytes[i - 4 - k]
               ELSE rest[i - 6 - k]]
    BY Zenon DEF Message
  <1> HIDE DEF h, k, bytes, w
  <1>2. n \in Nat
    BY <1>a
  <1>3. Len(w) = n
    BY <1>1, <1>2
  <1> HIDE DEF n
  <1>b. n = 6 + k + Len(rest)
    BY DEF n
  <1>4. \A i \in 1 .. n :
             m[i] = IF i <= 4 THEN front[i]
                    ELSE IF i <= 4 + k THEN h[i - 4]
                    ELSE IF i <= 6 + k THEN bytes[i - 4 - k]
                    ELSE rest[i - 6 - k]
    <2>1. TAKE i \in 1 .. n
    <2>2. m[i] = w[i]
      BY <1>a, <1>3
    <2>3. w[i] = IF i <= 4 THEN front[i]
                 ELSE IF i <= 4 + k THEN h[i - 4]
                 ELSE IF i <= 6 + k THEN bytes[i - 4 - k]
                 ELSE rest[i - 6 - k]
      BY <1>1
    <2>. QED BY <2>2, <2>3
  <1>5. \A i \in 1 .. 4 : m[i] = front[i]
    BY <1>a, <1>b, <1>4
  <1>6. \A i \in 1 .. k : m[4 + i] = h[i]
    <2>1. TAKE i \in 1 .. k
    <2>2. 4 + i \in 1 .. n /\ ~(4 + i <= 4) /\ 4 + i <= 4 + k /\ (4 + i) - 4 = i
      BY <1>a, <1>b
    <2>. QED BY <1>4, <2>2
  <1>7. m[5 + k] = bytes[1] /\ m[6 + k] = bytes[2]
    <2>1. /\ 5 + k \in 1 .. n /\ ~(5 + k <= 4) /\ ~(5 + k <= 4 + k)
          /\ 5 + k <= 6 + k /\ (5 + k) - 4 - k = 1
      BY <1>a, <1>b
    <2>2. /\ 6 + k \in 1 .. n /\ ~(6 + k <= 4) /\ ~(6 + k <= 4 + k)
          /\ 6 + k <= 6 + k /\ (6 + k) - 4 - k = 2
      BY <1>a, <1>b
    <2>3. m[5 + k] = bytes[(5 + k) - 4 - k]
      BY <1>4, <2>1, Zenon
    <2>4. m[6 + k] = bytes[(6 + k) - 4 - k]
      BY <1>4, <2>2, Zenon
    <2>. QED BY <2>1, <2>2, <2>3, <2>4, Zenon
  <1>8. \A i \in 1 .. Len(rest) : m[6 + k + i] = rest[i]
    <2>1. TAKE i \in 1 .. Len(rest)
    <2>2. /\ 6 + k + i \in 1 .. n /\ ~(6 + k + i <= 4) /\ ~(6 + k + i <= 4 + k)
          /\ ~(6 + k + i <= 6 + k) /\ (6 + k + i) - 6 - k = i
      BY <1>a, <1>b
    <2>. QED BY <1>4, <2>2
  <1>. QED BY <1>b, <1>3, <1>5, <1>6, <1>7, <1>8, Zenon DEF Holds, h, k, bytes, w

\* Where the host is found, and that it and the port are read.
Located(m, hostType, host, port, k) ==
    /\ HostLast(m) = 4 + k
    /\ hostType = SocksDomainHost => m[5] = Len(host)
    /\ HostBytes(m) = host /\ PortAfter(m, HostLast(m)) = port

LEMMA Found ==
    ASSUME NEW hostType \in HostTypes, NEW host \in Seq(Byte),
           Fits(host, hostType), NEW port \in Uint16, NEW m, NEW front, NEW rest,
           NEW n, m[4] = hostType,
           Holds(m, front, packSocksHost(hostType, host),
                 Len(packSocksHost(hostType, host)), Htons(port), rest, n)
    PROVE  Located(m, hostType, host, port, Len(packSocksHost(hostType, host)))
  <1> DEFINE h == packSocksHost(hostType, host)
             k == Len(h)
  <1>a. k \in Nat
    BY PackedLength, Zenon
  <1>b. /\ \A i \in 1 .. k : m[4 + i] = h[i]
        /\ m[5 + k] = Htons(port)[1] /\ m[6 + k] = Htons(port)[2]
    BY Zenon DEF Holds
  <1>1. Len(host) \in Nat
    BY SomeLength, Zenon
  <1>2. /\ HostFirst(m) + Len(host) = 5 + k /\ HostFirst(m) \in Nat
        /\ HostLength(m) = Len(host)
        /\ \A i \in 1 .. Len(host) : m[HostFirst(m) - 1 + i] = host[i]
        /\ hostType = SocksDomainHost => m[5] = Len(host)
    <2>1. CASE hostType = SocksDomainHost
      <3>1. k = 1 + Len(host) /\ h[1] = Len(host)
            /\ \A i \in 1 .. Len(host) : h[1 + i] = host[i]
        BY <2>1, Packed, Zenon
      <3>2. HostFirst(m) = 6
        BY <2>1 DEF HostFirst
      <3>3. m[5] = h[1]
        <4>1. 1 \in 1 .. k /\ 4 + 1 = 5
          BY <1>1, <3>1
        <4>. QED BY <1>b, <4>1, Zenon
      <3>4. HostLength(m) = Len(host)
        BY <2>1, <3>1, <3>3 DEF HostLength
      <3>5. \A i \in 1 .. Len(host) : m[5 + i] = host[i]
        <4>1. TAKE i \in 1 .. Len(host)
        <4>2. 1 + i \in 1 .. k /\ 4 + (1 + i) = 5 + i
          BY <1>1, <3>1
        <4>3. m[4 + (1 + i)] = h[1 + i]
          BY <1>b, <4>2, Zenon
        <4>. QED BY <3>1, <4>2, <4>3, Zenon
      <3>6. \A i \in 1 .. Len(host) : m[HostFirst(m) - 1 + i] = host[i]
        <4>1. HostFirst(m) - 1 = 5
          BY <3>2
        <4>. QED BY <3>5, <4>1, Zenon
      <3>7. HostFirst(m) + Len(host) = 5 + k /\ HostFirst(m) \in Nat
        BY <1>1, <3>1, <3>2
      <3>. QED BY <3>1, <3>3, <3>4, <3>6, <3>7, Zenon
    <2>2. CASE hostType # SocksDomainHost
      <3>1. h = host /\ k = Len(host)
        BY <2>2, Packed, Zenon
      <3>2. HostFirst(m) = 5
        BY <2>2 DEF HostFirst
      <3>3. HostLength(m) = Len(host)
        BY <2>2 DEF HostLength, Fits
      <3>4. \A i \in 1 .. Len(host) : m[4 + i] = host[i]
        BY <1>b, <3>1, Zenon
      <3>5. \A i \in 1 .. Len(host) : m[HostFirst(m) - 1 + i] = host[i]
        <4>1. HostFirst(m) - 1 = 4
          BY <3>2
        <4>. QED BY <3>4, <4>1, Zenon
      <3>6. HostFirst(m) + Len(host) = 5 + k /\ HostFirst(m) \in Nat
        BY <1>1, <3>1, <3>2
      <3>. QED BY <2>2, <3>3, <3>5, <3>6, Zenon
    <2>. QED BY <2>1, <2>2, Zenon
  <1>3. HostLast(m) = 4 + k
    BY <1>a, <1>1, <1>2 DEF HostLast
  <1>4. host = [i \in 1 .. Len(host) |-> host[i]]
    BY SomeLength, Zenon
  <1>5. HostBytes(m) = host
    <2>1. [i \in 1 .. Len(host) |-> m[HostFirst(m) - 1 + i]]
             = [i \in 1 .. Len(host) |-> host[i]]
      BY <1>2
    <2>. QED BY <1>2, <1>4, <2>1, Zenon DEF HostBytes
  <1>6. PortAfter(m, HostLast(m)) = port
    <2>1. HostLast(m) + 1 = 5 + k /\ HostLast(m) + 2 = 6 + k
      BY <1>a, <1>3
    <2>2. Ntohs(Htons(port)[1], Htons(port)[2]) = port
      BY Port, Zenon
    <2>. QED BY <1>b, <2>1, <2>2, Zenon DEF PortAfter
  <1>. QED BY <1>2, <1>3, <1>5, <1>6, Zenon DEF Located

LEMMA Four ==
    ASSUME NEW a, NEW b, NEW c, NEW d
    PROVE  <<a, b, c, d>>[1] = a /\ <<a, b, c, d>>[2] = b
           /\ <<a, b, c, d>>[3] = c /\ <<a, b, c, d>>[4] = d
  OBVIOUS

Reads(m, a, b, c, hostType, host, port, rest, n) ==
    /\ n = HostLast(m) + 2 + Len(rest) /\ HostLast(m) \in Nat
    /\ m[1] = a /\ m[2] = b /\ m[3] = c /\ m[4] = hostType
    /\ hostType = SocksDomainHost => m[5] = Len(host)
    /\ HostBytes(m) = host /\ PortAfter(m, HostLast(m)) = port
    /\ \A i \in 1 .. Len(rest) : m[HostLast(m) + 2 + i] = rest[i]

\* The two together, for a message or datagram whose host fits.
LEMMA Carried ==
    ASSUME NEW a, NEW b, NEW c,
           NEW hostType \in HostTypes, NEW host \in Seq(Byte),
           Fits(host, hostType), NEW port \in Uint16,
           NEW rest \in Seq(Byte), NEW m,
           Begins(m, Message(<<a, b, c, hostType>>, host, port, rest))
    PROVE  Reads(m, a, b, c, hostType, host, port, rest,
                 Len(Message(<<a, b, c, hostType>>, host, port, rest)))
  <1> DEFINE front == <<a, b, c, hostType>>
             h == packSocksHost(hostType, host)
             k == Len(h)
             n == Len(Message(front, host, port, rest))
  <1>1. k \in Nat /\ Len(rest) \in Nat
    BY PackedLength, SomeLength, Zenon
  <1>2. front[1] = a /\ front[2] = b /\ front[3] = c /\ front[4] = hostType
    BY Four, Zenon
  <1> HIDE DEF front
  <1>3. Begins(m, Message(front, host, port, rest))
    BY Zenon DEF front
  <1>4. Len(packSocksHost(front[4], host)) \in Nat
    BY <1>1, <1>2, Zenon
  <1>5. Holds(m, front, packSocksHost(front[4], host),
              Len(packSocksHost(front[4], host)), Htons(port), rest,
              Len(Message(front, host, port, rest)))
    BY <1>1, <1>3, <1>4, Layout, Zenon
  <1>6. Holds(m, front, h, k, Htons(port), rest, n)
    BY <1>2, <1>5, Zenon
  <1> HIDE DEF n
  <1>7. /\ n = 6 + k + Len(rest)
        /\ \A i \in 1 .. 4 : m[i] = front[i]
        /\ \A i \in 1 .. Len(rest) : m[6 + k + i] = rest[i]
    BY <1>6, Zenon DEF Holds
  <1>8. m[1] = a /\ m[2] = b /\ m[3] = c /\ m[4] = hostType
    <2>1. m[1] = front[1] /\ m[2] = front[2] /\ m[3] = front[3] /\ m[4] = front[4]
      BY <1>7
    <2>. QED BY <1>2, <2>1, Zenon
  <1>9. /\ HostLast(m) = 4 + k
        /\ hostType = SocksDomainHost => m[5] = Len(host)
        /\ HostBytes(m) = host /\ PortAfter(m, HostLast(m)) = port
    <2>1. Located(m, hostType, host, port, k)
      BY <1>6, <1>8, Found, ZenonT(60)
    <2>. QED BY <2>1, Zenon DEF Located
  <1> HIDE DEF k
  <1>10. HostLast(m) + 2 = 6 + k /\ HostLast(m) \in Nat
    BY <1>1, <1>9
  <1>. QED BY <1>7, <1>8, <1>9, <1>10, Zenon DEF Reads, n, front

LEMMA Written ==
    ASSUME NEW d \in SocksMessage
    PROVE  /\ d = [flag |-> d.flag, hostType |-> d.hostType,
                   host |-> d.host, port |-> d.port]
           /\ d.flag \in Byte /\ d.hostType \in HostTypes /\ d.host \in Seq(Byte)
           /\ d.port \in Uint16 /\ Fits(d.host, d.hostType)
  <1>1. /\ d \in [flag: Byte, hostType: HostTypes, host: Seq(Byte), port: Uint16]
        /\ Fits(d.host, d.hostType)
    BY Zenon DEF SocksMessage
  <1>. QED BY <1>1

LEMMA NoBytes == <<>> \in Seq(Byte)
  OBVIOUS

LEMMA ByteOverflow ==
    ASSUME NEW n \in Nat, n <= 255
    PROVE  1 <= (1 + n) % 256 <=> n # 255
  OBVIOUS

\* The name whose length is as large as a byte can be.
LongName(hostType, host) == hostType = SocksDomainHost /\ Len(host) = 255

LEMMA NameRange ==
    ASSUME NEW hostType, NEW host \in Seq(Byte), Fits(host, hostType), NEW m,
           m[4] = hostType, hostType = SocksDomainHost => m[5] = Len(host)
    PROVE  NameInRange(m) <=> ~LongName(hostType, host)
  <1>1. CASE hostType = SocksDomainHost
    <2>1. Len(host) \in Nat /\ Len(host) <= 255
      BY <1>1, SomeLength, Zenon DEF Fits
    <2>2. 1 <= (1 + Len(host)) % 256 <=> Len(host) # 255
      BY <2>1, ByteOverflow, Zenon
    <2>. QED BY <1>1, <2>2, Zenon DEF NameInRange, NameEnd, LongName
  <1>2. CASE hostType # SocksDomainHost
    BY <1>2, Zenon DEF NameInRange, LongName
  <1>. QED BY <1>1, <1>2, Zenon

LEMMA HostPlace ==
    ASSUME NEW hostType \in HostTypes, NEW host \in Seq(Byte),
           NEW m, m[4] = hostType,
           hostType = SocksDomainHost => m[5] = Len(host)
    PROVE  /\ HostFirst(m) \in Nat /\ HostLast(m) \in Nat
           /\ HostFirst(m) - 1 <= HostLast(m) /\ 4 <= HostLast(m)
           /\ hostType = SocksDomainHost => HostLast(m) = 5 + Len(host)
           /\ hostType # SocksDomainHost => HostLast(m) >= 8
  <1>1. Len(host) \in Nat
    BY SomeLength, Zenon
  <1>2. CASE hostType = SocksDomainHost
    <2>1. HostFirst(m) = 6 /\ HostLength(m) = Len(host)
      BY <1>2, Zenon DEF HostFirst, HostLength
    <2>. QED BY <1>1, <1>2, <2>1 DEF HostLast
  <1>3. CASE hostType # SocksDomainHost
    <2>1. HostFirst(m) = 5 /\ HostLength(m) \in {4, 16}
      BY <1>3 DEF HostFirst, HostLength
    <2>. QED BY <1>3, <2>1 DEF HostLast
  <1>. QED BY <1>2, <1>3, Zenon

\* The host of a message that has arrived in full.
LEMMA HostRead ==
    ASSUME NEW hostType \in HostTypes, NEW host \in Seq(Byte),
           Fits(host, hostType), NEW m, m[4] = hostType,
           hostType = SocksDomainHost => m[5] = Len(host),
           HostBytes(m) = host, Len(m) \in Nat, HostLast(m) <= Len(m)
    PROVE  readSocksHost(m) =
              IF LongName(hostType, host) THEN Panicked ELSE Read(host)
  <1>1. HostFirst(m) - 1 <= HostLast(m) /\ HostLast(m) \in Nat
        /\ HostFirst(m) \in Nat
    BY HostPlace, Zenon
  <1>2. ~(Len(m) < HostFirst(m) - 1) /\ ~(Len(m) < HostLast(m))
    BY <1>1
  <1>3. NameInRange(m) <=> ~LongName(hostType, host)
    BY NameRange, Zenon
  <1>. QED BY <1>2, <1>3, Zenon DEF readSocksHost

\* What is written is read, whatever follows it on the connection, but for a name
\* of 255 bytes: where it ends is computed in one byte, and the reader panics
\* (writeSocksComm and readSocksComm, basic.go:168-181, 235-286).
THEOREM ReadsWritten ==
    ASSUME NEW d \in SocksMessage, NEW m, Begins(m, writeSocksComm(d))
    PROVE  readSocksComm(m) =
              IF LongName(d.hostType, d.host) THEN Panicked ELSE Read(d)
  <1> DEFINE flag == d.flag
             hostType == d.hostType
             host == d.host
             port == d.port
             rest == <<>>
             w == Message(<<SocksVersion, flag, SocksReserved, hostType>>,
                          host, port, rest)
  <1>1. /\ hostType \in HostTypes /\ host \in Seq(Byte)
        /\ port \in Uint16 /\ Fits(host, hostType)
        /\ d = [flag |-> flag, hostType |-> hostType, host |-> host,
                port |-> port]
    BY Written, Zenon
  <1>2. rest \in Seq(Byte)
    BY NoBytes, Zenon
  <1>3. Begins(m, w)
    BY Zenon DEF writeSocksComm
  <1>4. Len(rest) = 0
    OBVIOUS
  <1> HIDE DEF flag, hostType, host, port, rest
  <1>5. Reads(m, SocksVersion, flag, SocksReserved, hostType, host, port, rest,
              Len(w))
    BY <1>1, <1>2, <1>3, Carried, Zenon
  <1>6. Len(m) \in Nat /\ Len(w) <= Len(m)
    BY <1>3, Zenon DEF Begins
  <1> HIDE DEF w
  <1>7. /\ Len(w) = HostLast(m) + 2 + Len(rest) /\ HostLast(m) \in Nat
        /\ m[1] = SocksVersion /\ m[2] = flag /\ m[4] = hostType
        /\ hostType = SocksDomainHost => m[5] = Len(host)
        /\ HostBytes(m) = host /\ PortAfter(m, HostLast(m)) = port
    BY <1>5, Zenon DEF Reads
  <1>8. HostLast(m) <= Len(m) /\ ~(Len(m) < HostLast(m) + 2)
    BY <1>4, <1>6, <1>7
  <1>9. readSocksHost(m) =
           IF LongName(hostType, host) THEN Panicked ELSE Read(host)
    BY <1>1, <1>6, <1>7, <1>8, HostRead, Zenon
  <1>10. ~(Len(m) < 4)
    <2>1. HostLast(m) + 2 >= 4
      <3>1. 4 <= HostLast(m)
        BY <1>1, <1>7, HostPlace, Zenon
      <3>. QED BY <1>7, <3>1
    <2>. QED BY <1>4, <1>6, <1>7, <2>1
  <1>11. CASE LongName(hostType, host)
    <2>1. readSocksHost(m) = Panicked /\ Panicked.end # "read"
      BY <1>9, <1>11 DEF Panicked
    <2>2. readSocksComm(m) = Panicked
      BY <1>7, <1>10, <2>1, Zenon DEF readSocksComm
    <2>. QED BY <1>11, <2>2, Zenon DEF hostType, host
  <1>12. CASE ~LongName(hostType, host)
    <2>1. readSocksHost(m) = Read(host)
      BY <1>9, <1>12, Zenon
    <2>2. Read(host).end = "read" /\ Read(host).data = host
      BY DEF Read
    <2>3. readSocksComm(m) =
             Read([flag |-> flag, hostType |-> hostType, host |-> host,
                   port |-> port])
      BY <1>7, <1>8, <1>10, <2>1, <2>2, Zenon DEF readSocksComm
    <2>4. readSocksComm(m) = Read(d)
      BY <1>1, <2>3, Zenon
    <2>. QED BY <1>12, <2>4, Zenon DEF hostType, host
  <1>. QED BY <1>11, <1>12, Zenon

LEMMA MessageLength ==
    ASSUME NEW front, NEW host, NEW port, NEW rest, Len(rest) \in Nat,
           Len(packSocksHost(front[4], host)) \in Nat
    PROVE  Len(Message(front, host, port, rest)) \in Nat
  <1> DEFINE h == packSocksHost(front[4], host)
             k == Len(h)
             bytes == Htons(port)
  <1>1. Message(front, host, port, rest) =
           [i \in 1 .. 6 + k + Len(rest) |->
               IF i <= 4 THEN front[i]
               ELSE IF i <= 4 + k THEN h[i - 4]
               ELSE IF i <= 6 + k THEN bytes[i - 4 - k]
               ELSE rest[i - 6 - k]]
    BY Zenon DEF Message
  <1> HIDE DEF h, bytes, k
  <1>2. k \in Nat
    BY Zenon DEF k, h
  <1>3. 6 + k + Len(rest) \in Nat
    BY <1>2
  <1>. QED BY <1>1, <1>3

\* What a packed datagram holds.
LEMMA PackedFound ==
    ASSUME NEW u \in UDPRequest, NEW m, m = PackUDPRequest(u)
    PROVE  /\ u = [frag |-> u.frag, hostType |-> u.hostType, host |-> u.host,
                   port |-> u.port, data |-> u.data]
           /\ u.hostType \in HostTypes /\ u.host \in Seq(Byte)
           /\ Fits(u.host, u.hostType) /\ u.data \in Seq(Byte)
           /\ Len(m) = HostLast(m) + 2 + Len(u.data) /\ HostLast(m) \in Nat
           /\ m[3] = u.frag /\ m[4] = u.hostType
           /\ u.hostType = SocksDomainHost => m[5] = Len(u.host)
           /\ HostBytes(m) = u.host /\ PortAfter(m, HostLast(m)) = u.port
           /\ \A i \in 1 .. Len(u.data) : m[HostLast(m) + 2 + i] = u.data[i]
  <1>1. /\ u = [frag |-> u.frag, hostType |-> u.hostType, host |-> u.host,
                port |-> u.port, data |-> u.data]
        /\ u.frag \in Byte /\ u.hostType \in HostTypes /\ u.host \in Seq(Byte)
        /\ u.port \in Uint16 /\ u.data \in Seq(Byte)
        /\ Fits(u.host, u.hostType)
    <2>1. /\ u \in [frag: Byte, hostType: HostTypes, host: Seq(Byte),
                     port: Uint16, data: Seq(Byte)]
          /\ Fits(u.host, u.hostType)
      BY Zenon DEF UDPRequest
    <2>. QED BY <2>1
  <1> DEFINE frag == u.frag
             hostType == u.hostType
             host == u.host
             port == u.port
             data == u.data
             front == <<SocksReserved, SocksReserved, frag, hostType>>
  <1>2. /\ hostType \in HostTypes /\ host \in Seq(Byte) /\ data \in Seq(Byte)
        /\ port \in Uint16 /\ Fits(host, hostType)
    BY <1>1, Zenon
  <1>3. m = Message(front, host, port, data)
    BY Zenon DEF PackUDPRequest
  <1> HIDE DEF frag, hostType, host, port, data
  <1>4. Len(m) \in Nat
    <2>1. Len(packSocksHost(front[4], host)) \in Nat
      <3>1. front[4] = hostType
        BY Four, Zenon
      <3>. QED BY <1>2, <3>1, PackedLength, Zenon
    <2>2. Len(data) \in Nat
      BY <1>2, SomeLength, Zenon
    <2>. QED BY <1>3, <2>1, <2>2, MessageLength, Zenon
  <1>5. Begins(m, Message(front, host, port, data))
    <2>1. Len(m) <= Len(m)
      BY <1>4
    <2>. QED BY <1>3, <1>4, <2>1, Zenon DEF Begins
  <1>6. Reads(m, SocksReserved, SocksReserved, frag, hostType, host, port, data,
              Len(Message(front, host, port, data)))
    BY <1>2, <1>5, Carried, Zenon
  <1>7. Reads(m, SocksReserved, SocksReserved, frag, hostType, host, port, data,
              Len(m))
    BY <1>3, <1>6, Zenon
  <1>8. /\ Len(m) = HostLast(m) + 2 + Len(data) /\ HostLast(m) \in Nat
        /\ m[3] = frag /\ m[4] = hostType
        /\ hostType = SocksDomainHost => m[5] = Len(host)
        /\ HostBytes(m) = host /\ PortAfter(m, HostLast(m)) = port
        /\ \A i \in 1 .. Len(data) : m[HostLast(m) + 2 + i] = data[i]
    BY <1>7, Zenon DEF Reads
  <1>. QED BY <1>1, <1>8, Zenon DEF frag, hostType, host, port, data

\* A datagram that was packed is parsed into what was packed, but for two: one of
\* a name and data of a byte together, or less, is refused as too short, and one
\* with a name of 255 bytes makes the reader panic (PackUDPRequest and
\* ParseUDPRequest, basic.go:168-181, 324-363).
THEOREM ParsesPacked ==
    ASSUME NEW u \in UDPRequest
    PROVE  ParseUDPRequest(PackUDPRequest(u)) =
              IF u.hostType = SocksDomainHost /\ Len(u.host) + Len(u.data) <= 1
              THEN Failed
              ELSE IF LongName(u.hostType, u.host) THEN Panicked ELSE Read(u)
  <1> DEFINE m == PackUDPRequest(u)
             hostType == u.hostType
             host == u.host
             data == u.data
  <1>1. /\ u = [frag |-> u.frag, hostType |-> hostType, host |-> host,
                port |-> u.port, data |-> data]
        /\ hostType \in HostTypes /\ host \in Seq(Byte)
        /\ Fits(host, hostType) /\ data \in Seq(Byte)
        /\ Len(m) = HostLast(m) + 2 + Len(data) /\ HostLast(m) \in Nat
        /\ m[3] = u.frag /\ m[4] = hostType
        /\ hostType = SocksDomainHost => m[5] = Len(host)
        /\ HostBytes(m) = host /\ PortAfter(m, HostLast(m)) = u.port
        /\ \A i \in 1 .. Len(data) : m[HostLast(m) + 2 + i] = data[i]
    BY PackedFound, Zenon
  <1> HIDE DEF m, hostType, host, data
  <1>2. /\ Len(host) \in Nat /\ Len(data) \in Nat
        /\ data = [i \in 1 .. Len(data) |-> data[i]]
    BY <1>1, SomeLength, Zenon
  <1> DEFINE Short == hostType = SocksDomainHost /\ Len(host) + Len(data) <= 1
  <1>3. Len(m) <= 8 <=> Short
    <2>1. /\ hostType = SocksDomainHost => HostLast(m) = 5 + Len(host)
          /\ hostType # SocksDomainHost => HostLast(m) >= 8
      BY <1>1, HostPlace, Zenon
    <2>. QED BY <1>1, <1>2, <2>1
  <1> HIDE DEF Short
  <1>4. Len(m) \in Nat /\ HostLast(m) <= Len(m)
    BY <1>1, <1>2
  <1>5. readSocksHost(m) =
           IF LongName(hostType, host) THEN Panicked ELSE Read(host)
    BY <1>1, <1>4, HostRead, ZenonT(40)
  <1>6. CASE Short
    <2>1. ParseUDPRequest(m) = Failed
      BY <1>3, <1>6, Zenon DEF ParseUDPRequest
    <2>. QED BY <1>6, <2>1, Zenon DEF Short, m, hostType, host, data
  <1>7. CASE ~Short /\ LongName(hostType, host)
    <2>1. readSocksHost(m).end = "panic"
      BY <1>5, <1>7 DEF Panicked
    <2>2. ParseUDPRequest(m) = Panicked
      BY <1>3, <1>7, <2>1, Zenon DEF ParseUDPRequest
    <2>. QED BY <1>7, <2>2, Zenon DEF Short, m, hostType, host, data
  <1>8. CASE ~Short /\ ~LongName(hostType, host)
    <2>1. readSocksHost(m) = Read(host)
      BY <1>5, <1>8, Zenon
    <2>2. /\ readSocksHost(m).end = "read" /\ readSocksHost(m).end # "panic"
          /\ readSocksHost(m).data = host
      BY <2>1 DEF Read
    <2>3. HostTaken(m) = HostLast(m)
      BY <2>2, Zenon DEF HostTaken
    <2>4. /\ HostLast(m) + 2 <= Len(m)
          /\ Len(m) - (HostLast(m) + 2) = Len(data)
      BY <1>1, <1>2
    <2>5. [i \in 1 .. Len(data) |-> m[HostLast(m) + 2 + i]] = data
      <3>1. [i \in 1 .. Len(data) |-> m[HostLast(m) + 2 + i]]
               = [i \in 1 .. Len(data) |-> data[i]]
        BY <1>1, Zenon
      <3>. QED BY <1>2, <3>1, Zenon
    <2>6. ParseUDPRequest(m) =
             Read([frag |-> u.frag, hostType |-> hostType, host |-> host,
                   port |-> u.port, data |-> data])
      BY <1>1, <1>3, <1>8, <2>2, <2>3, <2>4, <2>5, Zenon DEF ParseUDPRequest
    <2>7. ParseUDPRequest(m) = Read(u)
      BY <1>1, <2>6, Zenon
    <2>. QED BY <1>8, <2>7, Zenon DEF Short, m, hostType, host, data
  <1>. QED BY <1>6, <1>7, <1>8, Zenon

LEMMA HelloByte ==
    ASSUME NEW methods, NEW i \in 0 .. smallBufSize - 1
    PROVE  Hello(methods)[i] = IF i = 0 THEN SocksVersion
                               ELSE IF i = 1 THEN Len(methods)
                               ELSE IF i - 1 <= Len(methods) THEN methods[i - 1]
                               ELSE 0
  BY Zenon DEF Hello

\* The byte behind the methods that were read.
LEMMA Behind ==
    ASSUME NEW methods, NEW n \in Nat, n = Len(methods), 0 < n, n < 256
    PROVE  /\ Hello(methods)[1] = n /\ Hello(methods)[n + 2] = 0
           /\ n - 1 \in 0 .. n - 1 /\ (n - 1) + 3 = n + 2
  <1>1. smallBufSize \in Nat /\ smallBufSize > 300
    BY DEF smallBufSize
  <1>2. 1 \in 0 .. smallBufSize - 1 /\ n + 2 \in 0 .. smallBufSize - 1
    BY <1>1
  <1>3. Hello(methods)[1] = n
    <2>1. Hello(methods)[1] = IF 1 = 0 THEN SocksVersion
                              ELSE IF 1 = 1 THEN Len(methods)
                              ELSE IF 1 - 1 <= Len(methods) THEN methods[1 - 1]
                              ELSE 0
      BY <1>2, HelloByte, Zenon
    <2>. QED BY <2>1
  <1>4. Hello(methods)[n + 2] = 0
    <2>1. ~(n + 2 = 0) /\ ~(n + 2 = 1) /\ ~((n + 2) - 1 <= n)
      OBVIOUS
    <2>. QED BY <1>2, <2>1, HelloByte, Zenon
  <1>5. n - 1 \in 0 .. n - 1 /\ (n - 1) + 3 = n + 2
    OBVIOUS
  <1>. QED BY <1>3, <1>4, <1>5, Zenon

\* A client that claims any method at all is told that it need not authenticate:
\* the byte behind the last method is looked at too (server.go:167-173).
THEOREM AnyMethodWillDo ==
    ASSUME NEW methods, Len(methods) \in Nat,
           0 < Len(methods), Len(methods) < 256
    PROVE  ServerAuthenticate(Hello(methods)) = SocksNoAuthentication
  <1> DEFINE h == Hello(methods)
             n == Len(methods)
  <1>1. h[1] = n /\ h[n + 2] = 0 /\ n - 1 \in 0 .. n - 1 /\ (n - 1) + 3 = n + 2
    BY Behind, Zenon
  <1> HIDE DEF h, n
  <1>2. \E i \in 0 .. h[1] - 1 : h[i + 3] = 0
    BY <1>1
  <1>3. MethodFound(h)
    BY <1>2 DEF MethodFound, SocksNoAuthentication
  <1>. QED BY <1>3, Zenon DEF ServerAuthenticate, h
=============================================================================
