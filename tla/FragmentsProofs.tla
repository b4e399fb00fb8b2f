----------------------------- MODULE FragmentsProofs -----------------------------
(* What responsePacket and genFragments make of a response, for every MTU   *)
(* and every length.                                                       *)
EXTENDS Fragments, TLAPS

\* What dividing by the capacity of a packet, rounding up, gives.
LEMMA RoundUp ==
    ASSUME NEW c \in Nat \ {0}, NEW l \in Nat
    PROVE  LET q == (l + c - 1) \div c IN
           q \in Int /\ c * q <= l + c - 1 /\ l + c - 1 < c * q + c
  BY SMT

\* The packets of a response are its pieces in order: the first starts at 0,
\* each of the others where the one before ends, and the last ends at the end.
THEOREM Pieces ==
    ASSUME NEW ipid, NEW length \in Nat, length >= UDPHeader
    PROVE  /\ Packets(length) \in Nat \ {0}
           /\ Fragment(ipid, length, 0).from = 0
           /\ \A n \in 0 .. Packets(length) - 2 :
                 Fragment(ipid, length, n).to = Fragment(ipid, length, n + 1).from
           /\ Fragment(ipid, length, Packets(length) - 1).to = length
  <1> DEFINE count == Packets(length)
             piece(n) == Fragment(ipid, length, n)
  <1> USE MTUAssumption DEF Capacity, IPHeader, UDPHeader
  <1>1. Capacity \in Nat \ {0}
    OBVIOUS
  <1>2. CASE ~Fragmented(length)
    BY <1>2 DEF Packets, Fragmented, Fragment
  <1>3. CASE Fragmented(length)
    <2>1. count = (length + Capacity - 1) \div Capacity
      BY <1>3 DEF Packets
    <2>2. /\ count \in Int
          /\ Capacity * count <= length + Capacity - 1
          /\ length + Capacity - 1 < Capacity * count + Capacity
      BY <1>1, <2>1, RoundUp
    <2>. QED BY <2>2 DEF Fragment
  <1>. QED BY <1>2, <1>3

\* Each begins where the one before ends.
LEMMA Adjoining ==
    ASSUME NEW ipid, NEW length \in Nat, length >= UDPHeader,
           NEW n \in 0 .. Packets(length) - 2
    PROVE  Fragment(ipid, length, n).to = Fragment(ipid, length, n + 1).from
  <1>1. \A k \in 0 .. Packets(length) - 2 :
           Fragment(ipid, length, k).to = Fragment(ipid, length, k + 1).from
    BY Pieces
  <1>. QED BY <1>1

\* There is at least one.
LEMMA Counted ==
    ASSUME NEW length \in Nat, length >= UDPHeader
    PROVE  Packets(length) \in Nat \ {0}
  <1>1. \A ipid : Packets(length) \in Nat \ {0}
    BY Pieces
  <1>. QED BY <1>1

\* Each is as much as a packet takes, but for the last, which has what is left
\* and at least one byte; the last and no other says that none follows.
THEOREM Cut ==
    ASSUME NEW ipid, NEW length \in Nat, length >= UDPHeader,
           NEW n \in 0 .. Packets(length) - 1
    PROVE  LET piece == Fragment(ipid, length, n) IN
           /\ piece.id = ipid
           /\ piece.to - piece.from \in 1 .. Capacity
           /\ piece.more => piece.to - piece.from = Capacity
           /\ piece.more <=> n < Packets(length) - 1
  <1> DEFINE count == Packets(length)
             before == n * Capacity
             piece == Fragment(ipid, length, n)
  <1> USE MTUAssumption DEF Capacity, IPHeader, UDPHeader
  <1>1. Capacity \in Nat \ {0}
    OBVIOUS
  <1>2. /\ n \in Nat /\ before \in Nat /\ before < length
        /\ (n + 1) * Capacity = before + Capacity
        /\ before + Capacity < length <=> n < count - 1
    <2>1. CASE ~Fragmented(length)
      <3>1. count = 1 /\ n = 0 /\ length <= Capacity
        BY <2>1 DEF Packets, Fragmented
      <3>. QED BY <1>1, <3>1
    <2>2. CASE Fragmented(length)
      <3>1. count = (length + Capacity - 1) \div Capacity
        BY <2>2 DEF Packets
      <3>2. /\ count \in Int
            /\ Capacity * count <= length + Capacity - 1
            /\ length + Capacity - 1 < Capacity * count + Capacity
        BY <1>1, <3>1, RoundUp
      <3>3. n \in Nat /\ n <= count - 1
        BY <3>2
      <3>4. before \in Nat /\ (n + 1) * Capacity = before + Capacity
        BY <1>1, <3>3
      <3>5. before < length
        BY <1>1, <3>2, <3>3
      <3>6. before + Capacity < length <=> n < count - 1
        BY <1>1, <3>2, <3>3
      <3>. QED BY <3>3, <3>4, <3>5, <3>6
    <2>. QED BY <2>1, <2>2
  <1>3. /\ piece.id = ipid /\ piece.from = before
        /\ piece.to = IF length <= before + Capacity THEN length
                      ELSE before + Capacity
        /\ piece.more <=> length > before + Capacity
    BY <1>2 DEF Fragment
  <1> HIDE DEF count, before, piece
  <1>4. /\ piece.id = ipid
        /\ piece.to - piece.from \in 1 .. Capacity
        /\ piece.more => piece.to - piece.from = Capacity
        /\ piece.more <=> n < count - 1
    BY <1>1, <1>2, <1>3
  <1>. QED BY <1>4 DEF piece, count

LEMMA Divide ==
    ASSUME NEW c \in Nat
    PROVE  c \div 8 \in Nat /\ c % 8 \in 0 .. 7 /\ c = 8 * (c \div 8) + (c % 8)
  BY SMT

LEMMA PacketRecord ==
    ASSUME NEW Id, NEW i \in Id, NEW o \in Nat, NEW f \in Nat, NEW t \in Nat,
           NEW m \in BOOLEAN
    PROVE  [id |-> i, offset |-> o, from |-> f, to |-> t, more |-> m]
              \in [id: Id, offset: Nat, from: Nat, to: Nat, more: BOOLEAN]
  BY SMT

LEMMA FragmentType ==
    ASSUME NEW Id, NEW ipid \in Id, NEW length \in Nat, NEW n \in Nat
    PROVE  Fragment(ipid, length, n)
              \in [id: Id, offset: Nat, from: Nat, to: Nat, more: BOOLEAN]
  <1> DEFINE o == n * OffsetStep
             f == n * Capacity
             e == (n + 1) * Capacity
             t == IF length <= e THEN length ELSE e
             m == length > e
  <1>1. Capacity \in Nat /\ OffsetStep \in Nat
    BY MTUAssumption, Divide DEF Capacity, OffsetStep, IPHeader
  <1>2. o \in Nat /\ f \in Nat /\ e \in Nat
    BY <1>1
  <1>3. t \in Nat /\ m \in BOOLEAN
    BY <1>2
  <1>4. Fragment(ipid, length, n)
          = [id |-> ipid, offset |-> o, from |-> f, to |-> t, more |-> m]
    BY DEF Fragment
  <1> HIDE DEF o, f, e, t, m
  <1>5. [id |-> ipid, offset |-> o, from |-> f, to |-> t, more |-> m]
           \in [id: Id, offset: Nat, from: Nat, to: Nat, more: BOOLEAN]
    BY <1>2, <1>3, PacketRecord, Zenon
  <1>. QED BY <1>4, <1>5

LEMMA Distribute ==
    ASSUME NEW n \in Nat, NEW q \in Nat, NEW r \in Nat
    PROVE  n * (8 * q + r) = 8 * (n * q) + n * r /\ n * q \in Nat
  BY SMT

\* The offset in the header of a packet is that of its piece if what a packet
\* takes is a multiple of 8; otherwise that of every packet but the first is too
\* low, as with the MTU of 15000 the code has (tun2socks.go:15, ip.go:70).
THEOREM Offsets ==
    ASSUME NEW ipid, NEW length \in Nat, NEW n \in Nat
    PROVE  LET piece == Fragment(ipid, length, n) IN
           /\ (MTU - 20) % 8 = 0 => 8 * piece.offset = piece.from
           /\ (MTU - 20) % 8 # 0 /\ n > 0 => 8 * piece.offset < piece.from
  <1> DEFINE c == MTU - 20
             q == c \div 8
             r == c % 8
  <1>1. c \in Nat
    BY MTUAssumption
  <1>2. /\ Fragment(ipid, length, n).offset = n * q
        /\ Fragment(ipid, length, n).from = n * c
    BY DEF Fragment, Capacity, OffsetStep, IPHeader
  <1>3. q \in Nat /\ r \in 0 .. 7 /\ c = 8 * q + r
    BY <1>1, Divide
  <1> HIDE DEF c, q, r
  <1>4. n * c = 8 * (n * q) + n * r /\ n * q \in Nat
    BY <1>3, Distribute
  <1>5. r = 0 => n * r = 0
    BY <1>3
  <1>6. n > 0 /\ r # 0 => n * r > 0
    BY <1>3
  <1>7. n * r \in Nat
    BY <1>3
  <1>8. /\ r = 0 => 8 * (n * q) = n * c
        /\ r # 0 /\ n > 0 => 8 * (n * q) < n * c
    BY <1>4, <1>5, <1>6, <1>7
  <1>. QED BY <1>2, <1>8 DEF r, c

\* The packets begin in order.
LEMMA Ordered ==
    ASSUME NEW ipid, NEW length, NEW n \in Nat, NEW k \in Nat, n < k
    PROVE  Fragment(ipid, length, n).from < Fragment(ipid, length, k).from
  <1>1. Capacity \in Nat \ {0}
    BY MTUAssumption DEF Capacity, IPHeader
  <1>2. ASSUME NEW c \in Nat \ {0} PROVE n * c < k * c
    OBVIOUS
  <1>. QED BY <1>1, <1>2 DEF Fragment
=============================================================================
