------------------------- MODULE ChannelSend_proofs -------------------------
(***************************************************************************)
(* For any channels, packet sizes, window limits and numbers of bytes: what *)
(* send_buffered_bundle gives the socket is the stream of the bytes written,*)
(* and each channel implements ByteStream.                                  *)
(*                                                                         *)
(* The argument is about one bundle: its packets q, the peer's next byte w  *)
(* and the number n of bytes written.  Each write and each tick turns such  *)
(* a triple into another; what the other channels do is beside the point,   *)
(* as only the hold-back flag is shared and no invariant speaks of it.      *)
(***************************************************************************)
EXTENDS ChannelSend, TLAPS

\* The packets of a bundle have bytes.
Packets(q) ==
  /\ q \in Seq(Packet)
  /\ \A i \in 1..Len(q) : q[i].lo < q[i].hi /\ (i > 1 => q[i].off = 0)

\* They are the bytes from w up to n, in order.
Holding(q, w, n) ==
  /\ w \in Nat /\ n \in Nat /\ w <= n
  /\ Chain(q, w)
  /\ q = <<>> => w = n
  /\ q # <<>> => q[Len(q)].hi = n
  /\ \A i \in 1..Len(q) : w <= q[i].lo /\ q[i].hi <= n
  /\ \A i, j \in 1..Len(q) : i < j => q[i].hi <= q[j].lo

-----------------------------------------------------------------------------
(* One bundle.                                                              *)

\* The fields of a packet.
LEMMA Fields ==
  ASSUME NEW q \in Seq(Packet), NEW i \in 1..Len(q)
  PROVE  /\ q[i] \in Packet
         /\ q[i].lo \in Nat /\ q[i].hi \in Nat /\ q[i].off \in Nat
         /\ q[i].chained \in BOOLEAN
<1>1. q[i] \in Packet
  OBVIOUS
<1> QED
  BY <1>1 DEF Packet

\* A new packet continues the stream.
LEMMA FreshPacket ==
  ASSUME NEW q, Packets(q), NEW n \in Nat, NEW k \in Nat, k > 0
  PROVE  LET p == [lo |-> n, hi |-> n + k, off |-> 0, chained |-> FALSE]
         IN  /\ Packets(Append(q, p))
             /\ Append(q, p) # <<>>
             /\ \A w : Holding(q, w, n) => Holding(Append(q, p), w, n + k)
<1> DEFINE p == [lo |-> n, hi |-> n + k, off |-> 0, chained |-> FALSE]
           r == Append(q, p)
<1>1. p \in Packet /\ p.lo = n /\ p.hi = n + k /\ p.off = 0
  BY DEF Packet
<1> HIDE DEF p
<1>2. q \in Seq(Packet)
  BY DEF Packets
<1>3. /\ r \in Seq(Packet) /\ r # <<>> /\ Len(r) = Len(q) + 1 /\ Len(q) \in Nat
      /\ r[Len(q) + 1] = p
      /\ \A i \in 1..Len(q) : r[i] = q[i]
  BY <1>1, <1>2
<1> HIDE DEF r
<1>4. Packets(r)
  <2> SUFFICES ASSUME NEW i \in 1..Len(r)
               PROVE  r[i].lo < r[i].hi /\ (i > 1 => r[i].off = 0)
    BY <1>3 DEF Packets
  <2>1. CASE i = Len(q) + 1
    BY <1>1, <1>3, <2>1
  <2>2. CASE i \in 1..Len(q)
    BY <1>3, <2>2 DEF Packets
  <2> QED
    BY <1>3, <2>1, <2>2
<1>5. ASSUME NEW w, Holding(q, w, n)
      PROVE  Holding(r, w, n + k)
  <2>1. w \in Nat /\ w <= n
    BY <1>5 DEF Holding
  <2>2. r[1].lo = w
    <3>1. CASE q = <<>>
      BY <1>1, <1>3, <1>5, <3>1 DEF Holding
    <3>2. CASE q # <<>>
      BY <1>2, <1>3, <1>5, <3>2 DEF Holding, Chain
    <3> QED
      BY <3>1, <3>2
  <2>3. ASSUME NEW i \in 1..Len(r) - 1
        PROVE  r[i].hi = r[i + 1].lo
    <3>1. CASE i = Len(q)
      <4>1. q # <<>>
        BY <1>2, <2>3, <3>1
      <4> QED
        BY <1>1, <1>3, <1>5, <2>3, <3>1, <4>1 DEF Holding
    <3>2. CASE i # Len(q)
      <4>1. i \in 1..Len(q) - 1 /\ i \in 1..Len(q) /\ i + 1 \in 1..Len(q)
        BY <1>3, <2>3, <3>2
      <4> QED
        BY <1>3, <1>5, <4>1 DEF Holding, Chain
    <3> QED
      BY <3>1, <3>2
  <2>4. ASSUME NEW i \in 1..Len(r)
        PROVE  w <= r[i].lo /\ r[i].hi <= n + k
    <3>1. CASE i = Len(q) + 1
      BY <1>1, <1>3, <2>1, <3>1
    <3>2. CASE i \in 1..Len(q)
      BY <1>2, <1>3, <1>5, <3>2, Fields, SMTT(30) DEF Holding
    <3> QED
      BY <1>3, <3>1, <3>2
  <2>5. r[Len(r)].hi = n + k
    BY <1>1, <1>3
  <2>6. ASSUME NEW i \in 1..Len(r), NEW j \in 1..Len(r), i < j
        PROVE  r[i].hi <= r[j].lo
    <3>1. i \in 1..Len(q) /\ q[i].hi <= n
      BY <1>3, <1>5, <2>6 DEF Holding
    <3>2. CASE j = Len(q) + 1
      BY <1>1, <1>3, <3>1, <3>2
    <3>3. CASE j \in 1..Len(q)
      BY <1>3, <1>5, <2>6, <3>1, <3>3 DEF Holding
    <3> QED
      BY <1>3, <3>2, <3>3
  <2> QED
    BY <1>3, <2>1, <2>2, <2>3, <2>4, <2>5, <2>6 DEF Holding, Chain
<1> QED
  BY <1>3, <1>4, <1>5 DEF r, p

\* The last packet grows.
LEMMA GrownPacket ==
  ASSUME NEW q, Packets(q), q # <<>>, NEW k \in Nat
  PROVE  LET r == [q EXCEPT ![Len(q)].hi = @ + k]
         IN  /\ Packets(r)
             /\ r # <<>>
             /\ \A w, n : Holding(q, w, n) => Holding(r, w, n + k)
<1> DEFINE l == Len(q)
           p == [q[l] EXCEPT !.hi = @ + k]
           r == [q EXCEPT ![l].hi = @ + k]
<1>1. q \in Seq(Packet) /\ l \in Nat /\ l >= 1
  BY DEF Packets
<1>2. q[l] \in Packet /\ q[l].lo \in Nat /\ q[l].hi \in Nat
  BY <1>1, Fields
<1>3. p \in Packet /\ p.lo = q[l].lo /\ p.hi = q[l].hi + k /\ p.off = q[l].off
  BY <1>2 DEF Packet
<1>4. r = [q EXCEPT ![l] = p]
  BY <1>1
<1> HIDE DEF p, r
<1>5. /\ r \in Seq(Packet) /\ Len(r) = l /\ r # <<>>
      /\ r[l] = p
      /\ \A i \in 1..l : i # l => r[i] = q[i]
  BY <1>1, <1>3, <1>4
<1>6. \A i \in 1..l : /\ r[i].lo = q[i].lo /\ r[i].off = q[i].off
                      /\ r[i].hi = IF i = l THEN q[i].hi + k ELSE q[i].hi
  BY <1>3, <1>5
<1>7. Packets(r)
  <2> SUFFICES ASSUME NEW i \in 1..Len(r)
               PROVE  r[i].lo < r[i].hi /\ (i > 1 => r[i].off = 0)
    BY <1>5 DEF Packets
  <2>1. i \in 1..l
    BY <1>5
  <2>2. q[i].lo < q[i].hi /\ (i > 1 => q[i].off = 0) /\ q[i].lo \in Nat /\ q[i].hi \in Nat
    BY <1>1, <2>1, Fields DEF Packets
  <2> QED
    BY <1>6, <2>1, <2>2
<1>8. ASSUME NEW w, NEW n, Holding(q, w, n)
      PROVE  Holding(r, w, n + k)
  <2>1. w \in Nat /\ n \in Nat /\ w <= n /\ q[l].hi = n
    BY <1>8 DEF Holding
  <2>2. ASSUME NEW i \in 1..l - 1 PROVE r[i].hi = r[i + 1].lo
    <3>1. i \in 1..l /\ i + 1 \in 1..l /\ i # l
      BY <1>1, <2>2
    <3>2. q[i].hi = q[i + 1].lo
      BY <1>8, <2>2 DEF Holding, Chain
    <3> QED
      BY <1>6, <3>1, <3>2
  <2>3. r[1].lo = w
    BY <1>1, <1>6, <1>8 DEF Holding, Chain
  <2>4. ASSUME NEW i \in 1..l PROVE w <= r[i].lo /\ r[i].hi <= n + k
    <3>1. w <= q[i].lo /\ q[i].hi <= n /\ q[i].lo \in Nat /\ q[i].hi \in Nat
      BY <1>1, <1>8, Fields DEF Holding
    <3> QED
      BY <1>6, <2>1, <3>1, SMTT(30)
  <2>5. r[l].hi = n + k
    BY <1>1, <1>6, <2>1
  <2>6. ASSUME NEW i \in 1..l, NEW j \in 1..l, i < j
        PROVE  r[i].hi <= r[j].lo
    <3>1. i # l /\ q[i].hi <= q[j].lo
      BY <1>1, <1>8, <2>6 DEF Holding
    <3> QED
      BY <1>6, <3>1
  <2> QED
    BY <1>5, <2>1, <2>2, <2>3, <2>4, <2>5, <2>6 DEF Holding, Chain
<1> QED
  BY <1>5, <1>7, <1>8 DEF r

\* A block chained behind the last packet changes no packet.
LEMMA ChainedPacket ==
  ASSUME NEW q, Packets(q), q # <<>>
  PROVE  LET r == [q EXCEPT ![Len(q)].chained = TRUE]
         IN  Packets(r) /\ r # <<>>
<1> DEFINE l == Len(q)
           p == [q[l] EXCEPT !.chained = TRUE]
           r == [q EXCEPT ![l].chained = TRUE]
<1>1. q \in Seq(Packet) /\ l \in Nat /\ l >= 1
  BY DEF Packets
<1>2. q[l] \in Packet
  BY <1>1, Fields
<1>3. p \in Packet /\ p.lo = q[l].lo /\ p.hi = q[l].hi /\ p.off = q[l].off
  BY <1>2 DEF Packet
<1>4. r = [q EXCEPT ![l] = p]
  BY <1>1
<1> HIDE DEF p, r
<1>5. /\ r \in Seq(Packet) /\ Len(r) = l /\ r # <<>>
      /\ r[l] = p
      /\ \A i \in 1..l : i # l => r[i] = q[i]
  BY <1>1, <1>3, <1>4
<1>6. \A i \in 1..l : r[i].lo = q[i].lo /\ r[i].off = q[i].off /\ r[i].hi = q[i].hi
  BY <1>3, <1>5
<1>7. Packets(r)
  BY <1>5, <1>6 DEF Packets
<1> QED
  BY <1>5, <1>7 DEF r

-----------------------------------------------------------------------------
(* What a tick does to one bundle.                                          *)

\* Where the peer is after m whole packets and k bytes of the next.
End(q, w, m, k) ==
  IF k > 0 THEN q[m + 1].lo + k ELSE IF m > 0 THEN q[m].hi ELSE w

\* The packets the socket was given.
Given(q, m, k) == SubSeq(q, 1, IF k > 0 THEN m + 1 ELSE m)

\* What is left of q then.
After(q, m, k) ==
  [i \in 1..Len(q) - m |->
     IF i = 1 THEN [q[m + 1] EXCEPT !.lo = @ + k, !.off = @ + k]
     ELSE q[m + i]]

\* Wherever the peer is, it is at a byte.
LEMMA EndIsNat ==
  ASSUME NEW q \in Seq(Packet), NEW w \in Nat, NEW m \in 0..Len(q), NEW k \in Nat,
         k > 0 => m < Len(q)
  PROVE  End(q, w, m, k) \in Nat
<1>1. CASE k > 0
  <2>1. m + 1 \in 1..Len(q)
    BY <1>1
  <2>2. q[m + 1].lo \in Nat
    BY <2>1, Fields
  <2> QED
    BY <1>1, <2>2 DEF End
<1>2. CASE k = 0 /\ m > 0
  <2>1. m \in 1..Len(q)
    BY <1>2
  <2>2. q[m].hi \in Nat
    BY <2>1, Fields
  <2> QED
    BY <1>2, <2>2 DEF End
<1>3. CASE k = 0 /\ m = 0
  BY <1>3 DEF End
<1> QED
  BY <1>1, <1>2, <1>3

\* A beginning of the packets is in order.
LEMMA PrefixChain ==
  ASSUME NEW q \in Seq(Packet), NEW w, Chain(q, w), NEW m \in 0..Len(q)
  PROVE  Chain(SubSeq(q, 1, m), w)
<1> DEFINE r == SubSeq(q, 1, m)
<1>1. Len(r) = m /\ \A i \in 1..m : r[i] = q[i]
  OBVIOUS
<1> HIDE DEF r
<1>2. Len(r) > 0 => r[1].lo = w
  BY <1>1 DEF Chain
<1>3. ASSUME NEW i \in 1..Len(r) - 1 PROVE r[i].hi = r[i + 1].lo
  <2>1. i \in 1..Len(q) - 1 /\ i \in 1..m /\ i + 1 \in 1..m
    BY <1>1, <1>3
  <2> QED
    BY <1>1, <2>1 DEF Chain
<1> QED
  BY <1>2, <1>3 DEF Chain, r

\* What the socket takes is in order and leads it on, never past n.
LEMMA TakenInOrder ==
  ASSUME NEW q, Packets(q), NEW w, NEW n, Holding(q, w, n),
         NEW m \in 0..Len(q), NEW k \in Nat,
         k > 0 => m < Len(q) /\ k <= length(q[m + 1])
  PROVE  /\ Chain(Given(q, m, k), w)
         /\ End(q, w, m, k) \in Nat
         /\ w <= End(q, w, m, k) /\ End(q, w, m, k) <= n
<1>1. q \in Seq(Packet) /\ Len(q) \in Nat
  BY DEF Packets
<1>2. Chain(q, w) /\ w \in Nat /\ n \in Nat /\ w <= n
  BY DEF Holding
<1>3. Chain(Given(q, m, k), w)
  <2>1. (IF k > 0 THEN m + 1 ELSE m) \in 0..Len(q)
    BY <1>1
  <2> QED
    BY <1>1, <1>2, <2>1, PrefixChain DEF Given
<1>4. ASSUME NEW i \in 1..Len(q)
      PROVE  /\ q[i].lo \in Nat /\ q[i].hi \in Nat
             /\ w <= q[i].lo /\ q[i].lo < q[i].hi /\ q[i].hi <= n
  BY <1>1, <1>4, Fields DEF Packets, Holding
<1>5. CASE k > 0
  <2>1. m + 1 \in 1..Len(q) /\ k <= q[m + 1].hi - q[m + 1].lo
    BY <1>1, <1>5 DEF length
  <2>2. End(q, w, m, k) = q[m + 1].lo + k
    BY <1>5 DEF End
  <2> QED
    <3> DEFINE p == q[m + 1]
    <3>1. p.lo \in Nat /\ p.hi \in Nat /\ w <= p.lo /\ p.lo < p.hi /\ p.hi <= n
      BY <1>4, <2>1
    <3>2. k <= p.hi - p.lo /\ End(q, w, m, k) = p.lo + k
      BY <2>1, <2>2
    <3> HIDE DEF p
    <3> QED
      BY <1>2, <1>3, <1>5, <3>1, <3>2
<1>6. CASE k = 0 /\ m > 0
  <2>1. m \in 1..Len(q) /\ End(q, w, m, k) = q[m].hi
    BY <1>1, <1>6 DEF End
  <2> QED
    BY <1>2, <1>3, <1>4, <2>1
<1>7. CASE k = 0 /\ m = 0
  BY <1>2, <1>3, <1>7 DEF End
<1> QED
  BY <1>5, <1>6, <1>7

\* A full socket leaves a bundle that goes on where the peer is.
LEMMA BlockedBundle ==
  ASSUME NEW q, Packets(q), NEW m \in 0..Len(q) - 1, NEW k \in Nat,
         k < length(q[m + 1])
  PROVE  /\ Packets(After(q, m, k))
         /\ After(q, m, k) # <<>>
         /\ \A w, n : Holding(q, w, n) => Holding(After(q, m, k), End(q, w, m, k), n)
<1> DEFINE l == Len(q)
           r == After(q, m, k)
           p == [q[m + 1] EXCEPT !.lo = @ + k, !.off = @ + k]
<1>1. q \in Seq(Packet) /\ l \in Nat /\ m \in Nat /\ m < l /\ m + 1 \in 1..l
  BY DEF Packets
<1>2. /\ q[m + 1] \in Packet
      /\ q[m + 1].lo \in Nat /\ q[m + 1].hi \in Nat /\ q[m + 1].off \in Nat
  BY <1>1, Fields
<1>3. /\ p \in Packet /\ p.lo = q[m + 1].lo + k /\ p.hi = q[m + 1].hi
  <2> DEFINE f == [q[m + 1] EXCEPT !.lo = @ + k]
  <2>1. f \in Packet /\ f.lo = q[m + 1].lo + k /\ f.hi = q[m + 1].hi
    BY <1>2, SMTT(30) DEF Packet
  <2>2. p = [f EXCEPT !.off = @ + k]
    OBVIOUS
  <2> HIDE DEF f, p
  <2> QED
    BY <2>1, <2>2, SMTT(30) DEF Packet
<1>4. p.lo < p.hi
  BY <1>2, <1>3 DEF length
<1> HIDE DEF p
<1>5. ASSUME NEW i \in 1..l - m
      PROVE  (IF i = 1 THEN p ELSE q[m + i]) \in Packet
  <2>1. m + i \in 1..l
    BY <1>1
  <2> QED
    BY <1>1, <1>3, <2>1, Fields
<1>6. r = [i \in 1..l - m |-> IF i = 1 THEN p ELSE q[m + i]]
  BY DEF After, p
<1> HIDE DEF r
<1>7. r \in Seq(Packet) /\ Len(r) = l - m
  <2>1. l - m \in Nat
    BY <1>1
  <2> DEFINE f(i) == IF i = 1 THEN p ELSE q[m + i]
  <2>2. \A i \in 1..l - m : f(i) \in Packet
    BY <1>5
  <2>3. r = [i \in 1..l - m |-> f(i)]
    BY <1>6
  <2> HIDE DEF f
  <2> QED
    BY <2>1, <2>2, <2>3
<1>8. r[1] = p /\ \A i \in 1..l - m : i # 1 => r[i] = q[m + i]
  BY <1>1, <1>6
<1>9. r # <<>>
  BY <1>1, <1>7
<1>10. Packets(r)
  <2> SUFFICES ASSUME NEW i \in 1..Len(r)
               PROVE  r[i].lo < r[i].hi /\ (i > 1 => r[i].off = 0)
    BY <1>7 DEF Packets
  <2>1. CASE i = 1
    BY <1>4, <1>8, <2>1
  <2>2. CASE i # 1
    <3>1. i \in 1..l - m /\ m + i \in 1..l /\ m + i > 1
      BY <1>1, <1>7, <2>2
    <3> QED
      BY <1>8, <2>2, <3>1 DEF Packets
  <2> QED
    BY <2>1, <2>2
<1>11. ASSUME NEW w, NEW n, Holding(q, w, n)
       PROVE  Holding(r, End(q, w, m, k), n)
  <2> DEFINE e == End(q, w, m, k)
  <2>1. n \in Nat /\ w \in Nat /\ Chain(q, w)
    BY <1>11 DEF Holding
  <2>2. e \in Nat /\ e <= n
    <3>1. m \in 0..l /\ (k > 0 => m < l /\ k <= length(q[m + 1]))
      BY <1>1, <1>2 DEF length
    <3> QED
      BY <1>11, <3>1, TakenInOrder
  <2>3. p.lo = e
    <3>1. CASE k > 0
      BY <1>3, <3>1 DEF End
    <3>2. CASE k = 0 /\ m > 0
      <4>1. q[m].hi = q[m + 1].lo
        <5>1. m \in 1..Len(q) - 1
          BY <1>1, <3>2
        <5> QED
          BY <2>1, <5>1 DEF Chain
      <4> QED
        BY <1>2, <1>3, <3>2, <4>1 DEF End
    <3>3. CASE k = 0 /\ m = 0
      BY <1>1, <1>2, <1>3, <2>1, <3>3 DEF End, Chain
    <3> QED
      BY <1>1, <3>1, <3>2, <3>3
  <2> HIDE DEF e
  <2>4. \A i \in 1..l - m : r[i].hi = q[m + i].hi
    BY <1>1, <1>3, <1>8
  <2>5. ASSUME NEW i \in 1..Len(r) - 1 PROVE r[i].hi = r[i + 1].lo
    <3>1. i \in 1..l - m /\ i + 1 \in 1..l - m /\ i + 1 # 1 /\ m + i \in 1..Len(q) - 1
      BY <1>1, <1>7, <2>5
    <3>2. q[m + i].hi = q[(m + i) + 1].lo
      BY <2>1, <3>1 DEF Chain
    <3>3. m + (i + 1) = (m + i) + 1
      BY <1>1, <3>1
    <3> QED
      BY <1>8, <2>4, <3>1, <3>2, <3>3
  <2>6. r[Len(r)].hi = n
    <3>1. Len(r) \in 1..l - m /\ m + Len(r) = l /\ q # <<>>
      BY <1>1, <1>7
    <3> QED
      BY <1>11, <2>4, <3>1 DEF Holding
  <2>7. \A i \in 1..Len(q) : q[i].lo \in Nat /\ q[i].hi \in Nat /\ q[i].lo < q[i].hi
    BY <1>1, Fields DEF Packets
  <2>8. ASSUME NEW i \in 1..Len(r) PROVE e <= r[i].lo /\ r[i].hi <= n
    <3>1. i \in 1..l - m /\ m + i \in 1..l
      BY <1>1, <1>7
    <3>2. r[i].hi <= n
      BY <1>11, <2>4, <3>1 DEF Holding
    <3>3. CASE i = 1
      BY <1>8, <2>2, <2>3, <3>2, <3>3
    <3>4. CASE i # 1
      <4>1. r[i].lo = q[m + i].lo
        BY <1>8, <3>1, <3>4
      <4>2. q[m + 1].hi <= q[m + i].lo
        <5>1. m + 1 < m + i
          BY <1>1, <3>1, <3>4
        <5> QED
          BY <1>1, <1>11, <3>1, <5>1 DEF Holding
      <4>3. e <= q[m + 1].hi
        BY <1>2, <1>3, <1>4, <2>2, <2>3
      <4> QED
        BY <1>1, <1>2, <2>2, <2>7, <3>1, <3>2, <4>1, <4>2, <4>3, SMTT(30)
    <3> QED
      BY <3>3, <3>4
  <2>9. r[1].lo = e
    BY <1>8, <2>3
  <2>10. ASSUME NEW i \in 1..Len(r), NEW j \in 1..Len(r), i < j
         PROVE  r[i].hi <= r[j].lo
    <3>1. /\ i \in 1..l - m /\ j \in 1..l - m /\ j # 1
          /\ m + i \in 1..l /\ m + j \in 1..l /\ m + i < m + j
      BY <1>1, <1>7, <2>10
    <3>2. q[m + i].hi <= q[m + j].lo
      BY <1>11, <3>1 DEF Holding
    <3> QED
      BY <1>8, <2>4, <3>1, <3>2
  <2> QED
    BY <1>9, <2>1, <2>2, <2>5, <2>6, <2>8, <2>9, <2>10 DEF Holding, Chain, e
<1> QED
  BY <1>9, <1>10, <1>11 DEF r

\* A held bundle keeps its last packet.
LEMMA HeldBundle ==
  ASSUME NEW q, Packets(q), q # <<>>
  PROVE  /\ Packets(<<q[Len(q)]>>)
         /\ \A w, n : Holding(q, w, n) =>
                        Holding(<<q[Len(q)]>>, End(q, w, Len(q) - 1, 0), n)
<1> DEFINE l == Len(q)
           r == <<q[l]>>
<1>1. q \in Seq(Packet) /\ l \in Nat /\ l >= 1 /\ l \in 1..Len(q)
  BY DEF Packets
<1>2. q[l] \in Packet /\ q[l].lo \in Nat /\ q[l].hi \in Nat /\ q[l].lo < q[l].hi
  BY <1>1, Fields DEF Packets
<1>3. r \in Seq(Packet) /\ Len(r) = 1 /\ r[1] = q[l] /\ r # <<>>
  BY <1>2
<1> HIDE DEF r
<1>4. Packets(r)
  BY <1>2, <1>3 DEF Packets
<1>5. ASSUME NEW w, NEW n, Holding(q, w, n)
      PROVE  Holding(r, End(q, w, l - 1, 0), n)
  <2>1. n \in Nat /\ w \in Nat /\ Chain(q, w) /\ q[l].hi = n
    BY <1>5 DEF Holding
  <2>2. End(q, w, l - 1, 0) = q[l].lo
    <3>1. CASE l = 1
      BY <2>1, <3>1 DEF End, Chain
    <3>2. CASE l # 1
      <4>1. l - 1 \in 1..Len(q) - 1 /\ (l - 1) + 1 = l
        <5>1. \A j \in Nat : j >= 1 /\ j # 1 => j - 1 \in 1..j - 1 /\ (j - 1) + 1 = j
          OBVIOUS
        <5> QED
          BY <1>1, <3>2, <5>1
      <4>2. q[l - 1].hi = q[l].lo
        BY <2>1, <4>1 DEF Chain
      <4> QED
        BY <1>1, <4>1, <4>2 DEF End
    <3> QED
      BY <3>1, <3>2
  <2> QED
    BY <1>2, <1>3, <2>1, <2>2 DEF Holding, Chain
<1> QED
  BY <1>4, <1>5 DEF r

\* A flushed bundle leaves nothing behind.
LEMMA FlushedBundle ==
  /\ Packets(<<>>)
  /\ \A q, w, n : Packets(q) /\ q # <<>> /\ Holding(q, w, n) =>
                    Holding(<<>>, End(q, w, Len(q), 0), n)
<1>1. Packets(<<>>)
  BY DEF Packets
<1>2. ASSUME NEW q, NEW w, NEW n, Packets(q), q # <<>>, Holding(q, w, n)
      PROVE  Holding(<<>>, End(q, w, Len(q), 0), n)
  <2>1. q \in Seq(Packet) /\ Len(q) \in Nat /\ Len(q) >= 1
    BY <1>2 DEF Packets
  <2>2. End(q, w, Len(q), 0) = n /\ n \in Nat
    BY <1>2, <2>1 DEF End, Holding
  <2> QED
    BY <2>2 DEF Holding, Chain
<1> QED
  BY <1>1, <1>2

-----------------------------------------------------------------------------
(* The state.                                                               *)

\* What IInv says of one channel.
ChanInv(c) ==
  /\ Packets(packets_[c])
  /\ pCurrPacket_[c] <=> packets_[c] # <<>>
  /\ open[c] /\ ~damaged[c] => intact[c] /\ Holding(packets_[c], wire[c], written[c])

\* IInv, channel by channel.
LEMMA ByChannel == IInv <=> TypeOK /\ \A c \in Chan : ChanInv(c)
<1>1. ASSUME IInv, NEW c \in Chan PROVE ChanInv(c)
  <2>1. packets_[c] \in Seq(Packet) /\ wire[c] \in Nat /\ written[c] \in Nat
    BY <1>1 DEF IInv, TypeOK
  <2>2. Packets(packets_[c])
    BY <1>1, <2>1 DEF IInv, PacketsNonEmpty, Packets
  <2>3. ASSUME open[c], ~damaged[c]
        PROVE  intact[c] /\ Holding(packets_[c], wire[c], written[c])
    BY <1>1, <2>1, <2>3 DEF IInv, StreamIntact, PacketsBetween, Holding, LastPacket
  <2> QED
    BY <1>1, <2>2, <2>3 DEF IInv, CurrentIsLast, ChanInv
<1>2. ASSUME TypeOK, \A c \in Chan : ChanInv(c) PROVE IInv
  <2>1. StreamIntact
    BY <1>2 DEF StreamIntact, ChanInv, Holding, LastPacket
  <2>2. CurrentIsLast
    BY <1>2 DEF CurrentIsLast, ChanInv
  <2>3. PacketsNonEmpty
    BY <1>2 DEF PacketsNonEmpty, ChanInv, Packets
  <2>4. PacketsBetween
    BY <1>2 DEF PacketsBetween, ChanInv, Holding
  <2> QED
    BY <1>2, <2>1, <2>2, <2>3, <2>4 DEF IInv
<1>3. IInv => TypeOK
  BY DEF IInv
<1> QED
  BY <1>1, <1>2, <1>3

AllInv == TypeOK /\ \A c \in Chan : ChanInv(c)

\* The same of the next state.
LEMMA AllInvNext == AllInv' => IInv'
<1>1. AllInv => IInv
  BY ByChannel DEF AllInv
<1> QED
  BY <1>1, PTL

\* The stream of c is up.
Up(c) == open[c] /\ ~damaged[c]

\* A step that ByteStream allows: the stream is down afterwards; or it was up
\* and bytes were written, or the peer was led on, or neither.
Streams(c) ==
  \/ ~Up(c)'
  \/ /\ Up(c)
     /\ \/ wire'[c] = wire[c] /\ written'[c] > written[c]
        \/ wire'[c] >= wire[c] /\ wire'[c] <= written[c] /\ written'[c] = written[c]

\* A step that leaves the other channels alone ...
Others(c) ==
  \A e \in Chan : e # c =>
    /\ packets_'[e] = packets_[e] /\ pCurrPacket_'[e] = pCurrPacket_[e]
    /\ open'[e] = open[e] /\ written'[e] = written[e] /\ wire'[e] = wire[e]
    /\ intact'[e] = intact[e] /\ damaged'[e] = damaged[e]

\* ... and does for c what IInv and ByteStream ask.
Proper(c) ==
  /\ Packets(packets_'[c])
  /\ pCurrPacket_'[c] <=> packets_'[c] # <<>>
  /\ Up(c)' => /\ Up(c) /\ intact'[c]
               /\ Holding(packets_'[c], wire'[c], written'[c])
               /\ \/ wire'[c] = wire[c] /\ written'[c] > written[c]
                  \/ wire'[c] >= wire[c] /\ wire'[c] <= written[c] /\ written'[c] = written[c]

\* Such a step keeps the invariant.
LEMMA StepKeeps ==
  ASSUME IInv, TypeOK', NEW c \in Chan, Others(c), Proper(c)
  PROVE  IInv' /\ \A e \in Chan : Streams(e)
<1>1. TypeOK /\ \A e \in Chan : ChanInv(e)
  BY ByChannel
<1>2. ASSUME NEW e \in Chan PROVE ChanInv(e)' /\ Streams(e)
  <2>1. CASE e = c
    <3>1. ChanInv(c)'
      BY DEF ChanInv, Proper, Up
    <3>2. Streams(c)
      BY DEF Streams, Proper
    <3> QED
      BY <2>1, <3>1, <3>2
  <2>2. CASE e # c
    <3>1. ChanInv(e)
      BY <1>1
    <3>2. ChanInv(e)'
      BY <2>2, <3>1 DEF ChanInv, Others
    <3>3. wire[e] \in Nat /\ written[e] \in Nat
      BY <1>1 DEF TypeOK
    <3>4. CASE Up(e)
      <4>1. wire[e] <= written[e]
        BY <3>1, <3>4 DEF ChanInv, Up, Holding
      <4> QED
        BY <2>2, <3>2, <3>3, <3>4, <4>1 DEF Streams, Others
    <3>5. CASE ~Up(e)
      <4>1. ~Up(e)'
        BY <2>2, <3>5 DEF Up, Others
      <4> QED
        BY <3>2, <4>1 DEF Streams
    <3> QED
      BY <3>4, <3>5
  <2> QED
    BY <2>1, <2>2
<1>3. AllInv'
  BY <1>2 DEF AllInv
<1> QED
  BY <1>2, <1>3, AllInvNext

\* The values the variables have at c.
LEMMA AtChannel ==
  ASSUME IInv, NEW c \in Chan
  PROVE  /\ Packets(packets_[c]) /\ packets_[c] \in Seq(Packet)
         /\ Len(packets_[c]) \in Nat
         /\ written[c] \in Nat /\ wire[c] \in Nat
         /\ pCurrPacket_[c] <=> packets_[c] # <<>>
         /\ Up(c) => intact[c] /\ Holding(packets_[c], wire[c], written[c])
                     /\ wire[c] <= written[c]
<1>1. TypeOK /\ ChanInv(c)
  BY ByChannel
<1>2. Packets(packets_[c]) /\ packets_[c] \in Seq(Packet)
  BY <1>1 DEF ChanInv, Packets
<1> QED
  BY <1>1, <1>2 DEF TypeOK, ChanInv, Up, Holding

-----------------------------------------------------------------------------
(* The steps.                                                               *)

\* The bytes start a packet.
LEMMA WriteFreshKeeps ==
  ASSUME IInv, NEW c \in Chan, NEW k \in 1..MaxSize, WriteFresh(c, k)
  PROVE  IInv' /\ \A e \in Chan : Streams(e)
<1> DEFINE q == packets_[c]
           n == written[c]
           p == [lo |-> n, hi |-> n + k, off |-> 0, chained |-> FALSE]
           r == Append(q, p)
<1>1. TypeOK
  BY DEF IInv
<1>2. k \in Nat /\ k > 0 /\ n \in Nat /\ n + k \in Nat /\ n + k > n
  BY AtChannel, CSAssumption
<1>3. /\ Packets(r) /\ r # <<>>
      /\ \A w : Holding(q, w, n) => Holding(r, w, n + k)
  BY <1>2, AtChannel, FreshPacket
<1>4. packets_' = [packets_ EXCEPT ![c] = r]
  BY DEF WriteFresh
<1> HIDE DEF r
<1>5. r \in Seq(Packet)
  BY <1>3 DEF Packets
<1>6. TypeOK'
  BY <1>1, <1>2, <1>4, <1>5 DEF TypeOK, WriteFresh
<1>7. Others(c)
  BY <1>1, <1>4 DEF TypeOK, WriteFresh, Others
<1>8. packets_'[c] = r /\ pCurrPacket_'[c] /\ written'[c] = n + k
  BY <1>1, <1>4 DEF TypeOK, WriteFresh
<1>9. open' = open /\ wire' = wire /\ intact' = intact /\ damaged' = damaged
  BY DEF WriteFresh
<1>10. Up(c) => intact[c] /\ Holding(r, wire[c], n + k)
  BY <1>3, AtChannel
<1>11. Proper(c)
  BY <1>2, <1>3, <1>8, <1>9, <1>10 DEF Proper, Up
<1> QED
  BY <1>6, <1>7, <1>11, StepKeeps

\* The bytes join the last packet.
LEMMA WriteJoinsKeeps ==
  ASSUME IInv, NEW c \in Chan, NEW k \in 1..MaxSize, WriteJoins(c, k)
  PROVE  IInv' /\ \A e \in Chan : Streams(e)
<1> DEFINE q == packets_[c]
           n == written[c]
           r == [q EXCEPT ![Len(q)].hi = @ + k]
<1>1. TypeOK
  BY DEF IInv
<1>2. k \in Nat /\ k > 0 /\ n \in Nat /\ n + k \in Nat /\ n + k > n
  BY AtChannel, CSAssumption
<1>3. pCurrPacket_[c] /\ q # <<>>
  BY AtChannel DEF WriteJoins, NeedsPacket
<1>4. /\ Packets(r) /\ r # <<>>
      /\ \A w, v : Holding(q, w, v) => Holding(r, w, v + k)
  BY <1>2, <1>3, AtChannel, GrownPacket
<1>5. packets_' = [packets_ EXCEPT ![c] = r]
  BY DEF WriteJoins
<1> HIDE DEF r
<1>6. r \in Seq(Packet)
  BY <1>4 DEF Packets
<1>7. TypeOK'
  BY <1>1, <1>2, <1>5, <1>6 DEF TypeOK, WriteJoins
<1>8. Others(c)
  BY <1>1, <1>5 DEF TypeOK, WriteJoins, Others
<1>9. packets_'[c] = r /\ pCurrPacket_'[c] /\ written'[c] = n + k
  BY <1>1, <1>3, <1>5 DEF TypeOK, WriteJoins
<1>10. open' = open /\ wire' = wire /\ intact' = intact /\ damaged' = damaged
  BY DEF WriteJoins
<1>11. Up(c) => intact[c] /\ Holding(r, wire[c], n + k)
  BY <1>4, AtChannel
<1>12. Proper(c)
  BY <1>2, <1>4, <1>9, <1>10, <1>11 DEF Proper, Up
<1> QED
  BY <1>7, <1>8, <1>12, StepKeeps

\* The bytes go into a block that is never sent: the stream is down.
LEMMA WriteChainsKeeps ==
  ASSUME IInv, NEW c \in Chan, NEW k \in 1..MaxSize, WriteChains(c, k)
  PROVE  IInv' /\ \A e \in Chan : Streams(e)
<1> DEFINE q == packets_[c]
           r == [q EXCEPT ![Len(q)].chained = TRUE]
<1>1. TypeOK
  BY DEF IInv
<1>2. k \in Nat /\ written[c] \in Nat
  BY AtChannel, CSAssumption
<1>3. pCurrPacket_[c] /\ q # <<>>
  BY AtChannel DEF WriteChains, NeedsPacket
<1>4. Packets(r) /\ r # <<>>
  BY <1>3, AtChannel, ChainedPacket
<1>5. packets_' = [packets_ EXCEPT ![c] = r]
  BY DEF WriteChains
<1> HIDE DEF r
<1>6. r \in Seq(Packet)
  BY <1>4 DEF Packets
<1>7. TypeOK'
  <2>1. packets_' \in [Chan -> Seq(Packet)] /\ damaged' \in [Chan -> BOOLEAN]
    BY <1>1, <1>5, <1>6 DEF TypeOK, WriteChains
  <2>2. written[c] + k \in Nat /\ written' = [written EXCEPT ![c] = written[c] + k]
    BY <1>2 DEF WriteChains
  <2> QED
    BY <1>1, <2>1, <2>2 DEF TypeOK, WriteChains
<1>8. Others(c)
  BY <1>1, <1>5 DEF TypeOK, WriteChains, Others
<1>9. packets_'[c] = r /\ pCurrPacket_'[c] /\ damaged'[c]
  BY <1>1, <1>3, <1>5 DEF TypeOK, WriteChains
<1>10. Proper(c)
  BY <1>4, <1>9 DEF Proper, Up
<1> QED
  BY <1>7, <1>8, <1>10, StepKeeps

\* What a tick gives the socket.
LEMMA SendsEnd ==
  ASSUME TypeOK, NEW c \in Chan, NEW m, NEW k, Sends(c, m, k)
  PROVE  /\ wire' = [wire EXCEPT ![c] = End(packets_[c], wire[c], m, k)]
         /\ intact' \in [Chan -> BOOLEAN]
         /\ intact'[c] <=> intact[c] /\ Chain(Given(packets_[c], m, k), wire[c])
         /\ \A e \in Chan : e # c => intact'[e] = intact[e]
<1> DEFINE ok == Chain(Given(packets_[c], m, k), wire[c])
<1>1. ok \in BOOLEAN
  BY DEF Chain
<1>2. intact' = [intact EXCEPT ![c] = @ /\ ok]
  BY DEF Sends, Given
<1> HIDE DEF ok
<1>3. intact \in [Chan -> BOOLEAN]
  BY DEF TypeOK
<1>4. /\ intact' \in [Chan -> BOOLEAN]
      /\ intact'[c] = (intact[c] /\ ok)
      /\ \A e \in Chan : e # c => intact'[e] = intact[e]
  BY <1>1, <1>2, <1>3
<1> QED
  BY <1>4 DEF Sends, End, ok

\* A channel that is taken away.
LEMMA GoneKeeps ==
  ASSUME IInv, NEW c \in Chan, Gone(c),
         wire' \in [Chan -> Nat], intact' \in [Chan -> BOOLEAN],
         \A e \in Chan : e # c => wire'[e] = wire[e] /\ intact'[e] = intact[e],
         written' = written, damaged' = damaged,
         should_wait_next_tick' \in BOOLEAN, isCondemn_' = isCondemn_,
         todo' \subseteq Chan
  PROVE  IInv' /\ \A e \in Chan : Streams(e)
<1>1. TypeOK
  BY DEF IInv
<1>2. Packets(<<>>)
  BY FlushedBundle
<1>3. TypeOK'
  BY <1>1 DEF TypeOK, Gone
<1>4. Others(c)
  BY <1>1 DEF TypeOK, Gone, Others
<1>5. packets_'[c] = <<>> /\ ~pCurrPacket_'[c] /\ ~open'[c]
  BY <1>1 DEF TypeOK, Gone
<1>6. Proper(c)
  BY <1>2, <1>5 DEF Proper, Up
<1> QED
  BY <1>3, <1>4, <1>6, StepKeeps

\* A tick that leaves the bundle r to an open channel.
LEMMA TickKeeps ==
  ASSUME IInv, NEW c \in Chan, NEW m \in 0..Len(packets_[c]), NEW k \in Nat,
         k > 0 => m < Len(packets_[c]) /\ k <= length(packets_[c][m + 1]),
         Sends(c, m, k),
         NEW r, Packets(r),
         \A w, n : Holding(packets_[c], w, n) =>
                     Holding(r, End(packets_[c], w, m, k), n),
         packets_' = [packets_ EXCEPT ![c] = r],
         pCurrPacket_' \in [Chan -> BOOLEAN], pCurrPacket_'[c] <=> r # <<>>,
         \A e \in Chan : e # c => pCurrPacket_'[e] = pCurrPacket_[e],
         open' = open, written' = written, damaged' = damaged,
         should_wait_next_tick' \in BOOLEAN, isCondemn_' \in [Chan -> BOOLEAN],
         todo' \subseteq Chan
  PROVE  IInv' /\ \A e \in Chan : Streams(e)
<1> DEFINE q == packets_[c]
           w == End(q, wire[c], m, k)
<1>1. TypeOK
  BY DEF IInv
<1>2. r \in Seq(Packet)
  BY DEF Packets
<1>3. /\ wire' = [wire EXCEPT ![c] = w]
      /\ intact' \in [Chan -> BOOLEAN]
      /\ intact'[c] <=> intact[c] /\ Chain(Given(q, m, k), wire[c])
      /\ \A e \in Chan : e # c => intact'[e] = intact[e]
  BY <1>1, SendsEnd
<1>4. w \in Nat
  BY AtChannel, EndIsNat
<1> HIDE DEF w
<1>5. TypeOK'
  BY <1>1, <1>2, <1>3, <1>4 DEF TypeOK
<1>6. Others(c)
  BY <1>1, <1>3 DEF TypeOK, Others
<1>7. packets_'[c] = r /\ wire'[c] = w
  BY <1>1, <1>3 DEF TypeOK
<1>8. ASSUME Up(c)
      PROVE  /\ intact'[c] /\ Holding(r, w, written[c])
             /\ wire[c] <= w /\ w <= written[c] /\ wire[c] \in Nat
  <2>1. intact[c] /\ Packets(q) /\ Holding(q, wire[c], written[c]) /\ wire[c] \in Nat
    BY <1>8, AtChannel
  <2>2. Chain(Given(q, m, k), wire[c]) /\ wire[c] <= w /\ w <= written[c]
    BY <2>1, TakenInOrder DEF w
  <2> QED
    BY <1>3, <2>1, <2>2 DEF w
<1>9. Proper(c)
  BY <1>4, <1>7, <1>8 DEF Proper, Up
<1> QED
  BY <1>5, <1>6, <1>9, StepKeeps

\* send_buffered_bundle has held the last packet back.
LEMMA TickHoldsKeeps ==
  ASSUME IInv, NEW c \in Chan, TickHolds(c)
  PROVE  IInv' /\ \A e \in Chan : Streams(e)
<1> DEFINE q == packets_[c]
           l == Len(q)
<1>1. TypeOK /\ Packets(q) /\ q # <<>> /\ q \in Seq(Packet) /\ l \in Nat
  BY AtChannel DEF IInv, TickHolds, Active
<1>2. l - 1 \in 0..l
  BY <1>1
<1>3. /\ Packets(<<q[l]>>)
      /\ \A w, n : Holding(q, w, n) => Holding(<<q[l]>>, End(q, w, l - 1, 0), n)
  BY <1>1, HeldBundle
<1>4. packets_' = [packets_ EXCEPT ![c] = <<q[l]>>] /\ Sends(c, l - 1, 0)
  BY DEF TickHolds, LastPacket
<1>5. /\ pCurrPacket_' \in [Chan -> BOOLEAN] /\ pCurrPacket_' = pCurrPacket_
      /\ pCurrPacket_'[c]
      /\ open' = open /\ written' = written /\ damaged' = damaged
      /\ should_wait_next_tick' \in BOOLEAN
      /\ isCondemn_' \in [Chan -> BOOLEAN] /\ todo' \subseteq Chan
  BY <1>1, AtChannel DEF TickHolds, TypeOK, Visits
<1>6. <<q[l]>> # <<>>
  OBVIOUS
<1> HIDE DEF q, l
<1>7. 0 \in Nat /\ ~(0 > 0)
  OBVIOUS
<1> QED
  BY <1>2, <1>3, <1>4, <1>5, <1>6, <1>7, TickKeeps DEF q, l

\* It has sent everything.
LEMMA TickFlushesKeeps ==
  ASSUME IInv, NEW c \in Chan, TickFlushes(c)
  PROVE  IInv' /\ \A e \in Chan : Streams(e)
<1> DEFINE q == packets_[c]
           l == Len(q)
<1>1. TypeOK /\ Packets(q) /\ q # <<>> /\ l \in Nat
  BY AtChannel DEF IInv, TickFlushes, Active
<1>2. l \in 0..l
  BY <1>1
<1>3. /\ Packets(<<>>)
      /\ \A w, n : Holding(q, w, n) => Holding(<<>>, End(q, w, l, 0), n)
  BY <1>1, FlushedBundle
<1>4. packets_' = [packets_ EXCEPT ![c] = <<>>] /\ Sends(c, l, 0)
  BY DEF TickFlushes
<1>5. /\ pCurrPacket_' \in [Chan -> BOOLEAN] /\ ~pCurrPacket_'[c]
      /\ \A e \in Chan : e # c => pCurrPacket_'[e] = pCurrPacket_[e]
      /\ open' = open /\ written' = written /\ damaged' = damaged
      /\ isCondemn_' \in [Chan -> BOOLEAN] /\ todo' \subseteq Chan
  BY <1>1 DEF TickFlushes, TypeOK, Visits
<1>6. should_wait_next_tick' \in BOOLEAN
  BY <1>1 DEF TickFlushes, FlagAfter, Flag, TypeOK
<1> HIDE DEF q, l
<1>7. 0 \in Nat /\ ~(0 > 0)
  OBVIOUS
<1> QED
  BY <1>2, <1>3, <1>4, <1>5, <1>6, <1>7, TickKeeps DEF q, l

\* The socket has taken a part.
LEMMA TickBlocksKeeps ==
  ASSUME IInv, NEW c \in Chan, NEW m \in 0..Len(packets_[c]) - 1,
         NEW k \in 0..MaxSize + Slack, TickBlocks(c, m, k)
  PROVE  IInv' /\ \A e \in Chan : Streams(e)
<1> DEFINE q == packets_[c]
           r == After(q, m, k)
<1>1. TypeOK /\ Packets(q) /\ q # <<>> /\ q \in Seq(Packet) /\ Len(q) \in Nat
  BY AtChannel DEF IInv, TickBlocks, Active
<1>2. k \in Nat /\ m \in 0..Len(q) /\ m < Len(q) /\ m + 1 \in 1..Len(q)
  BY <1>1, CSAssumption
<1>3. k < length(q[m + 1]) /\ k <= length(q[m + 1])
  <2>1. q[m + 1].lo \in Nat /\ q[m + 1].hi \in Nat
    BY <1>1, <1>2, Fields
  <2> QED
    BY <1>2, <2>1 DEF TickBlocks, length
<1>4. /\ Packets(r) /\ r # <<>>
      /\ \A w, n : Holding(q, w, n) => Holding(r, End(q, w, m, k), n)
  BY <1>1, <1>2, <1>3, BlockedBundle
<1>5. packets_' = [packets_ EXCEPT ![c] = r] /\ Sends(c, m, k)
  BY DEF TickBlocks, Rest, After
<1>6. /\ pCurrPacket_' \in [Chan -> BOOLEAN] /\ pCurrPacket_' = pCurrPacket_
      /\ pCurrPacket_'[c]
      /\ open' = open /\ written' = written /\ damaged' = damaged
      /\ todo' \subseteq Chan
  BY <1>1, AtChannel DEF TickBlocks, TypeOK, Visits
<1>7. should_wait_next_tick' \in BOOLEAN
  BY <1>1 DEF TickBlocks, FlagAfter, Flag, TypeOK
<1>8. isCondemn_' \in [Chan -> BOOLEAN]
  <2>1. Overflows(Len(q) - m) \in BOOLEAN
    BY DEF Overflows
  <2> QED
    BY <1>1, <2>1 DEF TickBlocks, TypeOK
<1> HIDE DEF q, r
<1> QED
  BY <1>2, <1>3, <1>4, <1>5, <1>6, <1>7, <1>8, TickKeeps DEF q

\* The socket has failed.
LEMMA TickFailsKeeps ==
  ASSUME IInv, NEW c \in Chan, NEW m \in 0..Len(packets_[c]) - 1, TickFails(c, m)
  PROVE  IInv' /\ \A e \in Chan : Streams(e)
<1> DEFINE q == packets_[c]
           w == End(q, wire[c], m, 0)
<1>1. TypeOK /\ q \in Seq(Packet) /\ Len(q) \in Nat /\ wire[c] \in Nat
  BY AtChannel DEF IInv
<1>2. /\ wire' = [wire EXCEPT ![c] = w]
      /\ intact' \in [Chan -> BOOLEAN]
      /\ \A e \in Chan : e # c => intact'[e] = intact[e]
  BY <1>1, SendsEnd DEF TickFails
<1>3. w \in Nat
  <2>1. m \in 0..Len(q)
    BY <1>1
  <2>2. 0 \in Nat /\ ~(0 > 0)
    OBVIOUS
  <2> HIDE DEF q
  <2> QED
    BY <1>1, <2>1, <2>2, EndIsNat
<1> HIDE DEF w
<1>4. wire' \in [Chan -> Nat] /\ \A e \in Chan : e # c => wire'[e] = wire[e]
  BY <1>1, <1>2, <1>3 DEF TypeOK
<1>5. should_wait_next_tick' \in BOOLEAN
  BY <1>1 DEF TickFails, FlagAfter, Flag, TypeOK
<1>6. /\ Gone(c) /\ isCondemn_' = isCondemn_ /\ written' = written
      /\ damaged' = damaged /\ todo' \subseteq Chan
  BY <1>1 DEF TickFails, Visits, TypeOK
<1> QED
  BY <1>2, <1>4, <1>5, <1>6, GoneKeeps

\* A channel that leaves between two sweeps, or condemned.
LEMMA LeavingKeeps ==
  ASSUME IInv, NEW c \in Chan, TickCondemned(c) \/ Leaves(c)
  PROVE  IInv' /\ \A e \in Chan : Streams(e)
<1>1. TypeOK
  BY DEF IInv
<1>2. /\ Gone(c) /\ wire' = wire /\ intact' = intact /\ written' = written
      /\ damaged' = damaged /\ should_wait_next_tick' = should_wait_next_tick
      /\ isCondemn_' = isCondemn_ /\ todo' \subseteq Chan
  BY <1>1 DEF TickCondemned, Leaves, Visits, TypeOK
<1>3. /\ wire' \in [Chan -> Nat] /\ intact' \in [Chan -> BOOLEAN]
      /\ should_wait_next_tick' \in BOOLEAN
  BY <1>1, <1>2 DEF TypeOK
<1> QED
  BY <1>2, <1>3, GoneKeeps

\* A step that does nothing to any bundle.
LEMMA IdleKeeps ==
  ASSUME IInv, todo' \subseteq Chan,
         UNCHANGED <<packets_, pCurrPacket_, should_wait_next_tick, isCondemn_,
                     open, written, wire, intact, damaged>>
  PROVE  IInv' /\ \A e \in Chan : Streams(e)
<1>1. TypeOK /\ \A c \in Chan : ChanInv(c)
  BY ByChannel
<1>2. TypeOK'
  BY <1>1 DEF TypeOK
<1>3. ASSUME NEW e \in Chan PROVE ChanInv(e)' /\ Streams(e)
  <2>1. ChanInv(e)'
    BY <1>1 DEF ChanInv
  <2>2. wire[e] \in Nat /\ written[e] \in Nat /\ (Up(e) => wire[e] <= written[e])
    BY AtChannel
  <2>3. Up(e)' <=> Up(e)
    BY DEF Up
  <2>4. wire'[e] = wire[e] /\ written'[e] = written[e]
    OBVIOUS
  <2>5. Streams(e)
    BY <2>2, <2>3, <2>4 DEF Streams
  <2> QED
    BY <2>1, <2>5
<1>4. AllInv'
  BY <1>2, <1>3 DEF AllInv
<1> QED
  BY <1>3, <1>4, AllInvNext

\* Every step.
LEMMA NextKeeps ==
  ASSUME IInv, [Next]_vars
  PROVE  IInv' /\ \A e \in Chan : Streams(e)
<1>1. TypeOK
  BY DEF IInv
<1>2. CASE UNCHANGED vars
  <2>1. todo' \subseteq Chan
    BY <1>1, <1>2 DEF TypeOK, vars
  <2> QED
    BY <1>2, <2>1, IdleKeeps DEF vars
<1>3. CASE BeginSweep
  BY <1>3, IdleKeeps DEF BeginSweep
<1>4. ASSUME NEW c \in Chan, Write(c) PROVE IInv' /\ \A e \in Chan : Streams(e)
  <2>1. PICK k \in 1..MaxSize : WriteFresh(c, k) \/ WriteJoins(c, k) \/ WriteChains(c, k)
    BY <1>4 DEF Write
  <2> QED
    BY <2>1, WriteFreshKeeps, WriteJoinsKeeps, WriteChainsKeeps
<1>5. ASSUME NEW c \in Chan, Tick(c) PROVE IInv' /\ \A e \in Chan : Streams(e)
  <2>1. CASE TickIdle(c)
    <3>1. todo' \subseteq Chan
      BY <1>1, <2>1 DEF TypeOK, TickIdle, Visits
    <3> QED
      BY <2>1, <3>1, IdleKeeps DEF TickIdle
  <2>2. CASE TickCondemned(c)
    BY <2>2, LeavingKeeps
  <2>3. CASE TickHolds(c)
    BY <2>3, TickHoldsKeeps
  <2>4. CASE TickFlushes(c)
    BY <2>4, TickFlushesKeeps
  <2>5. CASE \E m \in 0..Len(packets_[c]) - 1 : TickFails(c, m)
    BY <2>5, TickFailsKeeps
  <2>6. CASE \E m \in 0..Len(packets_[c]) - 1 :
               \E k \in 0..MaxSize + Slack : TickBlocks(c, m, k)
    BY <2>6, TickBlocksKeeps
  <2> QED
    BY <1>5, <2>1, <2>2, <2>3, <2>4, <2>5, <2>6 DEF Tick
<1>6. ASSUME NEW c \in Chan, Leaves(c) PROVE IInv' /\ \A e \in Chan : Streams(e)
  BY <1>6, LeavingKeeps
<1> QED
  BY <1>2, <1>3, <1>4, <1>5, <1>6 DEF Next

\* The empty bundles of the start.
LEMMA InitKeeps == Init => IInv
<1> SUFFICES ASSUME Init PROVE IInv
  OBVIOUS
<1>1. <<>> \in Seq(Packet)
  OBVIOUS
<1>2. TypeOK
  BY <1>1 DEF Init, TypeOK
<1>3. ASSUME NEW c \in Chan PROVE ChanInv(c)
  <2>1. /\ packets_[c] = <<>> /\ ~pCurrPacket_[c] /\ intact[c]
        /\ wire[c] = 0 /\ written[c] = 0
    BY DEF Init
  <2>2. Packets(<<>>)
    BY FlushedBundle
  <2>3. Holding(<<>>, 0, 0)
    BY DEF Holding, Chain
  <2> QED
    BY <2>1, <2>2, <2>3 DEF ChanInv
<1> QED
  BY <1>2, <1>3, ByChannel

-----------------------------------------------------------------------------
(* The theorems.                                                            *)

\* IInv holds in every state that the writes and ticks of the channels reach.
THEOREM Inductive == Spec => []IInv
<1>1. Init => IInv
  BY InitKeeps
<1>2. IInv /\ [Next]_vars => IInv'
  BY NextKeeps
<1> QED
  BY <1>1, <1>2, PTL DEF Spec

\* The variables keep their types.
THEOREM TypeCorrect == Spec => []TypeOK
<1>1. IInv => TypeOK
  BY DEF IInv
<1> QED
  BY <1>1, Inductive, PTL

\* However the sockets fill up, split packets or fail, and whichever packets
\* the shared flag holds back, the bytes buffered are exactly those not sent
\* yet and what was sent was in order.
THEOREM StreamIsIntact == Spec => []StreamIntact
<1>1. IInv => StreamIntact
  BY DEF IInv
<1> QED
  BY <1>1, Inductive, PTL

\* pCurrPacket_ is set exactly while its packet is in the bundle.
THEOREM CurrentPacketIsLast == Spec => []CurrentIsLast
<1>1. IInv => CurrentIsLast
  BY DEF IInv
<1> QED
  BY <1>1, Inductive, PTL

\* A step that Streams allows is one of ByteStream.
LEMMA StreamStep ==
  ASSUME IInv, IInv', NEW c \in Chan, Streams(c)
  PROVE  [Stream(c)!Next]_(Stream(c)!vars)
<1>1. /\ wire[c] \in Nat /\ written[c] \in Nat /\ wire'[c] \in Nat /\ written'[c] \in Nat
      /\ open[c] \in BOOLEAN /\ damaged[c] \in BOOLEAN
      /\ open'[c] \in BOOLEAN /\ damaged'[c] \in BOOLEAN
  BY DEF IInv, TypeOK
<1>2. Up(c) => intact[c]
  BY DEF IInv, StreamIntact, Up
<1>3. Up(c)' => intact'[c]
  BY DEF IInv, StreamIntact, Up
<1>4. CASE ~Up(c)'
  <2>1. Stream(c)!GoDown \/ Stream(c)!Down
    BY <1>4 DEF Stream!GoDown, Stream!Down, Up
  <2> QED
    BY <2>1 DEF Stream!Next
<1>5. CASE Up(c) /\ Up(c)' /\ wire'[c] = wire[c] /\ written'[c] > written[c]
  <2>1. Stream(c)!Write
    BY <1>2, <1>3, <1>5 DEF Stream!Write, Up
  <2> QED
    BY <2>1 DEF Stream!Next
<1>6. CASE /\ Up(c) /\ Up(c)' /\ wire'[c] > wire[c] /\ wire'[c] <= written[c]
           /\ written'[c] = written[c]
  <2>1. Stream(c)!Deliver
    BY <1>2, <1>3, <1>6 DEF Stream!Deliver, Up
  <2> QED
    BY <2>1 DEF Stream!Next
<1>7. CASE Up(c) /\ Up(c)' /\ wire'[c] = wire[c] /\ written'[c] = written[c]
  <2>1. UNCHANGED Stream(c)!vars
    BY <1>1, <1>2, <1>3, <1>7 DEF Stream!vars, Up
  <2> QED
    BY <2>1
<1> QED
  BY <1>1, <1>4, <1>5, <1>6, <1>7 DEF Streams

\* Each channel implements ByteStream: what its socket takes is a prefix of
\* what was written, which no tick takes back, repeats or leaves gaps in.
THEOREM Refinement == Spec => ImplementsByteStream
<1>1. Init => \A c \in Chan : Stream(c)!Init
  BY DEF Init, Stream!Init
<1>2. IInv /\ IInv' /\ [Next]_vars => [\A c \in Chan : [Stream(c)!Next]_(Stream(c)!vars)]_vars
  BY NextKeeps, StreamStep
<1> QED
  BY <1>1, <1>2, Inductive, PTL DEF Spec, ImplementsByteStream
=============================================================================
