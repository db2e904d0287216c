------------------------- MODULE ChannelQueue_proofs -------------------------
(***************************************************************************)
(* For any channels, bundles and window limits: Channel::send and           *)
(* process_send give the socket every packet once and in order, no bundle   *)
(* is owned twice or leaks, and none waits where no write event is          *)
(* registered.                                                              *)
(*                                                                         *)
(* First one queue q and the place (i, j) where the socket stopped, then    *)
(* the state: every step changes one channel and moves bundles only between *)
(* its queue and the pool.                                                  *)
(***************************************************************************)
EXTENDS ChannelQueue, SequenceTheorems, TLAPS

\* No bundle is in q twice.
Uniq(q) == \A i, j \in 1..Len(q) : q[i].id = q[j].id => i = j

\* q holds the packets from w up to n.
Line(q, w, n) == Chain(q, w) /\ (q # <<>> => q[Len(q)].hi = n)

\* A place the socket may stop at.
At(q, i, j) ==
  /\ i \in 1..Len(q) + 1 /\ j \in Nat
  /\ All(q, i) => j = 0
  /\ ~All(q, i) => q[i].lo + j < q[i].hi

\* The next packet the socket has not had there.
End(q, w, i, j) ==
  IF j > 0 THEN q[i].lo + j ELSE IF i > 1 THEN q[i - 1].hi ELSE w

\* The bundles it was given packets of.
Given(q, i, j) == SubSeq(q, 1, IF j = 0 THEN i - 1 ELSE i)

-----------------------------------------------------------------------------
(* One queue.                                                               *)

\* The fields of a queued bundle.
LEMMA Fields ==
  ASSUME NEW q \in Seq(Queued), NEW i \in 1..Len(q)
  PROVE  q[i] \in Queued /\ q[i].id \in Bundles /\ q[i].lo \in Nat /\ q[i].hi \in Nat
<1>1. q[i] \in Queued
  OBVIOUS
<1> QED
  BY <1>1 DEF Queued

\* What Positions enumerates.
LEMMA PositionsAt ==
  ASSUME NEW q \in Seq(Queued), NEW pos \in Positions(q)
  PROVE  At(q, pos[1], pos[2])
<1>1. Len(q) \in Nat
  OBVIOUS
<1>2. CASE pos = <<Len(q) + 1, 0>>
  BY <1>1, <1>2 DEF At, All
<1>3. CASE pos # <<Len(q) + 1, 0>>
  <2>1. PICK i \in 1..Len(q) : pos \in {<<i, j>> : j \in 0..q[i].hi - q[i].lo - 1}
    BY <1>3 DEF Positions
  <2>2. PICK j \in 0..q[i].hi - q[i].lo - 1 : pos = <<i, j>>
    BY <2>1
  <2>3. q[i].lo \in Nat /\ q[i].hi \in Nat
    BY Fields
  <2>4. pos[1] = i /\ pos[2] = j
    BY <2>2
  <2>5. i \in 1..Len(q) + 1 /\ i # Len(q) + 1 /\ j \in Nat /\ q[i].lo + j < q[i].hi
    BY <1>1, <2>3
  <2> QED
    BY <2>4, <2>5 DEF At, All
<1> QED
  BY <1>2, <1>3

\* What is left of q, bundle by bundle.
LEMMA RestFields ==
  ASSUME NEW q \in Seq(Queued), NEW i, NEW j, At(q, i, j)
  PROVE  /\ Rest(q, i, j) \in Seq(Queued)
         /\ Len(Rest(q, i, j)) = Len(q) - i + 1
         /\ Rest(q, i, j) = <<>> <=> All(q, i)
         /\ \A x \in 1..Len(Rest(q, i, j)) :
              /\ i + x - 1 \in 1..Len(q)
              /\ Rest(q, i, j)[x].id = q[i + x - 1].id
              /\ Rest(q, i, j)[x].hi = q[i + x - 1].hi
              /\ Rest(q, i, j)[x].lo = IF x = 1 THEN q[i].lo + j ELSE q[i + x - 1].lo
<1>1. Len(q) \in Nat /\ i \in Nat /\ i >= 1 /\ i <= Len(q) + 1 /\ j \in Nat
  BY DEF At
<1>2. CASE All(q, i)
  <2>1. Rest(q, i, j) = <<>>
    BY <1>2 DEF Rest
  <2>2. Len(q) - i + 1 = 0
    BY <1>1, <1>2 DEF All
  <2>3. <<>> \in Seq(Queued) /\ Len(<<>>) = 0 /\ \A x \in 1..0 : FALSE
    OBVIOUS
  <2> QED
    BY <1>2, <2>1, <2>2, <2>3
<1>3. CASE ~All(q, i)
  <2> DEFINE t == SubSeq(q, i, Len(q))
             l == Len(q) - i + 1
             p == [q[i] EXCEPT !.lo = @ + j]
             r == [t EXCEPT ![1].lo = @ + j]
  <2>1. i \in 1..Len(q) /\ l \in Nat /\ l >= 1
    BY <1>1, <1>3 DEF All
  <2>2. \A x \in 1..l : i + x - 1 \in 1..Len(q)
    BY <1>1, <2>1
  <2>3. t \in Seq(Queued) /\ Len(t) = l /\ \A x \in 1..l : t[x] = q[i + x - 1]
    <3>1. \A x \in i..Len(q) : q[x] \in Queued
      BY <2>1
    <3> QED
      BY <2>1, <3>1, SubSeqProperties
  <2>4. q[i] \in Queued /\ q[i].lo \in Nat /\ q[i].hi \in Nat
    BY <2>1, Fields
  <2>5. /\ p \in Queued /\ p.id = q[i].id /\ p.hi = q[i].hi /\ p.lo = q[i].lo + j
    <3>1. q[i].lo + j \in Nat
      BY <1>1, <2>4
    <3> QED
      BY <2>4, <3>1 DEF Queued
  <2>6. t[1] = q[i] /\ i + 1 - 1 = i
    BY <1>1, <2>1, <2>3
  <2> HIDE DEF t
  <2>7. r = [t EXCEPT ![1] = p]
    BY <2>1, <2>3, <2>6
  <2> HIDE DEF p, r
  <2>8. /\ r \in Seq(Queued) /\ Len(r) = l /\ r[1] = p /\ r # <<>>
        /\ \A x \in 1..l : x # 1 => r[x] = t[x]
    BY <2>1, <2>3, <2>5, <2>7
  <2>9. Rest(q, i, j) = r
    BY <1>3 DEF Rest, r, t
  <2>10. ASSUME NEW x \in 1..l
         PROVE  /\ i + x - 1 \in 1..Len(q)
                /\ r[x].id = q[i + x - 1].id
                /\ r[x].hi = q[i + x - 1].hi
                /\ r[x].lo = IF x = 1 THEN q[i].lo + j ELSE q[i + x - 1].lo
    <3>1. CASE x = 1
      BY <2>2, <2>5, <2>6, <2>8, <3>1
    <3>2. CASE x # 1
      BY <2>2, <2>3, <2>8, <3>2
    <3> QED
      BY <3>1, <3>2
  <2> HIDE DEF l
  <2>11. r = <<>> <=> All(q, i)
    BY <1>3, <2>8
  <2> QED
    BY <2>8, <2>9, <2>10, <2>11 DEF l
<1> QED
  BY <1>2, <1>3

\* The bundles sent and those left are q's, and no bundle is both.
LEMMA RestIds ==
  ASSUME NEW q \in Seq(Queued), NEW i, NEW j, At(q, i, j)
  PROVE  /\ IdsOf(Rest(q, i, j)) \subseteq IdsOf(q)
         /\ Sent(q, i) \subseteq IdsOf(q)
         /\ Uniq(q) => Uniq(Rest(q, i, j)) /\ Sent(q, i) \cap IdsOf(Rest(q, i, j)) = {}
<1> DEFINE r == Rest(q, i, j)
<1>1. Len(q) \in Nat /\ i \in Nat /\ i >= 1 /\ i <= Len(q) + 1 /\ j \in Nat
  BY DEF At
<1>2. /\ r \in Seq(Queued) /\ Len(r) \in Nat
      /\ \A x \in 1..Len(r) : i + x - 1 \in 1..Len(q) /\ r[x].id = q[i + x - 1].id
  BY RestFields
<1> HIDE DEF r
<1>3. IdsOf(r) \subseteq IdsOf(q)
  BY <1>2 DEF IdsOf
<1>4. ASSUME NEW b \in Sent(q, i)
      PROVE  \E y \in 1..Len(q) : y < i /\ b = q[y].id
  <2> DEFINE s == SubSeq(q, 1, i - 1)
  <2>1. Len(s) = i - 1 /\ \A y \in 1..i - 1 : s[y] = q[y] /\ y \in 1..Len(q) /\ y < i
    BY <1>1
  <2> HIDE DEF s
  <2>2. PICK y \in 1..Len(s) : b = s[y].id
    BY DEF Sent, IdsOf, s
  <2> QED
    BY <2>1, <2>2
<1>5. Sent(q, i) \subseteq IdsOf(q)
  BY <1>4 DEF IdsOf
<1>6. ASSUME Uniq(q) PROVE Uniq(r) /\ Sent(q, i) \cap IdsOf(r) = {}
  <2>1. ASSUME NEW x \in 1..Len(r), NEW y \in 1..Len(r), r[x].id = r[y].id
        PROVE  x = y
    <3>1. i + x - 1 = i + y - 1
      BY <1>2, <1>6, <2>1 DEF Uniq
    <3> QED
      BY <1>1, <1>2, <3>1
  <2>2. ASSUME NEW b \in Sent(q, i), b \in IdsOf(r) PROVE FALSE
    <3>1. PICK y \in 1..Len(q) : y < i /\ b = q[y].id
      BY <1>4
    <3>2. PICK x \in 1..Len(r) : b = r[x].id
      BY <2>2 DEF IdsOf
    <3>3. y = i + x - 1
      BY <1>2, <1>6, <3>1, <3>2 DEF Uniq
    <3> QED
      BY <1>1, <1>2, <3>1, <3>2, <3>3
  <2> QED
    BY <2>1, <2>2 DEF Uniq
<1> QED
  BY <1>3, <1>5, <1>6 DEF r

\* A beginning of the queue is in order.
LEMMA PrefixChain ==
  ASSUME NEW q \in Seq(Queued), NEW w, Chain(q, w), NEW m \in 0..Len(q)
  PROVE  Chain(SubSeq(q, 1, m), w)
<1> DEFINE r == SubSeq(q, 1, m)
<1>1. Len(r) = m /\ \A i \in 1..m : r[i] = q[i]
  OBVIOUS
<1> HIDE DEF r
<1>2. Len(r) > 0 => r[1].lo = w
  BY <1>1 DEF Chain
<1>3. ASSUME NEW i \in 1..Len(r) - 1 PROVE r[i].hi = r[i + 1].lo
  <2>1. i \in 1..Len(q) - 1 /\ i \in 1..m /\ i + 1 \in 1..m
    BY <1>1, <1>3
  <2> QED
    BY <1>1, <2>1 DEF Chain
<1> QED
  BY <1>2, <1>3 DEF Chain, r

\* Wherever the socket stops, it stops at a packet.
LEMMA EndIsNat ==
  ASSUME NEW q \in Seq(Queued), NEW w \in Nat, NEW i, NEW j, At(q, i, j)
  PROVE  End(q, w, i, j) \in Nat
<1>1. Len(q) \in Nat /\ i \in Nat /\ i >= 1 /\ i <= Len(q) + 1 /\ j \in Nat
  BY DEF At
<1>2. CASE j > 0
  <2>1. i \in 1..Len(q)
    BY <1>1, <1>2 DEF At, All
  <2>2. q[i].lo \in Nat
    BY <2>1, Fields
  <2> QED
    BY <1>1, <1>2, <2>2 DEF End
<1>3. CASE j = 0 /\ i > 1
  <2>1. i - 1 \in 1..Len(q)
    BY <1>1, <1>3
  <2>2. q[i - 1].hi \in Nat
    BY <2>1, Fields
  <2> QED
    BY <1>3, <2>2 DEF End
<1>4. CASE j = 0 /\ i = 1
  BY <1>4 DEF End
<1> QED
  BY <1>1, <1>2, <1>3, <1>4

\* What the socket was given is in order, and what is left goes on from there.
LEMMA RestLine ==
  ASSUME NEW q \in Seq(Queued), NEW i, NEW j, At(q, i, j), NEW w, NEW n, Line(q, w, n)
  PROVE  /\ Chain(Given(q, i, j), w)
         /\ Line(Rest(q, i, j), End(q, w, i, j), n)
         /\ q # <<>> /\ All(q, i) => End(q, w, i, j) = n
<1> DEFINE r == Rest(q, i, j)
           e == End(q, w, i, j)
<1>1. Len(q) \in Nat /\ i \in Nat /\ i >= 1 /\ i <= Len(q) + 1 /\ j \in Nat
  BY DEF At
<1>2. Chain(Given(q, i, j), w)
  <2>1. (IF j = 0 THEN i - 1 ELSE i) \in 0..Len(q)
    BY <1>1 DEF At, All
  <2> QED
    BY <2>1, PrefixChain DEF Given, Line
<1>3. /\ r \in Seq(Queued) /\ Len(r) = Len(q) - i + 1
      /\ r = <<>> <=> All(q, i)
      /\ \A x \in 1..Len(r) :
           /\ i + x - 1 \in 1..Len(q) /\ r[x].hi = q[i + x - 1].hi
           /\ r[x].lo = IF x = 1 THEN q[i].lo + j ELSE q[i + x - 1].lo
  BY RestFields
<1> HIDE DEF r
<1>4. CASE All(q, i)
  <2>1. i = Len(q) + 1 /\ j = 0
    BY <1>4 DEF At, All
  <2>2. q # <<>> => e = n
    BY <1>1, <2>1 DEF End, Line
  <2>3. r = <<>>
    BY <1>3, <1>4
  <2> QED
    BY <1>2, <2>2, <2>3 DEF Line, Chain, r
<1>5. CASE ~All(q, i)
  <2>1. i \in 1..Len(q) /\ Len(r) \in Nat /\ Len(r) >= 1
    BY <1>1, <1>3, <1>5 DEF All
  <2>2. q[i].lo \in Nat /\ q[i].hi \in Nat
    BY <2>1, Fields
  <2>3. e = q[i].lo + j
    <3>1. CASE j > 0
      BY <3>1 DEF End
    <3>2. CASE j = 0 /\ i > 1
      <4>1. i - 1 \in 1..Len(q) - 1 /\ (i - 1) + 1 = i
        BY <1>1, <2>1, <3>2
      <4>2. q[i - 1].hi = q[i].lo
        BY <4>1 DEF Line, Chain
      <4> QED
        BY <2>2, <3>2, <4>2 DEF End
    <3>3. CASE j = 0 /\ i = 1
      BY <1>1, <2>1, <2>2, <3>3 DEF End, Line, Chain
    <3> QED
      BY <1>1, <3>1, <3>2, <3>3
  <2> HIDE DEF e
  <2>4. r[1].lo = e
    BY <1>3, <2>1, <2>3
  <2>5. ASSUME NEW x \in 1..Len(r) - 1 PROVE r[x].hi = r[x + 1].lo
    <3>1. x \in 1..Len(r) /\ x + 1 \in 1..Len(r) /\ x + 1 # 1
      BY <2>1
    <3>2. i + x - 1 \in 1..Len(q) - 1 /\ i + (x + 1) - 1 = (i + x - 1) + 1
      BY <1>1, <1>3, <2>1
    <3>3. q[i + x - 1].hi = q[(i + x - 1) + 1].lo
      BY <3>2 DEF Line, Chain
    <3> QED
      BY <1>3, <3>1, <3>2, <3>3
  <2>6. r[Len(r)].hi = n
    <3>1. Len(r) \in 1..Len(r) /\ i + Len(r) - 1 = Len(q) /\ q # <<>>
      BY <1>1, <1>3, <2>1
    <3> QED
      BY <1>3, <3>1 DEF Line
  <2> QED
    BY <1>2, <1>5, <2>4, <2>5, <2>6 DEF Line, Chain, r, e
<1> QED
  BY <1>4, <1>5

\* A bundle queued behind the others.
LEMMA QueuedBehind ==
  ASSUME NEW q \in Seq(Queued), NEW b \in Bundles, NEW n \in Nat, NEW k \in Nat
  PROVE  LET r == q \o <<[id |-> b, lo |-> n, hi |-> n + k]>>
         IN  /\ r \in Seq(Queued) /\ r # <<>> /\ Len(r) = Len(q) + 1
             /\ IdsOf(r) = IdsOf(q) \cup {b}
             /\ Uniq(q) /\ b \notin IdsOf(q) => Uniq(r)
             /\ \A w : Line(q, w, n) /\ (q = <<>> => w = n) => Line(r, w, n + k)
<1> DEFINE p == [id |-> b, lo |-> n, hi |-> n + k]
           r == q \o <<p>>
           l == Len(q)
<1>1. p \in Queued /\ p.id = b /\ p.lo = n /\ p.hi = n + k
  BY DEF Queued
<1> HIDE DEF p
<1>2. /\ r \in Seq(Queued) /\ r # <<>> /\ Len(r) = l + 1 /\ l \in Nat
      /\ r[l + 1] = p /\ \A i \in 1..l : r[i] = q[i]
  BY <1>1
<1> HIDE DEF r
<1>3. \A i \in 1..Len(r) : i = l + 1 \/ i \in 1..l
  BY <1>2
<1>4. IdsOf(r) = IdsOf(q) \cup {b}
  <2>1. ASSUME NEW x \in IdsOf(r) PROVE x \in IdsOf(q) \cup {b}
    BY <1>1, <1>2, <1>3 DEF IdsOf
  <2>2. ASSUME NEW x \in IdsOf(q) PROVE x \in IdsOf(r)
    <3>1. PICK i \in 1..l : x = q[i].id
      BY DEF IdsOf
    <3>2. i \in 1..Len(r) /\ r[i] = q[i]
      BY <1>2
    <3> QED
      BY <3>1, <3>2 DEF IdsOf
  <2>3. b \in IdsOf(r)
    <3>1. l + 1 \in 1..Len(r)
      BY <1>2
    <3> QED
      BY <1>1, <1>2, <3>1 DEF IdsOf
  <2> QED
    BY <2>1, <2>2, <2>3
<1>5. ASSUME Uniq(q), b \notin IdsOf(q) PROVE Uniq(r)
  <2>1. \A i \in 1..l : q[i].id # b
    BY <1>5 DEF IdsOf
  <2> SUFFICES ASSUME NEW i \in 1..Len(r), NEW j \in 1..Len(r), r[i].id = r[j].id
               PROVE  i = j
    BY DEF Uniq
  <2>2. CASE i \in 1..l /\ j \in 1..l
    BY <1>2, <1>5, <2>2 DEF Uniq
  <2> QED
    BY <1>1, <1>2, <1>3, <2>1, <2>2
<1>6. ASSUME NEW w, Line(q, w, n), q = <<>> => w = n PROVE Line(r, w, n + k)
  <2>1. r[1].lo = w
    <3>1. CASE q = <<>>
      BY <1>1, <1>2, <1>6, <3>1
    <3>2. CASE q # <<>>
      BY <1>2, <1>6, <3>2 DEF Line, Chain
    <3> QED
      BY <3>1, <3>2
  <2>2. ASSUME NEW i \in 1..Len(r) - 1 PROVE r[i].hi = r[i + 1].lo
    <3>1. CASE i = l
      <4>1. q # <<>>
        BY <2>2, <3>1
      <4> QED
        BY <1>1, <1>2, <1>6, <2>2, <3>1, <4>1 DEF Line
    <3>2. CASE i # l
      <4>1. i \in 1..l - 1 /\ i \in 1..l /\ i + 1 \in 1..l
        BY <1>2, <2>2, <3>2
      <4> QED
        BY <1>2, <1>6, <4>1 DEF Line, Chain
    <3> QED
      BY <3>1, <3>2
  <2>3. r[Len(r)].hi = n + k
    BY <1>1, <1>2
  <2> QED
    BY <2>1, <2>2, <2>3 DEF Line, Chain
<1> QED
  BY <1>2, <1>4, <1>5, <1>6 DEF r, p

-----------------------------------------------------------------------------
(* The state.                                                               *)

\* The two halves of TypeOK.
QueueOK ==
  /\ open \in [Chan -> BOOLEAN]
  /\ bundles_ \in [Chan -> Seq(Queued)]
  /\ is_notified_send_ \in [Chan -> BOOLEAN]
  /\ isCondemn_ \in [Chan -> BOOLEAN]
  /\ pool \subseteq Bundles
  /\ written \in [Chan -> Nat] /\ wire \in [Chan -> Nat]
  /\ intact \in [Chan -> BOOLEAN] /\ cut \in [Chan -> BOOLEAN]

DelayOK ==
  /\ reachable \in [Chan -> BOOLEAN]
  /\ channeladdrs_ \subseteq Addr /\ channel_addr_ \in Addr /\ walk \subseteq Addr

\* The limit at which a channel is condemned, if there is one.
Limited == Critical > 0 /\ Overflow > 0
Window == IF Critical > Overflow THEN Critical ELSE Overflow

\* What IInv says of one channel alone ...
ChanInv(c) ==
  /\ open[c] =>
       /\ ~cut[c] => intact[c]
       /\ Line(bundles_[c], wire[c], written[c])
       /\ bundles_[c] = <<>> /\ ~isCondemn_[c] => wire[c] = written[c]
       /\ ~isCondemn_[c] => (is_notified_send_[c] <=> bundles_[c] # <<>>)
  /\ ~open[c] =>
       /\ bundles_[c] = <<>> /\ ~is_notified_send_[c] /\ ~isCondemn_[c]
       /\ written[c] = 0 /\ wire[c] = 0 /\ intact[c] /\ ~cut[c]
  /\ Limited => /\ Len(bundles_[c]) <= Window + 1
                /\ ~isCondemn_[c] => Len(bundles_[c]) <= Window

\* ... and of who owns its bundles.
OwnInv(c) ==
  /\ IdsOf(bundles_[c]) \cap pool = {}
  /\ Uniq(bundles_[c])
  /\ \A d \in Chan \ {c} : IdsOf(bundles_[c]) \cap IdsOf(bundles_[d]) = {}

AllInv == QueueOK /\ DelayOK /\ \A c \in Chan : ChanInv(c) /\ OwnInv(c)

\* IInv, channel by channel.
LEMMA ByChannel == IInv <=> AllInv
<1>1. TypeOK <=> QueueOK /\ DelayOK
  BY DEF TypeOK, QueueOK, DelayOK
<1>2. OwnedOnce <=> \A c \in Chan : OwnInv(c)
  BY DEF OwnedOnce, OwnInv, Uniq
<1>3. ASSUME IInv, NEW c \in Chan PROVE ChanInv(c)
  <2>1. open[c] =>
       /\ ~cut[c] => intact[c]
       /\ Line(bundles_[c], wire[c], written[c])
       /\ bundles_[c] = <<>> /\ ~isCondemn_[c] => wire[c] = written[c]
    BY <1>3 DEF IInv, QueueInOrder, Line
  <2>2. open[c] /\ ~isCondemn_[c] => (is_notified_send_[c] <=> bundles_[c] # <<>>)
    BY <1>3 DEF IInv, WaitsForEvent
  <2>3. Limited => /\ Len(bundles_[c]) <= Window + 1
                   /\ ~isCondemn_[c] => Len(bundles_[c]) <= Window
    BY <1>3 DEF IInv, WindowBounds, WithinWindow, Limited, Window
  <2>4. ~open[c] =>
       /\ bundles_[c] = <<>> /\ ~is_notified_send_[c] /\ ~isCondemn_[c]
       /\ written[c] = 0 /\ wire[c] = 0 /\ intact[c] /\ ~cut[c]
    BY <1>3 DEF IInv, ClosedIsClear
  <2> QED
    BY <2>1, <2>2, <2>3, <2>4 DEF ChanInv
<1>4. ASSUME \A c \in Chan : ChanInv(c)
      PROVE  QueueInOrder /\ WaitsForEvent /\ WindowBounds /\ ClosedIsClear /\ WithinWindow
  <2>1. QueueInOrder
    BY <1>4 DEF QueueInOrder, ChanInv, Line
  <2>2. WaitsForEvent
    BY <1>4 DEF WaitsForEvent, ChanInv
  <2>3. WindowBounds
    BY <1>4 DEF WindowBounds, ChanInv, Limited, Window
  <2>4. ClosedIsClear
    BY <1>4 DEF ClosedIsClear, ChanInv
  <2>5. WithinWindow
    BY <1>4 DEF WithinWindow, ChanInv, Limited, Window
  <2> QED
    BY <2>1, <2>2, <2>3, <2>4, <2>5
<1>5. IInv => TypeOK /\ OwnedOnce
  BY DEF IInv
<1> QED
  BY <1>1, <1>2, <1>3, <1>4, <1>5 DEF AllInv, IInv

\* The same of the next state.
LEMMA AllInvNext == AllInv' => IInv'
<1>1. AllInv => IInv
  BY ByChannel
<1> QED
  BY <1>1, PTL

\* A step that leaves the other channels alone ...
Others(c) ==
  \A e \in Chan : e # c =>
    /\ open'[e] = open[e] /\ bundles_'[e] = bundles_[e]
    /\ is_notified_send_'[e] = is_notified_send_[e]
    /\ isCondemn_'[e] = isCondemn_[e]
    /\ written'[e] = written[e] /\ wire'[e] = wire[e]
    /\ intact'[e] = intact[e] /\ cut'[e] = cut[e]

\* ... and moves bundles only between c and the pool.
Moves(c) ==
  /\ Uniq(bundles_'[c])
  /\ IdsOf(bundles_'[c]) \subseteq IdsOf(bundles_[c]) \cup pool
  /\ pool' \subseteq pool \cup IdsOf(bundles_[c])
  /\ IdsOf(bundles_'[c]) \cap pool' = {}

\* Such a step keeps the invariant if it keeps it for c.
LEMMA StepKeeps ==
  ASSUME IInv, QueueOK', DelayOK', NEW c \in Chan, Others(c), Moves(c), ChanInv(c)'
  PROVE  IInv'
<1>1. AllInv
  BY ByChannel
<1>2. ASSUME NEW e \in Chan PROVE ChanInv(e)'
  <2>1. CASE e = c
    BY <2>1
  <2>2. CASE e # c
    <3>1. ChanInv(e)
      BY <1>1 DEF AllInv
    <3> QED
      BY <2>2, <3>1 DEF ChanInv, Others
  <2> QED
    BY <2>1, <2>2
<1>3. ASSUME NEW e \in Chan, e # c
      PROVE  /\ bundles_'[e] = bundles_[e]
             /\ IdsOf(bundles_[e]) \cap (pool \cup IdsOf(bundles_[c])) = {}
             /\ Uniq(bundles_[e])
  BY <1>1, <1>3 DEF AllInv, OwnInv, Others
<1>4. ASSUME NEW e \in Chan PROVE OwnInv(e)'
  <2>1. IdsOf(bundles_'[e]) \cap pool' = {} /\ Uniq(bundles_'[e])
    BY <1>3 DEF Moves
  <2>2. ASSUME NEW d \in Chan, d # e
        PROVE  IdsOf(bundles_'[e]) \cap IdsOf(bundles_'[d]) = {}
    <3>1. CASE e = c
      BY <1>3, <2>2, <3>1 DEF Moves
    <3>2. CASE d = c
      BY <1>3, <2>2, <3>2 DEF Moves
    <3>3. CASE e # c /\ d # c
      BY <1>1, <1>3, <2>2, <3>3 DEF AllInv, OwnInv
    <3> QED
      BY <3>1, <3>2, <3>3
  <2> QED
    BY <2>1, <2>2 DEF OwnInv
<1>5. AllInv'
  BY <1>2, <1>4 DEF AllInv
<1> QED
  BY <1>5, AllInvNext

\* A step that touches no queue.
LEMMA IdleKeeps ==
  ASSUME IInv, UNCHANGED queue, DelayOK'
  PROVE  IInv'
<1>1. AllInv
  BY ByChannel
<1>2. QueueOK'
  BY <1>1 DEF AllInv, QueueOK, queue, stream
<1>3. ASSUME NEW c \in Chan PROVE ChanInv(c)'
  BY <1>1 DEF AllInv, ChanInv, queue, stream
<1>4. ASSUME NEW c \in Chan PROVE OwnInv(c)'
  BY <1>1 DEF AllInv, OwnInv, queue, stream
<1>5. AllInv'
  BY <1>2, <1>3, <1>4 DEF AllInv
<1> QED
  BY <1>5, AllInvNext

\* The values the variables have at c.
LEMMA AtChannel ==
  ASSUME IInv, NEW c \in Chan
  PROVE  /\ QueueOK /\ DelayOK /\ ChanInv(c) /\ OwnInv(c)
         /\ bundles_[c] \in Seq(Queued) /\ Len(bundles_[c]) \in Nat
         /\ written[c] \in Nat /\ wire[c] \in Nat
<1>1. QueueOK /\ DelayOK /\ ChanInv(c) /\ OwnInv(c)
  BY ByChannel DEF AllInv
<1>2. bundles_[c] \in Seq(Queued)
  BY <1>1 DEF QueueOK
<1> QED
  BY <1>1, <1>2 DEF QueueOK

\* Below the limit a queue is within the window.
LEMMA BelowLimit ==
  ASSUME NEW n \in Nat, Limited, ~Overflows(n)
  PROVE  n <= Window
BY CQAssumption DEF Limited, Overflows, Window

-----------------------------------------------------------------------------
(* Channel::send.                                                           *)

\* What send is called with: nothing, or a bundle out of the pool.
Fresh(c, new) ==
  \/ new = <<>>
  \/ \E b \in pool, k \in Nat :
       new = <<[id |-> b, lo |-> written[c], hi |-> written[c] + k]>>

\* The packets queued on the connection then.
Total(c, new) == IF new = <<>> THEN written[c] ELSE new[1].hi

\* The queue send works on.
LEMMA Joined ==
  ASSUME IInv, NEW c \in Chan, open[c], NEW new, Fresh(c, new)
  PROVE  LET q == bundles_[c] \o new
         IN  /\ q \in Seq(Queued) /\ Len(q) \in Nat /\ Len(q) <= Len(bundles_[c]) + 1
             /\ Uniq(q)
             /\ IdsOf(q) = IdsOf(bundles_[c]) \cup IdsOf(new)
             /\ IdsOf(new) \subseteq pool
             /\ Total(c, new) \in Nat
             /\ q = <<>> => bundles_[c] = <<>>
             /\ bundles_[c] = <<>> /\ q = <<>> => new = <<>>
             /\ ~isCondemn_[c] => /\ Line(q, wire[c], Total(c, new))
                                  /\ q = <<>> => wire[c] = Total(c, new)
<1> DEFINE b0 == bundles_[c]
<1>1. /\ b0 \in Seq(Queued) /\ Len(b0) \in Nat /\ written[c] \in Nat
      /\ ChanInv(c) /\ OwnInv(c) /\ pool \subseteq Bundles
  BY AtChannel DEF QueueOK
<1>2. Uniq(b0) /\ IdsOf(b0) \cap pool = {}
  BY <1>1 DEF OwnInv
<1>3. ~isCondemn_[c] => Line(b0, wire[c], written[c]) /\ (b0 = <<>> => wire[c] = written[c])
  BY <1>1 DEF ChanInv
<1>4. CASE new = <<>>
  <2>1. b0 \o new = b0
    BY <1>1, <1>4
  <2>2. IdsOf(<<>>) = {}
    BY DEF IdsOf
  <2>3. Total(c, new) = written[c]
    BY <1>4 DEF Total
  <2> QED
    BY <1>1, <1>2, <1>3, <1>4, <2>1, <2>2, <2>3
<1>5. CASE new # <<>>
  <2>1. PICK b \in pool, k \in Nat :
          new = <<[id |-> b, lo |-> written[c], hi |-> written[c] + k]>>
    BY <1>5 DEF Fresh
  <2> DEFINE p == [id |-> b, lo |-> written[c], hi |-> written[c] + k]
             r == b0 \o <<p>>
  <2>2. b \in Bundles
    BY <1>1
  <2>3. /\ r \in Seq(Queued) /\ r # <<>> /\ Len(r) = Len(b0) + 1
        /\ IdsOf(r) = IdsOf(b0) \cup {b}
        /\ Uniq(b0) /\ b \notin IdsOf(b0) => Uniq(r)
        /\ \A w : Line(b0, w, written[c]) /\ (b0 = <<>> => w = written[c])
                    => Line(r, w, written[c] + k)
    BY <1>1, <2>2, QueuedBehind
  <2>4. Total(c, new) = written[c] + k /\ new[1] = p
    BY <1>5, <2>1 DEF Total
  <2>5. IdsOf(new) = {b}
    <3>1. Len(new) = 1 /\ new[1].id = b
      BY <2>1
    <3> QED
      BY <3>1 DEF IdsOf
  <2>6. b \notin IdsOf(b0)
    BY <1>2
  <2>7. r = b0 \o new
    BY <2>1
  <2> HIDE DEF r, p, b0
  <2>8. Len(r) \in Nat /\ Len(r) <= Len(b0) + 1 /\ written[c] + k \in Nat
    BY <1>1, <2>3
  <2>9. ~isCondemn_[c] => Line(r, wire[c], Total(c, new))
    BY <1>3, <2>3, <2>4
  <2> QED
    BY <1>2, <2>3, <2>4, <2>5, <2>6, <2>7, <2>8, <2>9 DEF b0
<1> QED
  BY <1>4, <1>5

\* A condemned channel gives everything back.
LEMMA RefusedKeeps ==
  ASSUME IInv, NEW c \in Chan, open[c], NEW new, Fresh(c, new),
         SendRefused(c, new), DelayOK'
  PROVE  IInv'
<1>1. QueueOK /\ ChanInv(c) /\ OwnInv(c) /\ bundles_[c] \in Seq(Queued)
  BY AtChannel
<1>2. IdsOf(new) \subseteq pool /\ IdsOf(bundles_[c]) \subseteq Bundles
  <2>1. IdsOf(bundles_[c]) \subseteq Bundles
    BY <1>1, Fields DEF IdsOf
  <2> QED
    BY <2>1, Joined
<1>3. QueueOK'
  BY <1>1, <1>2 DEF QueueOK, SendRefused, stream
<1>4. Others(c)
  BY <1>1 DEF QueueOK, SendRefused, stream, Others
<1>5. /\ bundles_'[c] = <<>> /\ isCondemn_'[c] /\ open'[c]
      /\ ~cut'[c] => intact'[c]
      /\ Limited => Window \in Nat
  BY <1>1, CQAssumption DEF QueueOK, SendRefused, stream, ChanInv, Window
<1>6. Moves(c)
  BY <1>2, <1>5 DEF Moves, Uniq, IdsOf, SendRefused
<1>7. ChanInv(c)'
  BY <1>5, CQAssumption DEF ChanInv, Line, Chain
<1> QED
  BY <1>3, <1>4, <1>6, <1>7, StepKeeps

\* A channel that waits only queues.
LEMMA WaitsKeeps ==
  ASSUME IInv, NEW c \in Chan, open[c], NEW new, Fresh(c, new),
         SendWaits(c, new), DelayOK'
  PROVE  IInv'
<1> DEFINE q == bundles_[c] \o new
           n == Total(c, new)
           v == Overflows(Len(q))
<1>1. QueueOK /\ ChanInv(c) /\ OwnInv(c) /\ Len(bundles_[c]) \in Nat
  BY AtChannel
<1>2. ~isCondemn_[c]
  BY DEF SendWaits, Accepts
<1>3. /\ q \in Seq(Queued) /\ Len(q) \in Nat /\ Len(q) <= Len(bundles_[c]) + 1
      /\ Uniq(q)
      /\ IdsOf(q) = IdsOf(bundles_[c]) \cup IdsOf(new)
      /\ IdsOf(new) \subseteq pool
      /\ n \in Nat /\ Line(q, wire[c], n)
      /\ q = <<>> => bundles_[c] = <<>> /\ wire[c] = n
  BY <1>2, Joined
<1>4. v \in BOOLEAN
  BY DEF Overflows
<1>5. /\ bundles_' = [bundles_ EXCEPT ![c] = q]
      /\ written' = [written EXCEPT ![c] = n]
      /\ isCondemn_' = [isCondemn_ EXCEPT ![c] = v]
      /\ pool' = pool \ IdsOf(new)
      /\ open' = open /\ is_notified_send_' = is_notified_send_
      /\ wire' = wire /\ intact' = intact /\ cut' = cut
      /\ q = <<>> \/ is_notified_send_[c]
  BY DEF SendWaits, Accepts, Total
<1>6. Limited /\ ~v => Len(q) <= Window
  BY <1>3, BelowLimit
<1>7. q # <<>> /\ is_notified_send_[c] => bundles_[c] # <<>>
  BY <1>1, <1>2 DEF ChanInv
<1>8. is_notified_send_[c] <=> q # <<>>
  BY <1>1, <1>2, <1>3, <1>5 DEF ChanInv
<1> HIDE DEF q, n, v
<1>9. QueueOK'
  BY <1>1, <1>3, <1>4, <1>5 DEF QueueOK
<1>10. Others(c)
  BY <1>1, <1>5 DEF QueueOK, Others
<1>11. bundles_'[c] = q /\ written'[c] = n /\ isCondemn_'[c] = v
  BY <1>1, <1>5 DEF QueueOK
<1>12. Moves(c)
  <2>1. IdsOf(bundles_[c]) \cap pool = {}
    BY <1>1 DEF OwnInv
  <2> QED
    BY <1>3, <1>5, <1>11, <2>1 DEF Moves
<1>13. Limited => Len(q) <= Window + 1
  BY <1>1, <1>2, <1>3, CQAssumption DEF ChanInv, Limited, Window
<1>14. ~cut[c] => intact[c]
  BY <1>1 DEF ChanInv
<1>15. ChanInv(c)'
  BY <1>3, <1>5, <1>6, <1>8, <1>11, <1>13, <1>14 DEF ChanInv, Limited, Window
<1> QED
  BY <1>9, <1>10, <1>12, <1>15, StepKeeps

\* What the socket is given, and what it makes of it.
LEMMA GivesEnd ==
  ASSUME QueueOK, NEW c \in Chan, NEW q, NEW i, NEW j, Gives(c, q, i, j)
  PROVE  /\ wire' = [wire EXCEPT ![c] = End(q, wire[c], i, j)]
         /\ intact' \in [Chan -> BOOLEAN] /\ cut' \in [Chan -> BOOLEAN]
         /\ (~cut[c] => intact[c]) /\ Chain(Given(q, i, j), wire[c])
              => (~cut'[c] => intact'[c])
         /\ \A e \in Chan : e # c => intact'[e] = intact[e] /\ cut'[e] = cut[e]
<1> DEFINE ok == Chain(Given(q, i, j), wire[c])
<1>1. ok \in BOOLEAN
  BY DEF Chain
<1>2. PICK part \in BOOLEAN :
        /\ intact' = [intact EXCEPT ![c] = @ /\ ok /\ ~part]
        /\ cut' = [cut EXCEPT ![c] = @ \/ part]
  BY DEF Gives, Given
<1> HIDE DEF ok
<1>3. intact \in [Chan -> BOOLEAN] /\ cut \in [Chan -> BOOLEAN]
  BY DEF QueueOK
<1>4. /\ intact' \in [Chan -> BOOLEAN] /\ cut' \in [Chan -> BOOLEAN]
      /\ intact'[c] = (intact[c] /\ ok /\ ~part)
      /\ cut'[c] = (cut[c] \/ part)
      /\ \A e \in Chan : e # c => intact'[e] = intact[e] /\ cut'[e] = cut[e]
  BY <1>1, <1>2, <1>3
<1>5. wire' = [wire EXCEPT ![c] = End(q, wire[c], i, j)]
  BY DEF Gives, End
<1>6. (~cut[c] => intact[c]) /\ ok => (~cut'[c] => intact'[c])
  BY <1>4
<1> QED
  BY <1>4, <1>5, <1>6 DEF ok

\* send never takes down the channel: it is not waiting when it sends.
LEMMA SendNowStays ==
  ASSUME QueueOK, NEW c \in Chan, open[c], NEW new, NEW pos, NEW fails \in BOOLEAN,
         SendNow(c, new, pos, fails)
  PROVE  open' = open
BY DEF SendNow, Destroys, QueueOK

\* process_send at once.
LEMMA NowKeeps ==
  ASSUME IInv, NEW c \in Chan, open[c], NEW new, Fresh(c, new),
         NEW pos \in Positions(bundles_[c] \o new), NEW fails \in BOOLEAN,
         SendNow(c, new, pos, fails), DelayOK'
  PROVE  IInv'
<1> DEFINE q == bundles_[c] \o new
           n == Total(c, new)
           i == pos[1]
           j == pos[2]
           r == Rest(q, i, j)
           w == End(q, wire[c], i, j)
           v == fails \/ Overflows(Len(q))
           note == r # <<>> /\ ~fails
<1>1. /\ QueueOK /\ ChanInv(c) /\ OwnInv(c)
      /\ Len(bundles_[c]) \in Nat /\ wire[c] \in Nat
  BY AtChannel
<1>2. ~isCondemn_[c] /\ q # <<>> /\ (~cut[c] => intact[c])
  BY <1>1 DEF SendNow, Accepts, ChanInv
<1>3. /\ q \in Seq(Queued) /\ Len(q) \in Nat /\ Len(q) <= Len(bundles_[c]) + 1
      /\ Uniq(q)
      /\ IdsOf(q) = IdsOf(bundles_[c]) \cup IdsOf(new)
      /\ IdsOf(new) \subseteq pool
      /\ n \in Nat /\ Line(q, wire[c], n)
  BY <1>2, Joined
<1>4. /\ bundles_' = [bundles_ EXCEPT ![c] = r]
      /\ written' = [written EXCEPT ![c] = n]
      /\ isCondemn_' = [isCondemn_ EXCEPT ![c] = v]
      /\ is_notified_send_' = [is_notified_send_ EXCEPT ![c] = note]
      /\ pool' = (pool \ IdsOf(new)) \cup Sent(q, i)
      /\ Gives(c, q, i, j)
  BY DEF SendNow, Accepts, Total
<1>5. open' = open
  BY <1>1, SendNowStays
<1> HIDE DEF q
<1>6. At(q, i, j)
  BY <1>3, PositionsAt DEF q
<1>7. Len(q) - i + 1 \in Nat /\ Len(q) - i + 1 <= Len(q)
  BY <1>3, <1>6 DEF At
<1>8. /\ wire' = [wire EXCEPT ![c] = w]
      /\ intact' \in [Chan -> BOOLEAN] /\ cut' \in [Chan -> BOOLEAN]
      /\ (~cut[c] => intact[c]) /\ Chain(Given(q, i, j), wire[c])
           => (~cut'[c] => intact'[c])
      /\ \A e \in Chan : e # c => intact'[e] = intact[e] /\ cut'[e] = cut[e]
  BY <1>1, <1>4, GivesEnd
<1> HIDE DEF i, j
<1>9. r \in Seq(Queued) /\ Len(r) = Len(q) - i + 1 /\ (r = <<>> <=> All(q, i))
  BY <1>3, <1>6, RestFields
<1>10. /\ IdsOf(r) \subseteq IdsOf(q) /\ Sent(q, i) \subseteq IdsOf(q)
       /\ Uniq(r) /\ Sent(q, i) \cap IdsOf(r) = {}
  BY <1>3, <1>6, RestIds
<1>11. /\ Chain(Given(q, i, j), wire[c]) /\ Line(r, w, n)
       /\ r = <<>> => w = n
  BY <1>2, <1>3, <1>6, <1>9, RestLine
<1>12. w \in Nat
  BY <1>1, <1>3, <1>6, EndIsNat
<1>13. v \in BOOLEAN /\ note \in BOOLEAN
  BY DEF Overflows
<1>14. ~v => ~fails /\ (Limited => Len(q) <= Window)
  BY <1>3, BelowLimit
<1>15. IdsOf(q) \subseteq Bundles
  BY <1>3, Fields DEF IdsOf
<1>16. ~v => (note <=> r # <<>>)
  BY <1>14
<1> HIDE DEF r, w, n, v, note
<1>17. QueueOK'
  BY <1>1, <1>3, <1>4, <1>5, <1>8, <1>9, <1>10, <1>12, <1>13, <1>15 DEF QueueOK
<1>18. Others(c)
  BY <1>1, <1>4, <1>5, <1>8 DEF QueueOK, Others
<1>19. /\ bundles_'[c] = r /\ written'[c] = n /\ isCondemn_'[c] = v
       /\ is_notified_send_'[c] = note /\ wire'[c] = w
  BY <1>1, <1>4, <1>8 DEF QueueOK
<1>20. Moves(c)
  <2>1. IdsOf(bundles_[c]) \cap pool = {}
    BY <1>1 DEF OwnInv
  <2> QED
    BY <1>3, <1>4, <1>10, <1>19, <2>1 DEF Moves
<1>21. Limited => Len(r) <= Window + 1 /\ (~v => Len(r) <= Window)
  BY <1>1, <1>2, <1>3, <1>7, <1>9, <1>14, CQAssumption DEF ChanInv, Limited, Window
<1>22. ~cut'[c] => intact'[c]
  BY <1>2, <1>8, <1>11
<1>23. ChanInv(c)'
  BY <1>5, <1>11, <1>16, <1>19, <1>21, <1>22 DEF ChanInv, Limited, Window
<1> QED
  BY <1>17, <1>18, <1>20, <1>23, StepKeeps

\* send, whoever calls it.
LEMMA SendKeeps ==
  ASSUME IInv, NEW c \in Chan, NEW new, Fresh(c, new), send(c, new), DelayOK'
  PROVE  IInv'
<1>1. open[c]
  BY DEF send
<1>2. CASE SendRefused(c, new)
  BY <1>1, <1>2, RefusedKeeps
<1>3. CASE SendWaits(c, new)
  BY <1>1, <1>3, WaitsKeeps
<1>4. CASE \E pos \in Positions(bundles_[c] \o new), fails \in BOOLEAN :
             SendNow(c, new, pos, fails)
  BY <1>1, <1>4, NowKeeps
<1> QED
  BY <1>2, <1>3, <1>4 DEF send

\* The application sends a bundle.
LEMMA BundleKeeps ==
  ASSUME IInv, NEW c \in Chan, NEW b \in Bundles, NEW n \in 0..MaxPackets,
         SendBundle(c, b, n)
  PROVE  IInv'
<1> DEFINE new == <<[id |-> b, lo |-> written[c], hi |-> written[c] + n]>>
<1>1. n \in Nat /\ b \in pool
  BY CQAssumption DEF SendBundle
<1>2. Fresh(c, new)
  BY <1>1 DEF Fresh
<1>3. send(c, new) /\ UNCHANGED delayed
  BY DEF SendBundle
<1>4. DelayOK'
  BY <1>3, AtChannel DEF DelayOK, send, delayed
<1> HIDE DEF new
<1> QED
  BY <1>2, <1>3, <1>4, SendKeeps

-----------------------------------------------------------------------------
(* The write event, and the end of a connection.                            *)

\* A channel taken down leaves nothing behind but its bundles.
LEMMA GoneKeeps ==
  ASSUME IInv, NEW c \in Chan, Gone(c), DelayOK',
         pool' \subseteq pool \cup IdsOf(bundles_[c])
  PROVE  IInv'
<1>1. QueueOK /\ bundles_[c] \in Seq(Queued)
  BY AtChannel
<1>2. IdsOf(bundles_[c]) \subseteq Bundles
  BY <1>1, Fields DEF IdsOf
<1>3. QueueOK'
  BY <1>1, <1>2 DEF QueueOK, Gone
<1>4. Others(c)
  BY <1>1 DEF QueueOK, Gone, Others
<1>5. /\ ~open'[c] /\ bundles_'[c] = <<>> /\ ~is_notified_send_'[c]
      /\ ~isCondemn_'[c] /\ written'[c] = 0 /\ wire'[c] = 0
      /\ intact'[c] /\ ~cut'[c]
  BY <1>1 DEF QueueOK, Gone
<1>6. Moves(c)
  BY <1>5 DEF Moves, Uniq, IdsOf
<1>7. ChanInv(c)'
  BY <1>5, CQAssumption DEF ChanInv, Limited, Window
<1> QED
  BY <1>3, <1>4, <1>6, <1>7, StepKeeps

\* process_send below a write event.
LEMMA WriteSendsKeeps ==
  ASSUME IInv, NEW c \in Chan, NEW pos \in Positions(bundles_[c]), WriteSends(c, pos)
  PROVE  IInv'
<1> DEFINE q == bundles_[c]
           n == written[c]
           i == pos[1]
           j == pos[2]
           r == Rest(q, i, j)
           w == End(q, wire[c], i, j)
           note == StillWaits(q, i)
<1>1. /\ QueueOK /\ DelayOK /\ ChanInv(c) /\ OwnInv(c)
      /\ q \in Seq(Queued) /\ Len(q) \in Nat /\ wire[c] \in Nat
  BY AtChannel
<1>2. ~isCondemn_[c] /\ open[c] /\ is_notified_send_[c]
  BY DEF WriteSends, Writable
<1>3. q # <<>> /\ (~cut[c] => intact[c]) /\ Line(q, wire[c], n) /\ Uniq(q)
  BY <1>1, <1>2 DEF ChanInv, OwnInv
<1>4. /\ bundles_' = [bundles_ EXCEPT ![c] = r]
      /\ is_notified_send_' = [is_notified_send_ EXCEPT ![c] = note]
      /\ pool' = pool \cup Sent(q, i)
      /\ Gives(c, q, i, j)
      /\ UNCHANGED <<open, isCondemn_, written, reachable, delayed>>
  BY DEF WriteSends
<1>5. At(q, i, j)
  BY <1>1, PositionsAt
<1>6. /\ wire' = [wire EXCEPT ![c] = w]
      /\ intact' \in [Chan -> BOOLEAN] /\ cut' \in [Chan -> BOOLEAN]
      /\ (~cut[c] => intact[c]) /\ Chain(Given(q, i, j), wire[c])
           => (~cut'[c] => intact'[c])
      /\ \A e \in Chan : e # c => intact'[e] = intact[e] /\ cut'[e] = cut[e]
  BY <1>1, <1>4, GivesEnd
<1>7. Len(q) - i + 1 \in Nat /\ Len(q) - i + 1 <= Len(q)
  BY <1>1, <1>5 DEF At
<1> HIDE DEF i, j
<1>8. r \in Seq(Queued) /\ Len(r) = Len(q) - i + 1 /\ (r = <<>> <=> All(q, i))
  BY <1>1, <1>5, RestFields
<1>9. /\ IdsOf(r) \subseteq IdsOf(q) /\ Sent(q, i) \subseteq IdsOf(q)
      /\ Uniq(r) /\ Sent(q, i) \cap IdsOf(r) = {}
  BY <1>1, <1>3, <1>5, RestIds
<1>10. /\ Chain(Given(q, i, j), wire[c]) /\ Line(r, w, n)
       /\ r = <<>> => w = n
  BY <1>1, <1>3, <1>5, <1>8, RestLine
<1>11. w \in Nat
  BY <1>1, <1>5, EndIsNat
<1>12. note \in BOOLEAN /\ (note <=> r # <<>>)
  BY <1>8 DEF StillWaits, All
<1>13. IdsOf(q) \subseteq Bundles
  BY <1>1, Fields DEF IdsOf
<1> HIDE DEF r, w, note
<1>14. QueueOK' /\ DelayOK'
  <2>1. QueueOK'
    BY <1>1, <1>4, <1>6, <1>8, <1>9, <1>11, <1>12, <1>13 DEF QueueOK
  <2>2. DelayOK'
    BY <1>1, <1>4 DEF DelayOK, delayed
  <2> QED
    BY <2>1, <2>2
<1>15. Others(c)
  BY <1>1, <1>4, <1>6 DEF QueueOK, Others
<1>16. bundles_'[c] = r /\ is_notified_send_'[c] = note /\ wire'[c] = w
  BY <1>1, <1>4, <1>6 DEF QueueOK
<1>17. Moves(c)
  <2>1. IdsOf(q) \cap pool = {}
    BY <1>1 DEF OwnInv
  <2> QED
    BY <1>4, <1>9, <1>16, <2>1 DEF Moves
<1>18. Limited => Len(r) <= Window
  BY <1>1, <1>2, <1>7, <1>8, CQAssumption DEF ChanInv, Limited, Window
<1>19. Limited => Len(r) <= Window + 1
  <2>1. Window \in Nat /\ Len(r) \in Nat
    BY <1>7, <1>8, CQAssumption DEF Window
  <2> QED
    BY <1>18, <2>1
<1>20. ~cut'[c] => intact'[c]
  BY <1>3, <1>6, <1>10
<1>21. ChanInv(c)'
  BY <1>2, <1>4, <1>10, <1>12, <1>16, <1>18, <1>19, <1>20 DEF ChanInv, Limited, Window
<1> QED
  BY <1>14, <1>15, <1>17, <1>21, StepKeeps

\* A write event, whatever it meets.
LEMMA WriteEventKeeps ==
  ASSUME IInv, NEW c \in Chan, WriteEvent(c)
  PROVE  IInv'
<1>1. QueueOK /\ DelayOK /\ bundles_[c] \in Seq(Queued)
  BY AtChannel
<1>2. CASE WriteCondemned(c)
  <2>1. DelayOK' /\ pool' = pool /\ Gone(c)
    BY <1>1, <1>2 DEF WriteCondemned, DelayOK, delayed
  <2> QED
    BY <2>1, GoneKeeps
<1>3. ASSUME NEW pos \in Positions(bundles_[c]), WriteFails(c, pos) PROVE IInv'
  <2>1. DelayOK' /\ pool' = pool \cup Sent(bundles_[c], pos[1]) /\ Gone(c)
    BY <1>1, <1>3 DEF WriteFails, DelayOK, delayed
  <2>2. At(bundles_[c], pos[1], pos[2])
    BY <1>1, PositionsAt
  <2>3. Sent(bundles_[c], pos[1]) \subseteq IdsOf(bundles_[c])
    BY <1>1, <2>2, RestIds
  <2> QED
    BY <2>1, <2>3, GoneKeeps
<1>4. ASSUME NEW pos \in Positions(bundles_[c]), WriteSends(c, pos) PROVE IInv'
  BY <1>4, WriteSendsKeeps
<1> QED
  BY <1>2, <1>3, <1>4 DEF WriteEvent

\* A channel that leaves.
LEMMA LeavesKeeps ==
  ASSUME IInv, NEW c \in Chan, Leaves(c)
  PROVE  IInv'
<1>1. DelayOK' /\ pool' = pool /\ Gone(c)
  BY AtChannel DEF Leaves, DelayOK, delayed
<1> QED
  BY <1>1, GoneKeeps

\* A connection begins with what the last one from that address has left:
\* nothing.
LEMMA ConnectsKeeps ==
  ASSUME IInv, NEW c \in Chan, Connects(c)
  PROVE  IInv'
<1>1. QueueOK /\ DelayOK /\ ChanInv(c) /\ OwnInv(c)
  BY AtChannel
<1>2. QueueOK' /\ DelayOK'
  BY <1>1 DEF QueueOK, DelayOK, Connects, stream, delayed
<1>3. Others(c)
  BY <1>1 DEF QueueOK, Connects, stream, Others
<1>4. bundles_' = bundles_ /\ pool' = pool
  BY DEF Connects
<1>5. Moves(c)
  BY <1>1, <1>4 DEF Moves, OwnInv
<1>6. /\ bundles_'[c] = <<>> /\ ~is_notified_send_'[c] /\ ~isCondemn_'[c]
      /\ written'[c] = 0 /\ wire'[c] = 0 /\ intact'[c] /\ open'[c]
  BY <1>1 DEF QueueOK, ChanInv, Connects, stream
<1>7. ChanInv(c)'
  BY <1>6, CQAssumption DEF ChanInv, Line, Chain, Limited, Window
<1> QED
  BY <1>2, <1>3, <1>5, <1>7, StepKeeps

-----------------------------------------------------------------------------
(* DelayedChannels.                                                         *)

\* Sending nothing sends what is queued.
LEMMA FreshNothing == \A c : Fresh(c, <<>>)
BY DEF Fresh

\* The steps of DelayedChannels.
LEMMA DelayedKeeps ==
  ASSUME IInv, NEW c \in Chan, DelayedAdd(c) \/ send_delayed_channel(c) \/ PeerGoes(c)
  PROVE  IInv'
<1>1. QueueOK /\ DelayOK /\ Peer(c) \in Addr
  BY AtChannel DEF DelayOK, Peer, Addr
<1>2. CASE DelayedAdd(c)
  <2>1. UNCHANGED queue /\ DelayOK'
    BY <1>1, <1>2 DEF DelayedAdd, DelayOK
  <2> QED
    BY <2>1, IdleKeeps
<1>3. CASE send_delayed_channel(c)
  <2>1. /\ channel_addr_' \in Addr /\ channeladdrs_' \subseteq Addr /\ walk' \subseteq Addr
    BY <1>1, <1>3 DEF send_delayed_channel, DelayOK
  <2>2. CASE send(c, <<>>)
    <3>1. DelayOK'
      BY <1>1, <2>1, <2>2 DEF send, DelayOK
    <3> QED
      BY <2>2, <3>1, FreshNothing, SendKeeps
  <2>3. CASE UNCHANGED <<queue, reachable>>
    <3>1. DelayOK'
      BY <1>1, <2>1, <2>3 DEF DelayOK
    <3> QED
      BY <2>3, <3>1, IdleKeeps
  <2> QED
    BY <1>3, <2>2, <2>3 DEF send_delayed_channel
<1>4. CASE PeerGoes(c)
  <2>1. UNCHANGED queue /\ DelayOK'
    BY <1>1, <1>4 DEF PeerGoes, DelayOK, delayed
  <2> QED
    BY <2>1, IdleKeeps
<1> QED
  BY <1>2, <1>3, <1>4

\* The task that walks over the addresses.
LEMMA ProcessKeeps ==
  ASSUME IInv, ProcessBegins \/ \E a \in Addr : ProcessVisits(a)
  PROVE  IInv'
<1>1. DelayOK
  BY ByChannel DEF AllInv
<1>2. CASE ProcessBegins
  <2>1. UNCHANGED queue /\ DelayOK'
    BY <1>1, <1>2 DEF ProcessBegins, DelayOK
  <2> QED
    BY <2>1, IdleKeeps
<1>3. ASSUME NEW a \in Addr, ProcessVisits(a) PROVE IInv'
  <2>1. /\ channel_addr_' \in Addr /\ channeladdrs_' \subseteq Addr /\ walk' \subseteq Addr
    BY <1>1, <1>3 DEF ProcessVisits, DelayOK
  <2>2. CASE a \in Chan /\ send(a, <<>>)
    <3>1. DelayOK'
      BY <1>1, <2>1, <2>2 DEF send, DelayOK
    <3> QED
      BY <2>2, <3>1, FreshNothing, SendKeeps
  <2>3. CASE UNCHANGED <<queue, reachable>>
    <3>1. DelayOK'
      BY <1>1, <2>1, <2>3 DEF DelayOK
    <3> QED
      BY <2>3, <3>1, IdleKeeps
  <2> QED
    BY <1>3, <2>2, <2>3 DEF ProcessVisits
<1> QED
  BY <1>2, <1>3

-----------------------------------------------------------------------------
(* The theorems.                                                            *)

\* The queues of the start are empty and every bundle is in the pool.
LEMMA InitIInv == Init => IInv
<1> SUFFICES ASSUME Init PROVE IInv
  OBVIOUS
<1>1. <<>> \in Seq(Queued)
  OBVIOUS
<1>2. QueueOK /\ DelayOK
  BY <1>1 DEF Init, QueueOK, DelayOK, Addr
<1>3. ASSUME NEW c \in Chan PROVE ChanInv(c) /\ OwnInv(c)
  <2>1. /\ \A d \in Chan : bundles_[d] = <<>>
        /\ ~open[c] /\ ~is_notified_send_[c] /\ ~isCondemn_[c]
        /\ wire[c] = 0 /\ written[c] = 0 /\ intact[c] /\ ~cut[c]
    BY DEF Init
  <2>2. IdsOf(<<>>) = {} /\ Uniq(<<>>)
    BY DEF IdsOf, Uniq
  <2> QED
    BY <2>1, <2>2, CQAssumption DEF ChanInv, OwnInv, Limited, Window
<1> QED
  BY <1>2, <1>3, ByChannel DEF AllInv

\* Every step keeps the invariant.
LEMMA NextIInv == IInv /\ [Next]_vars => IInv'
<1> SUFFICES ASSUME IInv, [Next]_vars PROVE IInv'
  OBVIOUS
<1>1. CASE UNCHANGED vars
  <2>1. UNCHANGED queue
    BY <1>1 DEF vars
  <2>2. DelayOK'
    BY <1>1, ByChannel DEF AllInv, DelayOK, vars, delayed
  <2> QED
    BY <2>1, <2>2, IdleKeeps
<1>2. CASE Next
  BY <1>2, BundleKeeps, WriteEventKeeps, DelayedKeeps, LeavesKeeps, ConnectsKeeps,
     ProcessKeeps DEF Next
<1> QED
  BY <1>1, <1>2

\* IInv holds whatever the application, the sockets, the delayed channels and
\* the connections do.
THEOREM Inductive == Spec => []IInv
<1> QED
  BY InitIInv, NextIInv, PTL DEF Spec

\* The variables keep their types.
THEOREM TypeCorrect == Spec => []TypeOK
<1>1. IInv => TypeOK
  BY DEF IInv
<1> QED
  BY <1>1, Inductive, PTL

\* A bundle is in one queue, once, or in the pool: process_send gives back
\* what it has sent and nothing that it still holds.
THEOREM EachOwnedOnce == Spec => []OwnedOnce
<1>1. IInv => OwnedOnce
  BY DEF IInv
<1> QED
  BY <1>1, Inductive, PTL

\* Wherever process_send stops, the queue goes on with the packet send was not
\* called for, and the socket has had those before it, each whole unless it
\* ever took only a part of one.
THEOREM PacketsInOrder == Spec => []QueueInOrder
<1>1. IInv => QueueInOrder
  BY DEF IInv
<1> QED
  BY <1>1, Inductive, PTL

\* Bundles wait exactly where a write event is registered.
THEOREM NoneForgotten == Spec => []WaitsForEvent
<1>1. IInv => WaitsForEvent
  BY DEF IInv
<1> QED
  BY <1>1, Inductive, PTL

\* The window bounds every queue, by one more than the larger limit.
THEOREM QueueIsBounded == Spec => []WindowBounds
<1>1. IInv => WindowBounds
  BY DEF IInv
<1> QED
  BY <1>1, Inductive, PTL


-----------------------------------------------------------------------------
(* No bundle leaks.                                                         *)

\* What a step may do to the bundles.
Keeps ==
  \A b \in Held :
    \/ b \in Held'
    \/ \E c \in Chan : open[c] /\ ~open'[c] /\ b \in IdsOf(bundles_[c])

\* Every bundle of a queue is sent or left.
LEMMA SentOrLeft ==
  ASSUME NEW q \in Seq(Queued), NEW i, NEW j, At(q, i, j)
  PROVE  IdsOf(q) \subseteq Sent(q, i) \cup IdsOf(Rest(q, i, j))
<1> DEFINE r == Rest(q, i, j)
           s == SubSeq(q, 1, i - 1)
<1>1. Len(q) \in Nat /\ i \in Nat /\ i >= 1 /\ i <= Len(q) + 1
  BY DEF At
<1>2. /\ Len(r) = Len(q) - i + 1
      /\ \A x \in 1..Len(r) : r[x].id = q[i + x - 1].id
  BY RestFields
<1>3. Len(s) = i - 1 /\ \A y \in 1..i - 1 : s[y] = q[y]
  BY <1>1
<1> HIDE DEF r, s
<1>4. ASSUME NEW y \in 1..Len(q) PROVE q[y].id \in IdsOf(s) \cup IdsOf(r)
  <2>1. CASE y < i
    <3>1. y \in 1..Len(s) /\ s[y] = q[y]
      BY <1>1, <1>3, <2>1
    <3> QED
      BY <3>1 DEF IdsOf
  <2>2. CASE y >= i
    <3>1. y - i + 1 \in 1..Len(r) /\ i + (y - i + 1) - 1 = y
      BY <1>1, <1>2, <2>2
    <3>2. r[y - i + 1].id = q[y].id
      BY <1>2, <3>1
    <3> QED
      BY <3>1, <3>2 DEF IdsOf
  <2> QED
    BY <1>1, <2>1, <2>2
<1>5. IdsOf(q) \subseteq IdsOf(s) \cup IdsOf(r)
  BY <1>4 DEF IdsOf
<1> QED
  BY <1>5 DEF Sent, r, s

\* A step that moves bundles between one channel and the pool loses none.
LEMMA MovedAreHeld ==
  ASSUME NEW c \in Chan,
         \A e \in Chan : e # c => bundles_'[e] = bundles_[e],
         pool \cup IdsOf(bundles_[c]) \subseteq pool' \cup IdsOf(bundles_'[c])
  PROVE  Keeps
<1> SUFFICES ASSUME NEW b \in Held PROVE b \in Held'
  BY DEF Keeps
<1>1. CASE b \in pool \cup IdsOf(bundles_[c])
  BY <1>1 DEF Held
<1>2. CASE b \notin pool \cup IdsOf(bundles_[c])
  <2>1. PICK e \in Chan : b \in IdsOf(bundles_[e])
    BY <1>2 DEF Held
  <2>2. b \in IdsOf(bundles_'[e])
    BY <1>2, <2>1
  <2> QED
    BY <2>2 DEF Held
<1> QED
  BY <1>1, <1>2

\* A step that touches no queue.
LEMMA IdleHolds ==
  ASSUME UNCHANGED queue
  PROVE  Keeps
BY DEF Keeps, Held, queue

\* A channel that goes down loses its own bundles only.
LEMMA GoneHolds ==
  ASSUME IInv, NEW c \in Chan, open[c], Gone(c), pool \subseteq pool'
  PROVE  Keeps
<1>1. QueueOK
  BY AtChannel
<1>2. ~open'[c] /\ \A e \in Chan : e # c => bundles_'[e] = bundles_[e]
  BY <1>1 DEF Gone, QueueOK
<1> SUFFICES ASSUME NEW b \in Held, b \notin IdsOf(bundles_[c]) PROVE b \in Held'
  BY <1>2 DEF Keeps
<1>3. CASE b \in pool
  BY <1>3 DEF Held
<1>4. CASE b \notin pool
  <2>1. PICK e \in Chan : b \in IdsOf(bundles_[e])
    BY <1>4 DEF Held
  <2>2. b \in IdsOf(bundles_'[e])
    BY <1>2, <2>1
  <2> QED
    BY <2>2 DEF Held
<1> QED
  BY <1>3, <1>4

\* send keeps or gives back what it is called with and what was queued.
LEMMA SendHolds ==
  ASSUME IInv, NEW c \in Chan, NEW new, Fresh(c, new), send(c, new)
  PROVE  Keeps
<1> DEFINE q == bundles_[c] \o new
<1>1. QueueOK /\ open[c]
  BY AtChannel DEF send
<1>2. q \in Seq(Queued) /\ IdsOf(q) = IdsOf(bundles_[c]) \cup IdsOf(new)
  BY <1>1, Joined
<1> HIDE DEF q
<1>3. CASE SendRefused(c, new)
  <2>1. \A e \in Chan : e # c => bundles_'[e] = bundles_[e]
    BY <1>1, <1>3 DEF QueueOK, SendRefused
  <2>2. pool \cup IdsOf(bundles_[c]) \subseteq pool'
    BY <1>3 DEF SendRefused
  <2> QED
    BY <2>1, <2>2, MovedAreHeld
<1>4. CASE SendWaits(c, new)
  <2>1. /\ bundles_' = [bundles_ EXCEPT ![c] = q]
        /\ pool' = pool \ IdsOf(new)
    BY <1>4 DEF SendWaits, q
  <2>2. bundles_'[c] = q /\ \A e \in Chan : e # c => bundles_'[e] = bundles_[e]
    BY <1>1, <2>1 DEF QueueOK
  <2> QED
    BY <1>2, <2>1, <2>2, MovedAreHeld
<1>5. ASSUME NEW pos \in Positions(q), NEW fails \in BOOLEAN,
             SendNow(c, new, pos, fails)
      PROVE  Keeps
  <2> DEFINE i == pos[1]
             r == Rest(q, pos[1], pos[2])
  <2>1. IdsOf(q) \subseteq Sent(q, i) \cup IdsOf(r)
    BY <1>2, <1>5, PositionsAt, SentOrLeft
  <2>2. /\ bundles_' = [bundles_ EXCEPT ![c] = r]
        /\ pool' = (pool \ IdsOf(new)) \cup Sent(q, i)
    BY <1>5 DEF SendNow, q
  <2> HIDE DEF i, r
  <2>3. bundles_'[c] = r /\ \A e \in Chan : e # c => bundles_'[e] = bundles_[e]
    BY <1>1, <2>2 DEF QueueOK
  <2> QED
    BY <1>2, <2>1, <2>2, <2>3, MovedAreHeld
<1> QED
  BY <1>3, <1>4, <1>5 DEF send, q

\* A write event gives back what it has sent and keeps the rest.
LEMMA WriteHolds ==
  ASSUME IInv, NEW c \in Chan, WriteEvent(c)
  PROVE  Keeps
<1> DEFINE q == bundles_[c]
<1>1. QueueOK /\ q \in Seq(Queued)
  BY AtChannel
<1>2. CASE WriteCondemned(c)
  BY <1>2, GoneHolds DEF WriteCondemned, Writable
<1>3. ASSUME NEW pos \in Positions(q), WriteFails(c, pos) PROVE Keeps
  BY <1>3, GoneHolds DEF WriteFails, Writable
<1>4. ASSUME NEW pos \in Positions(q), WriteSends(c, pos) PROVE Keeps
  <2> DEFINE i == pos[1]
             r == Rest(q, pos[1], pos[2])
  <2>1. IdsOf(q) \subseteq Sent(q, i) \cup IdsOf(r)
    BY <1>1, <1>4, PositionsAt, SentOrLeft
  <2>2. bundles_' = [bundles_ EXCEPT ![c] = r] /\ pool' = pool \cup Sent(q, i)
    BY <1>4 DEF WriteSends
  <2> HIDE DEF i, r
  <2>3. bundles_'[c] = r /\ \A e \in Chan : e # c => bundles_'[e] = bundles_[e]
    BY <1>1, <2>2 DEF QueueOK
  <2> QED
    BY <2>1, <2>2, <2>3, MovedAreHeld
<1> QED
  BY <1>2, <1>3, <1>4 DEF WriteEvent

\* Every step keeps the bundles.
LEMMA NextHolds ==
  ASSUME IInv, Next
  PROVE  Keeps
<1>1. ASSUME NEW c \in Chan, NEW b \in Bundles, NEW n \in 0..MaxPackets,
             SendBundle(c, b, n)
      PROVE  Keeps
  <2> DEFINE new == <<[id |-> b, lo |-> written[c], hi |-> written[c] + n]>>
  <2>1. n \in Nat /\ b \in pool /\ send(c, new)
    BY <1>1, CQAssumption DEF SendBundle
  <2>2. Fresh(c, new)
    BY <2>1 DEF Fresh
  <2> HIDE DEF new
  <2> QED
    BY <2>1, <2>2, SendHolds
<1>2. ASSUME NEW c \in Chan, DelayedAdd(c) \/ send_delayed_channel(c) \/ PeerGoes(c)
      PROVE  Keeps
  <2>1. UNCHANGED queue \/ send(c, <<>>)
    BY <1>2 DEF DelayedAdd, send_delayed_channel, PeerGoes
  <2> QED
    BY <2>1, FreshNothing, IdleHolds, SendHolds
<1>3. ASSUME NEW c \in Chan, Leaves(c) PROVE Keeps
  BY <1>3, GoneHolds DEF Leaves
<1>4. ASSUME NEW c \in Chan, Connects(c) PROVE Keeps
  BY <1>4 DEF Connects, Keeps, Held
<1>5. CASE ProcessBegins
  BY <1>5, IdleHolds DEF ProcessBegins
<1>6. ASSUME NEW a \in Addr, ProcessVisits(a) PROVE Keeps
  <2>1. UNCHANGED queue \/ (a \in Chan /\ send(a, <<>>))
    BY <1>6 DEF ProcessVisits
  <2> QED
    BY <2>1, FreshNothing, IdleHolds, SendHolds
<1> QED
  BY <1>1, <1>2, <1>3, <1>4, <1>5, <1>6, WriteHolds DEF Next

\* Channel::send and process_send lose no bundle, wherever they stop: one
\* vanishes only with the queue of a channel that goes down, which
\* clear_channel does not give back.
THEOREM NoneLeaks == Spec => BundlesKept
<1>1. IInv /\ [Next]_vars => [Keeps]_vars
  BY NextHolds
<1> QED
  BY <1>1, Inductive, PTL DEF Spec, BundlesKept, Keeps
=============================================================================
