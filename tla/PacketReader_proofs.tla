------------------------ MODULE PacketReader_proofs -------------------------
(***************************************************************************)
(* The proofs about PacketReader.  BaseInv says where the reader is in its  *)
(* packets and holds of every behaviour; InStep says where it is in the     *)
(* peer's stream as long as no fault was met, and is shown action by action *)
(* on top of it.                                                            *)
(***************************************************************************)
EXTENDS PacketReader, SequenceTheorems, TLAPS

\* What a message has: its fields, and a size above zero.
LEMMA SizeFacts ==
  ASSUME NEW k \in Kinds
  PROVE  /\ k.known \in BOOLEAN /\ k.variable \in BOOLEAN /\ k.len \in Nat
         /\ HeaderSize(k) \in Nat /\ HeaderSize(k) >= IdSize
         /\ Size(k) \in Nat /\ Size(k) > 0 /\ Size(k) = HeaderSize(k) + k.len
         /\ ~k.variable => HeaderSize(k) = IdSize
         /\ k.variable /\ k.len < MaxSize => HeaderSize(k) = IdSize + LenSize
         /\ Long(k) => HeaderSize(k) = IdSize + LenSize + Len1Size
         /\ Long(k) <=> k.variable /\ k.len >= MaxSize
         /\ k # NoKind
  BY PRAssumption DEF HeaderSize, Size, Long

\* The fields of a sent message.
LEMMA SentFacts ==
  ASSUME TypeOK, NEW i \in 1..Len(sent)
  PROVE  /\ sent[i].kind \in Kinds /\ sent[i].at \in Nat
         /\ EndOf(sent[i]) = sent[i].at + Size(sent[i].kind) /\ EndOf(sent[i]) \in Nat
         /\ Body(sent[i]).kind = sent[i].kind
         /\ Body(sent[i]).lo = sent[i].at + HeaderSize(sent[i].kind)
         /\ Body(sent[i]).hi = EndOf(sent[i])
         /\ Body(sent[i]).lo \in Nat /\ Body(sent[i]).hi \in Nat
         /\ Body(sent[i]).hi = Body(sent[i]).lo + sent[i].kind.len
<1> DEFINE M == [kind : Kinds, at : Nat]
<1>0. sent \in Seq(M)
  BY DEF TypeOK
<1> HIDE DEF M
<1>1. sent[i] \in M
  BY <1>0
<1>2. sent[i].kind \in Kinds /\ sent[i].at \in Nat
  BY <1>1 DEF M
<1> QED
  <2> DEFINE k == sent[i].kind
             a == sent[i].at
  <2>1. /\ HeaderSize(k) \in Nat /\ Size(k) \in Nat /\ k.len \in Nat
        /\ Size(k) = HeaderSize(k) + k.len
    BY <1>2, SizeFacts
  <2>2. /\ EndOf(sent[i]) = a + Size(k) /\ Body(sent[i]).kind = k
        /\ Body(sent[i]).lo = a + HeaderSize(k) /\ Body(sent[i]).hi = a + Size(k)
    BY DEF EndOf, Body
  <2>3. /\ a + Size(k) \in Nat /\ a + HeaderSize(k) \in Nat
        /\ a + Size(k) = (a + HeaderSize(k)) + k.len
    <3> HIDE DEF k, a
    <3>1. a \in Nat
      BY <1>2 DEF a
    <3> QED
      BY <2>1, <3>1
  <2> QED
    BY <1>2, <2>2, <2>3

\* No two messages begin at the same position.
LEMMA AtUnique ==
  ASSUME TypeOK, Layout, NEW i \in 1..Len(sent), NEW j \in 1..Len(sent),
         sent[i].at = sent[j].at
  PROVE  i = j
<1>1. \A n \in 1..Len(sent) : EndOf(sent[n]) > sent[n].at
  <2> SUFFICES ASSUME NEW n \in 1..Len(sent) PROVE EndOf(sent[n]) > sent[n].at
    OBVIOUS
  <2>1. sent[n].kind \in Kinds /\ sent[n].at \in Nat
        /\ EndOf(sent[n]) = sent[n].at + Size(sent[n].kind)
    BY SentFacts
  <2> QED
    BY <2>1, SizeFacts
<1>2. (i < j => EndOf(sent[i]) <= sent[j].at) /\ (j < i => EndOf(sent[j]) <= sent[i].at)
  BY DEF Layout
<1> QED
  <2>1. /\ sent[i].at \in Nat /\ sent[j].at \in Nat
        /\ EndOf(sent[i]) \in Nat /\ EndOf(sent[j]) \in Nat
    BY SentFacts
  <2>2. EndOf(sent[i]) > sent[i].at /\ EndOf(sent[j]) > sent[j].at
    BY <1>1
  <2>3. i \in Nat /\ j \in Nat
    BY DEF TypeOK
  <2> HIDE DEF EndOf
  <2>4. ~(i < j) /\ ~(j < i)
    BY <1>2, <2>1, <2>2
  <2> QED
    BY <2>3, <2>4

\* The packet in hand and the reader's place in it.
LEMMA InHand ==
  ASSUME BaseInv, pc \in Running
  PROVE  /\ recvPackets_ # <<>> /\ Len(recvPackets_) \in Nat /\ 1 \in 1..Len(recvPackets_)
         /\ Head(recvPackets_) = recvPackets_[1] /\ recvPackets_[1] \in Interval
         /\ recvPackets_[1].lo \in Nat /\ recvPackets_[1].hi \in Nat
         /\ recvPackets_[1].lo <= rd /\ rd <= recvPackets_[1].hi /\ recvPackets_[1].hi <= got
         /\ rd \in Nat
         /\ opsize \in Nat /\ rd + opsize = recvPackets_[1].hi
         /\ fragment.lo \in Nat /\ fragment.hi \in Nat /\ FragmentLength \in Nat
         /\ FragmentLength = fragment.hi - fragment.lo
         /\ Pos = rd
         /\ got > 0
<1>1. recvPackets_ # <<>> /\ recvPackets_ \in Seq(Interval) /\ rd \in Nat /\ fragment \in Interval
  BY DEF BaseInv, TypeOK, ReaderInPacket
<1>2. Len(recvPackets_) \in Nat /\ 1 \in 1..Len(recvPackets_) /\ Head(recvPackets_) = recvPackets_[1]
  BY <1>1
<1>3. recvPackets_[1] \in Interval
  BY <1>1, <1>2
<1>4. recvPackets_[1].lo \in Nat /\ recvPackets_[1].hi \in Nat /\ fragment.lo \in Nat /\ fragment.hi \in Nat
  BY <1>1, <1>3 DEF Interval
<1>5. recvPackets_[1].lo <= rd /\ rd <= recvPackets_[1].hi /\ fragment.lo <= fragment.hi
  BY DEF BaseInv, ReaderInPacket
<1>6. recvPackets_[1].hi <= got /\ recvPackets_[1].lo < recvPackets_[1].hi /\ got \in Nat
  BY <1>2 DEF BaseInv, TypeOK, PacketsInLine
<1> QED
  BY <1>1, <1>2, <1>3, <1>4, <1>5, <1>6, SMTT(30) DEF opsize, FragmentLength, Pos

\* The types of what the reader keeps between two steps.
ReaderOK ==
  /\ fragmentsFlag_ \in {"UNKNOW", "ID", "LENGTH", "LENGTH1", "BODY"}
  /\ pFragmentsRemainning_ \in 0..MaxSize
  /\ currMsgID_ \in Kinds \cup {NoKind}
  /\ currMsgLen_ \in Nat
  /\ fragment \in Interval /\ fragment.lo <= fragment.hi
  /\ isCondemn_ \in BOOLEAN
  /\ handled \in Seq([kind : Kinds, lo : Nat, hi : Nat])
  /\ faults \subseteq {"header", "length1", "width", "refused"}

LEMMA BaseReader == BaseInv => ReaderOK
BY DEF BaseInv, TypeOK, ReaderInPacket, ReaderOK

\* A break moves the reader to the end of its packet.
LEMMA BreakMoves ==
  ASSUME BaseInv, pc \in Running, Break
  PROVE  /\ recvPackets_' \in Seq(Interval) /\ rd' \in Nat /\ pc' \in {"idle", "loop"}
         /\ PacketsInLine'
         /\ pc' = "loop" => /\ recvPackets_' # <<>> /\ rd' = recvPackets_'[1].lo
                            /\ recvPackets_'[1].lo <= recvPackets_'[1].hi
         /\ Pos' = recvPackets_[1].hi
         /\ pc' = "loop" <=> Len(recvPackets_) > 1
         /\ UNCHANGED <<sent, total, got>>
<1> DEFINE q == recvPackets_
           t == Tail(q)
<1>1. q \in Seq(Interval) /\ q # <<>> /\ Len(q) \in Nat /\ Len(q) >= 1
  BY InHand DEF BaseInv, TypeOK
<1>2. t \in Seq(Interval) /\ Len(t) = Len(q) - 1 /\ (t = <<>> <=> Len(q) = 1)
  <2>1. t \in Seq(Interval) /\ Len(t) = Len(q) - 1
    BY <1>1, HeadTailProperties
  <2>2. t = <<>> <=> Len(t) = 0
    BY <2>1, EmptySeq
  <2> QED
    BY <1>1, <2>1, <2>2
<1>3. \A i \in 1..Len(t) : t[i] = q[i + 1] /\ i + 1 \in 1..Len(q)
  BY <1>1, <1>2
<1>4. recvPackets_' = t /\ UNCHANGED <<sent, total, got>>
      /\ rd' = (IF t = <<>> THEN 0 ELSE t[1].lo)
      /\ pc' = IF t = <<>> THEN "idle" ELSE "loop"
  BY DEF Break
<1>5. \A i \in 1..Len(q) : q[i] \in Interval
  BY <1>1
<1>6. \A i \in 1..Len(q) : q[i].lo \in Nat /\ q[i].hi \in Nat
  BY <1>5 DEF Interval
<1>7. /\ got <= total /\ got \in Nat /\ total \in Nat
      /\ \A i \in 1..Len(q) : q[i].lo < q[i].hi /\ q[i].hi <= got
      /\ \A i \in 1..Len(q) - 1 : q[i].hi = q[i + 1].lo
      /\ q[Len(q)].hi = got
  BY <1>1 DEF BaseInv, TypeOK, PacketsInLine
<1> HIDE DEF q
<1>8. PacketsInLine'
  <2>1. \A i \in 1..Len(t) : t[i].lo < t[i].hi /\ t[i].hi <= got
    BY <1>3, <1>7
  <2>2. \A i \in 1..Len(t) - 1 : t[i].hi = t[i + 1].lo
    <3> SUFFICES ASSUME NEW i \in 1..Len(t) - 1 PROVE t[i].hi = t[i + 1].lo
      OBVIOUS
    <3>1. i \in 1..Len(t) /\ i + 1 \in 1..Len(t) /\ i + 1 \in 1..Len(q) - 1
      BY <1>1, <1>2
    <3> HIDE DEF t
    <3> QED
      BY <3>1, <1>3, <1>7
  <2>3. t # <<>> => t[Len(t)].hi = got
    <3> SUFFICES ASSUME t # <<>> PROVE t[Len(t)].hi = got
      OBVIOUS
    <3>1. Len(t) \in 1..Len(t) /\ Len(t) + 1 = Len(q)
      BY <1>1, <1>2
    <3> HIDE DEF t
    <3> QED
      BY <3>1, <1>3, <1>7
  <2> HIDE DEF t
  <2> QED
    BY <2>1, <2>2, <2>3, <1>4, <1>7 DEF PacketsInLine
<1>9. t # <<>> => t[1] = q[2] /\ q[1].hi = q[2].lo /\ q[2] \in Interval /\ q[2].lo < q[2].hi
                  /\ q[2].lo \in Nat /\ q[2].hi \in Nat
  <2> SUFFICES ASSUME t # <<>>
               PROVE  t[1] = q[2] /\ q[1].hi = q[2].lo /\ q[2] \in Interval
                      /\ q[2].lo < q[2].hi /\ q[2].lo \in Nat /\ q[2].hi \in Nat
    OBVIOUS
  <2>1. 1 \in 1..Len(t) /\ 2 \in 1..Len(q) /\ 1 \in 1..Len(q) - 1 /\ 1 + 1 = 2
    BY <1>1, <1>2
  <2> HIDE DEF t
  <2> QED
    BY <2>1, <1>3, <1>5, <1>6, <1>7
<1>10. t = <<>> => q[1].hi = got
  BY <1>2, <1>7
<1> HIDE DEF t
<1>11. Pos' = q[1].hi
  <2>1. CASE t = <<>>
    BY <2>1, <1>4, <1>10 DEF Pos, Running
  <2>2. CASE t # <<>>
    BY <2>2, <1>4, <1>9 DEF Pos, Running
  <2> QED
    BY <2>1, <2>2
<1>12. q[1].hi = recvPackets_[1].hi /\ Len(q) = Len(recvPackets_)
  BY DEF q
<1> QED
  BY <1>1, <1>2, <1>4, <1>8, <1>9, <1>11, <1>12

\* A step that breaks off keeps BaseInv when the reader's own state is typed.
LEMMA BreakBase ==
  ASSUME BaseInv, pc \in Running, Break, ReaderOK'
  PROVE  BaseInv'
<1>1. TypeOK'
  BY BreakMoves DEF BaseInv, TypeOK, ReaderOK, Break
<1>2. Layout'
  BY DEF BaseInv, Layout, Break, EndAfter, EndOf
<1>3. ReaderInPacket'
  <2>1. /\ fragment'.lo <= fragment'.hi /\ pc' \in {"idle", "loop"} /\ got' > 0 /\ got' = got
        /\ pc' = "loop" => /\ recvPackets_' # <<>> /\ rd' = recvPackets_'[1].lo
                           /\ recvPackets_'[1].lo <= recvPackets_'[1].hi
                           /\ recvPackets_'[1].lo <= rd'
    <3>1. rd' <= rd'
      BY BreakMoves
    <3> QED
      BY <3>1, BreakMoves, InHand DEF ReaderOK
  <2> QED
    BY <2>1, InHand DEF BaseInv, TypeOK, ReaderInPacket, Running
<1> QED
  BY <1>1, <1>2, <1>3, BreakMoves DEF BaseInv

\* So does a step that stays in the packet.
LEMMA StaysBase ==
  ASSUME BaseInv, pc \in Running, Stays, ReaderOK',
         pc' \in Running \cup {"wild", "derailed"},
         rd' \in Nat, rd <= rd', rd' <= recvPackets_[1].hi,
         pc' \in Running \ {"loop"} => currMsgID_' \in Kinds
  PROVE  BaseInv'
<1>1. TypeOK'
  BY DEF BaseInv, TypeOK, ReaderOK, Stays, Running
<1>2. Layout'
  BY DEF BaseInv, Layout, Stays, EndAfter, EndOf
<1>3. PacketsInLine'
  BY DEF BaseInv, PacketsInLine, Stays
<1>4. ReaderInPacket'
  BY InHand, SMTT(30) DEF BaseInv, ReaderInPacket, ReaderOK, Stays, Running
<1> QED
  BY <1>1, <1>2, <1>3, <1>4 DEF BaseInv

-----------------------------------------------------------------------------
(* BaseInv, action by action.                                               *)

\* The reader's state is typed after a step that leaves it alone.
LEMMA ReaderKept ==
  ASSUME ReaderOK, UNCHANGED <<reader, isCondemn_, handled, faults>>
  PROVE  ReaderOK'
BY DEF ReaderOK, reader

LEMMA SendBase ==
  ASSUME BaseInv, NEW k \in Kinds, Send(k)
  PROVE  BaseInv'
<1> DEFINE M == [kind : Kinds, at : Nat]
           m == [kind |-> k, at |-> total]
           n == Len(sent)
<1>1. /\ sent \in Seq(M) /\ total \in Nat /\ got = 0 /\ n \in Nat
      /\ sent' = Append(sent, m) /\ total' = total + Size(k) /\ Size(k) \in Nat /\ Size(k) > 0
      /\ m \in M
  BY SizeFacts DEF BaseInv, TypeOK, Send, Sends
<1>2. TypeOK'
  <2>1. sent' \in Seq(M) /\ total' \in Nat
    BY <1>1
  <2> QED
    BY <2>1 DEF BaseInv, TypeOK, Send, Sends, reader
<1>3. Layout'
  <2>1. Len(sent') = n + 1 /\ sent'[n + 1] = m /\ \A i \in 1..n : sent'[i] = sent[i]
    BY <1>1
  <2>2. \A i \in 1..n : /\ sent[i].at \in Nat /\ EndOf(sent[i]) \in Nat
                        /\ EndOf(sent[i]) <= total /\ sent[i].at = EndAfter(i - 1)
    BY SentFacts DEF BaseInv, Layout
  <2>3. EndOf(m) = total + Size(k) /\ m.at = total
    BY DEF EndOf
  <2>4. total = EndAfter(n)
    BY DEF BaseInv, Layout
  <2> DEFINE s2 == sent'
             E(i) == IF i = 0 THEN 0 ELSE EndOf(s2[i])
  <2>5. \A i \in 0..n : E(i) = EndAfter(i)
    BY <2>1, <1>1 DEF EndAfter
  <2>6. E(n + 1) = total'
    BY <1>1, <2>1, <2>3
  <2>7. \A i, j \in 1..n : i < j => EndOf(sent[i]) <= sent[j].at
    BY DEF BaseInv, Layout
  <2>8. ASSUME NEW i \in 1..n + 1
        PROVE  s2[i].at = E(i - 1) /\ EndOf(s2[i]) <= total'
    <3>1. CASE i = n + 1
      <4>1. i - 1 = n /\ n \in 0..n
        BY <3>1, <1>1
      <4>2. s2[i] = m /\ EndOf(s2[i]) = total' /\ total' \in Nat
        BY <3>1, <2>1, <2>3, <1>1
      <4>3. E(i - 1) = total
        BY <4>1, <2>4, <2>5
      <4> HIDE DEF E
      <4> QED
        BY <4>2, <4>3, <2>3
    <3>2. CASE i # n + 1
      <4>1. i \in 1..n /\ i - 1 \in 0..n
        BY <3>2, <1>1
      <4> QED
        BY <4>1, <2>1, <2>2, <2>5, <1>1, SMTT(30)
    <3> QED
      BY <3>1, <3>2
  <2>9. ASSUME NEW i \in 1..n + 1, NEW j \in 1..n + 1, i < j
        PROVE  EndOf(s2[i]) <= s2[j].at
    <3>0. i \in 1..n
      BY <2>9, <1>1
    <3>1. CASE j = n + 1
      BY <3>0, <3>1, <2>1, <2>2, <2>3
    <3>2. CASE j # n + 1
      <4>1. j \in 1..n
        BY <3>2, <1>1
      <4> QED
        BY <4>1, <3>0, <2>9, <2>1, <2>7
    <3> QED
      BY <3>1, <3>2
  <2>10. \A i : EndAfter(i)' = E(i)
    BY DEF EndAfter, EndOf
  <2> HIDE DEF E, m
  <2> QED
    BY <2>1, <2>6, <2>8, <2>9, <2>10 DEF Layout, EndOf
<1>4. PacketsInLine'
  BY <1>1, SizeFacts DEF BaseInv, TypeOK, PacketsInLine, Send, Sends
<1>5. ReaderInPacket'
  BY DEF BaseInv, ReaderInPacket, Send, Sends, reader
<1> QED
  BY <1>2, <1>3, <1>4, <1>5 DEF BaseInv

LEMMA ReceiveBase ==
  ASSUME BaseInv, NEW n \in 1..total, Receive(n)
  PROVE  BaseInv'
<1> DEFINE p == [lo |-> got, hi |-> got + n]
           q == recvPackets_
<1>1. /\ q \in Seq(Interval) /\ got \in Nat /\ n \in Nat /\ n >= 1 /\ got + n <= total
      /\ recvPackets_' = Append(q, p) /\ got' = got + n /\ total' = total /\ total \in Nat
  BY DEF BaseInv, TypeOK, Receive
<1>2. p \in Interval /\ p.lo = got /\ p.hi = got + n
  BY <1>1 DEF Interval
<1> HIDE DEF p
<1>3. /\ recvPackets_' \in Seq(Interval) /\ Len(recvPackets_') = Len(q) + 1 /\ Len(q) \in Nat
      /\ recvPackets_'[Len(q) + 1] = p /\ \A i \in 1..Len(q) : recvPackets_'[i] = q[i]
  BY <1>1, <1>2
<1>4. TypeOK'
  BY <1>1, <1>3 DEF BaseInv, TypeOK, Receive, reader
<1>5. Layout'
  BY DEF BaseInv, Layout, Receive, EndAfter, EndOf
<1>6. \A i \in 1..Len(q) : q[i] \in Interval
  BY <1>1
<1>7. \A i \in 1..Len(q) : q[i].lo \in Nat /\ q[i].hi \in Nat
  BY <1>6 DEF Interval
<1>8. /\ \A i \in 1..Len(q) : q[i].lo < q[i].hi /\ q[i].hi <= got
      /\ \A i \in 1..Len(q) - 1 : q[i].hi = q[i + 1].lo
      /\ q # <<>> => q[Len(q)].hi = got
  BY DEF BaseInv, PacketsInLine
<1>9. PacketsInLine'
  <2> DEFINE r == recvPackets_'
             l == Len(q)
  <2>0. l \in Nat /\ (l = 0 => q = <<>>) /\ (l # 0 => q # <<>>)
    BY <1>1
  <2>1. \A i \in 1..l + 1 : r[i].lo < r[i].hi /\ r[i].hi <= got'
    <3> SUFFICES ASSUME NEW i \in 1..l + 1 PROVE r[i].lo < r[i].hi /\ r[i].hi <= got'
      OBVIOUS
    <3>1. CASE i = l + 1
      BY <3>1, <1>1, <1>2, <1>3
    <3>2. CASE i # l + 1
      <4>1. i \in 1..Len(q)
        BY <3>2, <1>3
      <4> QED
        BY <4>1, <1>1, <1>3, <1>7, <1>8
    <3> QED
      BY <3>1, <3>2
  <2>2. \A i \in 1..l + 1 - 1 : r[i].hi = r[i + 1].lo
    <3> SUFFICES ASSUME NEW i \in 1..l PROVE r[i].hi = r[i + 1].lo
      BY <2>0
    <3>1. CASE i = l
      BY <3>1, <2>0, <1>2, <1>3, <1>8
    <3>2. CASE i # l
      <4>1. i \in 1..Len(q) /\ i + 1 \in 1..Len(q) /\ i \in 1..Len(q) - 1
        BY <3>2, <2>0
      <4> QED
        BY <4>1, <1>3, <1>8
    <3> QED
      BY <3>1, <3>2
  <2>3. r[l + 1].hi = got'
    BY <1>1, <1>2, <1>3
  <2> QED
    BY <2>1, <2>2, <2>3, <1>1, <1>3 DEF PacketsInLine
<1>10. ReaderInPacket'
  BY <1>1 DEF BaseInv, ReaderInPacket, Receive, reader, Running
<1> QED
  BY <1>4, <1>5, <1>9, <1>10 DEF BaseInv

LEMMA BeginBase ==
  ASSUME BaseInv, Begin
  PROVE  BaseInv' /\ Pos' = Pos
<1>1. /\ recvPackets_ \in Seq(Interval) /\ recvPackets_ # <<>> /\ 1 \in 1..Len(recvPackets_)
      /\ Head(recvPackets_) = recvPackets_[1]
  BY DEF BaseInv, TypeOK, Begin
<1>2. recvPackets_[1] \in Interval
  BY <1>1
<1>3. recvPackets_[1].lo \in Nat /\ recvPackets_[1].hi \in Nat
      /\ recvPackets_[1].lo < recvPackets_[1].hi /\ recvPackets_[1].hi <= got
  BY <1>1, <1>2 DEF Interval, BaseInv, PacketsInLine
<1>4. TypeOK'
  BY <1>1, <1>3 DEF BaseInv, TypeOK, Begin, reader
<1>5. Layout' /\ PacketsInLine'
  BY DEF BaseInv, Layout, PacketsInLine, Begin, EndAfter, EndOf
<1>6. ReaderInPacket'
  BY <1>1, <1>3 DEF BaseInv, ReaderInPacket, Begin, reader, Running, TypeOK
<1>7. Pos' = Pos
  BY <1>1 DEF Begin, Pos, Running
<1> QED
  BY <1>4, <1>5, <1>6, <1>7 DEF BaseInv

LEMMA Chosen ==
  ASSUME NEW here, here # {}
  PROVE  (CHOOSE m \in here : TRUE) \in here
OBVIOUS

\* What is added to the fragment packet.
LEMMA CachedFacts ==
  ASSUME BaseInv, pc \in Running, NEW n \in Nat
  PROVE  /\ Cached(n) \in Interval /\ Cached(n).lo <= Cached(n).hi
         /\ FragmentLength = 0 => Cached(n).lo = rd /\ Cached(n).hi = rd + n
         /\ FragmentLength > 0 => Cached(n).lo = fragment.lo /\ Cached(n).hi = fragment.hi + n
BY InHand, SMTT(30) DEF Cached, Interval, BaseInv, ReaderInPacket

\* A header field cut by the end of the packet.
LEMMA CachesBase ==
  ASSUME BaseInv, pc \in Running, NEW flag \in {"ID", "LENGTH", "LENGTH1"},
         NEW size \in Nat \ {0}, size <= MaxSize + 1, Caches(flag, size),
         faults' \subseteq {"header", "length1", "width", "refused"},
         UNCHANGED <<currMsgID_, currMsgLen_>>
  PROVE  BaseInv'
<1>1. pFragmentsRemainning_' \in 0..MaxSize
  <2>1. opsize \in Nat /\ opsize < size /\ pFragmentsRemainning_ \in 0..MaxSize
        /\ pFragmentsRemainning_' = IF opsize > 0 THEN size - opsize ELSE pFragmentsRemainning_
    BY InHand, BaseReader DEF Caches, ReaderOK
  <2> QED
    BY <2>1, PRAssumption
<1>2. ReaderOK'
  BY <1>1, BaseReader DEF ReaderOK, Caches
<1> QED
  BY <1>2, BreakBase DEF Caches

\* A header field read from the packet.
LEMMA ReadsBase ==
  ASSUME BaseInv, pc \in Running, NEW size \in Nat, NEW here,
         NEW next \in {"find", "length1", "body"}, Reads(size, here, next),
         here # {} => currMsgID_' \in Kinds,
         currMsgID_' \in Kinds \cup {NoKind}, currMsgLen_' \in Nat
  PROVE  BaseInv'
<1>1. ReaderOK'
  BY BaseReader DEF ReaderOK, Reads
<1>2. rd' \in Nat /\ rd <= rd' /\ rd' <= recvPackets_[1].hi
  BY InHand, SMTT(30) DEF Reads
<1>3. pc' \in Running \cup {"wild", "derailed"} /\ (pc' \in Running => here # {})
  BY DEF Reads, Running
<1> QED
  BY <1>1, <1>2, <1>3, StaysBase DEF Reads

\* The kind and the length taken from a chosen message.
LEMMA FieldFacts ==
  ASSUME TypeOK, NEW here \in SUBSET Sent, here # {}
  PROVE  /\ (CHOOSE m \in here : TRUE).kind \in Kinds
         /\ (CHOOSE m \in here : TRUE).kind.len \in Nat
         /\ \E i \in 1..Len(sent) : (CHOOSE m \in here : TRUE) = sent[i] /\ sent[i] \in here
<1> DEFINE c == CHOOSE m \in here : TRUE
<1>1. c \in here
  BY Chosen
<1> HIDE DEF c
<1>2. PICK i \in 1..Len(sent) : c = sent[i]
  BY <1>1 DEF Sent
<1>3. c.kind \in Kinds /\ c.kind.len \in Nat
  BY <1>2, SentFacts, SizeFacts
<1> QED
  BY <1>1, <1>2, <1>3 DEF c

LEMMA ParseBase ==
  ASSUME BaseInv, Parse
  PROVE  BaseInv'
<1>0. IdSize \in Nat \ {0} /\ LenSize \in Nat \ {0} /\ Len1Size \in Nat \ {0} /\ MaxSize \in Nat
      /\ IdSize <= MaxSize + 1 /\ LenSize <= MaxSize + 1 /\ Len1Size <= MaxSize + 1
  BY PRAssumption
<1>t. ReaderOK /\ TypeOK /\ (pc \in Running \ {"loop"} => currMsgID_ \in Kinds)
  BY BaseReader DEF BaseInv, ReaderInPacket
<1>1. CASE CacheId
  BY <1>1, <1>0, <1>t, CachesBase DEF CacheId, AtLoop, Running, ReaderOK
<1>2. CASE ReadId
  <2> DEFINE here == {m \in Sent : m.at = rd}
  <2>1. pc \in Running /\ Reads(IdSize, here, "find") /\ UNCHANGED currMsgLen_
        /\ currMsgID_' = IF here = {} THEN NoKind ELSE (CHOOSE m \in here : TRUE).kind
    BY <1>2 DEF ReadId, AtLoop, Running
  <2>2. here # {} => (CHOOSE m \in here : TRUE).kind \in Kinds
    BY <1>t, FieldFacts
  <2> HIDE DEF here
  <2>3. currMsgID_' \in Kinds \cup {NoKind} /\ (here # {} => currMsgID_' \in Kinds) /\ currMsgLen_' \in Nat
    BY <2>1, <2>2, <1>t DEF ReaderOK
  <2> QED
    BY <2>1, <2>3, <1>0, ReadsBase
<1>3. CASE FindFails
  <2>1. ReaderOK' /\ pc \in Running /\ Break
    BY <1>3, <1>t DEF FindFails, ReaderOK, AtFind, AtLoop, Running
  <2> QED
    BY <2>1, BreakBase
<1>4. CASE FindMessage
  <2>1. pc \in Running /\ Stays /\ UNCHANGED <<rd, currMsgID_>> /\ pc' \in {"length", "body"}
    BY <1>4 DEF FindMessage, AtFind, AtLoop, Running
  <2>2. currMsgID_ \in Kinds
    BY <1>4, <1>t DEF FindMessage, AtFind, AtLoop, Running, ReaderOK
  <2>3. currMsgLen_' \in Nat
    BY <1>4, <2>2, <1>t, SizeFacts DEF FindMessage, ReaderOK
  <2>4. ReaderOK'
    BY <1>4, <2>2, <2>3, <1>t DEF FindMessage, ReaderOK
  <2> QED
    BY <2>1, <2>2, <2>4, InHand, StaysBase DEF Running
<1>5. CASE CacheLength
  BY <1>5, <1>0, <1>t, CachesBase DEF CacheLength, Running, ReaderOK
<1>6. CASE ReadLength
  <2> DEFINE here == {m \in Sent : m.kind.variable /\ m.at + IdSize = rd}
             len  == IF here = {} THEN 0 ELSE (CHOOSE m \in here : TRUE).kind.len
  <2>1. pc = "length" /\ Reads(LenSize, here, IF len >= MaxSize THEN "length1" ELSE "body")
        /\ UNCHANGED currMsgID_ /\ currMsgLen_' = IF len >= MaxSize THEN MaxSize ELSE len
    BY <1>6 DEF ReadLength
  <2>2. len \in Nat
    BY <1>t, FieldFacts
  <2> HIDE DEF here, len
  <2>3. currMsgID_' \in Kinds /\ currMsgLen_' \in Nat
    BY <2>1, <2>2, <1>0, <1>t DEF Running
  <2> QED
    BY <2>1, <2>3, <1>0, ReadsBase DEF Running
<1>7. CASE CacheLength1
  BY <1>7, <1>0, <1>t, CachesBase DEF CacheLength1, Running, ReaderOK
<1>8. CASE ReadLength1
  <2> DEFINE here == {m \in Sent : Long(m.kind) /\ m.at + IdSize + LenSize = rd}
             len  == IF here = {} THEN 0 ELSE (CHOOSE m \in here : TRUE).kind.len
  <2>1. pc = "length1" /\ Reads(Len1Size, here, "body")
        /\ UNCHANGED currMsgID_ /\ currMsgLen_' = len
    BY <1>8 DEF ReadLength1
  <2>2. len \in Nat
    BY <1>t, FieldFacts
  <2> HIDE DEF here, len
  <2>3. currMsgID_' \in Kinds /\ currMsgLen_' \in Nat
    BY <2>1, <2>2, <1>t DEF Running
  <2> QED
    BY <2>1, <2>3, <1>0, ReadsBase DEF Running
<1> QED
  BY <1>1, <1>2, <1>3, <1>4, <1>5, <1>6, <1>7, <1>8 DEF Parse

LEMMA MergeBase ==
  ASSUME BaseInv, PacketDone \/ Merge
  PROVE  BaseInv'
<1>t. ReaderOK /\ pc = "loop" /\ pc \in Running
  BY BaseReader DEF PacketDone, Merge, MergeBody, MergeBodyPart, MergeNothing, MergeHeader,
                    Merges, Running
<1>r. pFragmentsRemainning_ \in Nat /\ opsize \in Nat /\ MaxSize \in Nat
      /\ pFragmentsRemainning_ <= MaxSize
  BY <1>t, InHand, PRAssumption DEF ReaderOK
<1>1. CASE PacketDone
  BY <1>1, <1>t, ReaderKept, BreakBase DEF PacketDone
<1>2. CASE MergeBody
  <2>1. ReaderOK'
    BY <1>2, <1>t, <1>r, CachedFacts DEF MergeBody, ReaderOK
  <2>2. rd' \in Nat /\ rd <= rd' /\ rd' <= recvPackets_[1].hi /\ Stays /\ pc' = "loop"
    BY <1>2, <1>t, <1>r, InHand DEF MergeBody
  <2> QED
    BY <2>1, <2>2, <1>t, StaysBase DEF Running
<1>3. CASE MergeBodyPart
  <2>1. pFragmentsRemainning_' \in 0..MaxSize
    BY <1>3, <1>r DEF MergeBodyPart
  <2>2. ReaderOK' /\ Break
    BY <1>3, <2>1, <1>t, <1>r, CachedFacts DEF MergeBodyPart, ReaderOK
  <2> QED
    BY <2>2, <1>t, BreakBase
<1>4. CASE MergeNothing
  <2>1. ReaderOK' /\ Stays /\ UNCHANGED <<rd, pc>>
    BY <1>4, <1>t DEF MergeNothing, ReaderOK
  <2> QED
    BY <2>1, <1>t, InHand, StaysBase DEF Running
<1>5. CASE MergeHeader
  <2>1. ReaderOK' /\ Stays /\ rd' = rd /\ pc' = "wild"
    BY <1>5, <1>t, ReaderKept DEF MergeHeader
  <2> QED
    BY <2>1, <1>t, InHand, StaysBase DEF Running
<1> QED
  BY <1>1, <1>2, <1>3, <1>4, <1>5 DEF Merge

\* The list of handled messages grows by one.
LEMMA HandledGrows ==
  ASSUME handled \in Seq([kind : Kinds, lo : Nat, hi : Nat]),
         NEW k \in Kinds, NEW x \in Nat, NEW y \in Nat,
         handled' = Append(handled, [kind |-> k, lo |-> x, hi |-> y])
  PROVE  /\ handled' \in Seq([kind : Kinds, lo : Nat, hi : Nat])
         /\ Len(handled) \in Nat /\ Len(handled') = Len(handled) + 1
         /\ handled'[Len(handled) + 1] = [kind |-> k, lo |-> x, hi |-> y]
         /\ \A j \in 1..Len(handled) : handled'[j] = handled[j]
<1> DEFINE H == [kind : Kinds, lo : Nat, hi : Nat]
           h == [kind |-> k, lo |-> x, hi |-> y]
<1>1. h \in H
  OBVIOUS
<1> HIDE DEF H, h
<1>2. handled \in Seq(H) /\ handled' = Append(handled, h)
  BY DEF H, h
<1>3. /\ handled' \in Seq(H)
      /\ Len(handled) \in Nat /\ Len(handled') = Len(handled) + 1
      /\ handled'[Len(handled) + 1] = h
      /\ \A j \in 1..Len(handled) : handled'[j] = handled[j]
  BY <1>1, <1>2
<1> QED
  BY <1>3 DEF H, h

LEMMA HandleBase ==
  ASSUME BaseInv, Handle
  PROVE  BaseInv'
<1>t. /\ ReaderOK /\ pc = "body" /\ pc \in Running /\ currMsgID_ \in Kinds
      /\ currMsgLen_ \in Nat /\ MaxSize \in Nat
      /\ handled \in Seq([kind : Kinds, lo : Nat, hi : Nat])
  BY BaseReader, PRAssumption
     DEF Handle, RefuseLong, CacheBody, HandleInPlace, HandleFragment, Running, BaseInv,
         ReaderInPacket, ReaderOK
<1>1. CASE RefuseLong
  <2>1. ReaderOK' /\ Break
    BY <1>1, <1>t DEF RefuseLong, ReaderOK
  <2> QED
    BY <2>1, <1>t, BreakBase
<1>2. CASE CacheBody
  <2>1. pFragmentsRemainning_' \in 0..MaxSize
    BY <1>2, <1>t, InHand, SMTT(30) DEF CacheBody, ReaderOK
  <2>2. ReaderOK' /\ Break
    BY <1>2, <2>1, <1>t, InHand, CachedFacts DEF CacheBody, ReaderOK
  <2> QED
    BY <2>2, <1>t, BreakBase
<1>3. CASE HandleInPlace
  <2>1. rd' \in Nat /\ rd <= rd' /\ rd' <= recvPackets_[1].hi /\ Stays /\ pc' = "loop"
    BY <1>3, <1>t, InHand, SMTT(30) DEF HandleInPlace
  <2>2. handled' \in Seq([kind : Kinds, lo : Nat, hi : Nat])
    BY <1>3, <1>t, InHand, HandledGrows DEF HandleInPlace
  <2>3. ReaderOK'
    BY <1>3, <2>2, <1>t DEF HandleInPlace, ReaderOK
  <2> QED
    BY <2>1, <2>3, <1>t, StaysBase DEF Running
<1>4. CASE HandleFragment
  <2>1. rd' = rd /\ Stays /\ pc' = "loop"
    BY <1>4 DEF HandleFragment
  <2>2. handled' \in Seq([kind : Kinds, lo : Nat, hi : Nat])
    BY <1>4, <1>t, InHand, HandledGrows DEF HandleFragment
  <2>3. ReaderOK'
    BY <1>4, <2>2, <1>t DEF HandleFragment, ReaderOK, Interval
  <2> QED
    BY <2>1, <2>3, <1>t, InHand, StaysBase DEF Running
<1> QED
  BY <1>1, <1>2, <1>3, <1>4 DEF Handle

\* Every step keeps BaseInv.
LEMMA BaseStep ==
  ASSUME BaseInv, Step
  PROVE  BaseInv'
BY MergeBase, ParseBase, HandleBase DEF Step

LEMMA BaseInductive ==
  ASSUME BaseInv, [Next]_vars
  PROVE  BaseInv'
<1>1. CASE UNCHANGED vars
  <2>1. TypeOK'
    BY <1>1 DEF vars, reader, BaseInv, TypeOK
  <2>2. Layout' /\ PacketsInLine'
    BY <1>1 DEF vars, BaseInv, Layout, PacketsInLine, EndAfter, EndOf
  <2>3. ReaderInPacket'
    BY <1>1 DEF vars, reader, BaseInv, ReaderInPacket
  <2> QED
    BY <2>1, <2>2, <2>3 DEF BaseInv
<1>2. CASE Next
  BY <1>2, SendBase, ReceiveBase, BeginBase, BaseStep DEF Next
<1> QED
  BY <1>1, <1>2

LEMMA InitBase ==
  ASSUME Init
  PROVE  BaseInv
<1>0. fragment \in Interval /\ fragment.lo <= fragment.hi
  BY DEF Init, Interval
<1>1. TypeOK
  <2>1. 0 \in 0..MaxSize /\ 0 \in Nat
    BY PRAssumption
  <2>2. \A S : <<>> \in Seq(S)
    BY EmptySeq
  <2>3. external \in BOOLEAN /\ isCondemn_ \in BOOLEAN
    BY Zenon DEF Init
  <2> QED
    BY <1>0, <2>1, <2>2, <2>3 DEF Init, TypeOK
<1>2. Layout
  BY DEF Init, Layout, EndAfter
<1>3. PacketsInLine
  BY DEF Init, PacketsInLine
<1>4. ReaderInPacket
  BY <1>0 DEF Init, ReaderInPacket, Running
<1> QED
  BY <1>1, <1>2, <1>3, <1>4 DEF BaseInv

-----------------------------------------------------------------------------
(* The reader and the stream.                                               *)

\* Where message i is read.
LEMMA ReadingFacts ==
  ASSUME BaseInv, NEW i \in Len(handled) + 1..Len(sent), Reading(i)
  PROVE  /\ i \in 1..Len(sent) /\ currMsgID_ \in Kinds /\ currMsgID_ # NoKind
         /\ sent[i].kind = currMsgID_ /\ currMsgID_.len \in Nat
         /\ currMsgID_.known \in BOOLEAN /\ currMsgID_.variable \in BOOLEAN
         /\ sent[i].at \in Nat
         /\ Body(sent[i]).lo = sent[i].at + HeaderSize(currMsgID_)
         /\ Body(sent[i]).hi = Body(sent[i]).lo + currMsgID_.len
         /\ Body(sent[i]).lo \in Nat
<1>1. TypeOK /\ Len(handled) \in Nat /\ Len(sent) \in Nat
  BY DEF BaseInv, TypeOK
<1>2. i \in 1..Len(sent)
  BY <1>1
<1>3. sent[i].kind \in Kinds /\ currMsgID_ = sent[i].kind
  BY <1>1, <1>2, SentFacts DEF Reading
<1> QED
  BY <1>1, <1>2, <1>3, SentFacts, SizeFacts

\* The three cases of InStep.
LEMMA InStepCases ==
  ASSUME IInv, faults = {}, pc \in Running
  PROVE  \/ AtNone
         \/ \E i \in Len(handled) + 1..Len(sent) : Reading(i)
BY DEF IInv, InStep, Running

\* The faults met are not forgotten.
LEMMA FaultsGrow ==
  ASSUME Step
  PROVE  faults \subseteq faults'
BY DEF Step, PacketDone, Merge, MergeBody, MergeBodyPart, MergeNothing, MergeHeader,
       Parse, CacheId, ReadId, Reads, FindFails, FindMessage, CacheLength, ReadLength,
       CacheLength1, ReadLength1, Handle, RefuseLong, CacheBody, HandleInPlace, HandleFragment

\* What was handled stays so in a step that handles nothing.
LEMMA HandledKept ==
  ASSUME HandledAsSent, UNCHANGED <<sent, handled>>, faults \subseteq faults',
         isCondemn_ => isCondemn_'
  PROVE  HandledAsSent'
BY DEF HandledAsSent, Body, Size, HeaderSize, Long

\* No more messages are handled than were sent.
LEMMA HandledCount ==
  ASSUME BaseInv, HandledAsSent, faults = {}
  PROVE  Len(handled) \in Nat /\ Len(sent) \in Nat /\ Len(handled) <= Len(sent)
<1>1. Len(handled) \in Nat /\ Len(sent) \in Nat
  BY DEF BaseInv, TypeOK
<1>2. CASE Len(handled) = 0
  BY <1>1, <1>2
<1>3. CASE Len(handled) # 0
  <2>1. Len(handled) \in 1..Len(handled)
    BY <1>1, <1>3
  <2>2. PICK i \in Len(handled)..Len(sent) : TRUE
    BY <2>1 DEF HandledAsSent
  <2> QED
    BY <1>1, <2>2
<1> QED
  BY <1>2, <1>3

\* A reader between two messages of a healthy channel, with bytes before it,
\* is at the next message.
LEMMA AtNext ==
  ASSUME IInv, faults = {}, ~isCondemn_, AtNone, Pos < total
  PROVE  /\ Len(handled) + 1 \in 1..Len(sent)
         /\ sent[Len(handled) + 1].at = Pos
<1>1. Len(handled) \in Nat /\ Len(sent) \in Nat /\ Len(handled) <= Len(sent)
  BY HandledCount DEF IInv
<1>2. Pos = EndAfter(Len(handled)) /\ total = EndAfter(Len(sent)) /\ total \in Nat
  BY DEF AtNone, IInv, BaseInv, Layout, TypeOK
<1>3. Len(handled) # Len(sent)
  BY <1>2
<1>4. Len(handled) + 1 \in 1..Len(sent)
  BY <1>1, <1>3
<1>5. sent[Len(handled) + 1].at = EndAfter(Len(handled) + 1 - 1)
  BY <1>4 DEF IInv, BaseInv, Layout
<1>6. Len(handled) + 1 - 1 = Len(handled)
  BY <1>1
<1> QED
  BY <1>2, <1>4, <1>5, <1>6

\* A message that begins at or behind the end of all that was handled has a
\* greater index than they have.
LEMMA BehindHandled ==
  ASSUME BaseInv, HandledAsSent, faults = {}, NEW i \in 1..Len(sent),
         \A j \in 1..Len(handled) : handled[j].hi <= sent[i].at
  PROVE  i \in Len(handled) + 1..Len(sent)
<1> DEFINE n == Len(handled)
<1>1. n \in Nat /\ Len(sent) \in Nat /\ TypeOK /\ Layout
  BY DEF BaseInv, TypeOK
<1>2. CASE n = 0
  BY <1>1, <1>2
<1>3. CASE n # 0
  <2>1. n \in 1..n
    BY <1>1, <1>3
  <2>2. PICK k \in n..Len(sent) : handled[n] = Body(sent[k])
    BY <2>1 DEF HandledAsSent
  <2>3. k \in 1..Len(sent)
    BY <2>1, <2>2, <1>1
  <2>4. handled[n].hi = EndOf(sent[k]) /\ EndOf(sent[k]) <= sent[i].at
    BY <2>1, <2>2, <2>3, <1>1, SentFacts
  <2>5. EndOf(sent[k]) > sent[k].at /\ sent[k].at \in Nat /\ sent[i].at \in Nat
        /\ EndOf(sent[i]) > sent[i].at /\ EndOf(sent[k]) \in Nat /\ EndOf(sent[i]) \in Nat
    <3>1. sent[k].kind \in Kinds /\ sent[i].kind \in Kinds
      BY <2>3, <1>1, SentFacts
    <3>2. Size(sent[k].kind) > 0 /\ Size(sent[i].kind) > 0
          /\ Size(sent[k].kind) \in Nat /\ Size(sent[i].kind) \in Nat
      BY <3>1, SizeFacts
    <3> QED
      BY <2>3, <3>2, <1>1, SentFacts, SMTT(30)
  <2>6. i # k
    BY <2>4, <2>5
  <2>7. ~(i < k)
    <3>1. i < k => EndOf(sent[i]) <= sent[k].at
      BY <2>3, <1>1 DEF Layout
    <3> QED
      BY <3>1, <2>4, <2>5
  <2> QED
    BY <2>2, <2>3, <2>6, <2>7, <1>1
<1> QED
  BY <1>2, <1>3

-----------------------------------------------------------------------------
(* InStep, action by action.                                                *)

\* A step that neither reads nor consumes leaves the reader where it is.
LEMMA StillThere ==
  ASSUME InStep, UNCHANGED <<sent, reader, handled, isCondemn_, faults>>, Pos' = Pos,
         pc \in {"loop", "idle"}, pc' \in {"loop", "idle"},
         pc = "loop" => FragmentLength = 0,
         isCondemn_ /\ pc = "idle" => pc' = "idle"
  PROVE  InStep'
<1> SUFFICES ASSUME faults = {} PROVE InStep'
  BY DEF InStep
<1>0. /\ FragmentLength' = FragmentLength
      /\ \A k : EndAfter(k)' = EndAfter(k)
      /\ UNCHANGED <<fragmentsFlag_, pFragmentsRemainning_, currMsgID_, currMsgLen_, fragment>>
  BY DEF FragmentLength, EndAfter, EndOf, reader
<1>1. CASE isCondemn_ /\ pc \in {"idle", "derailed"}
  BY <1>1 DEF InStep
<1>2. CASE AtNone
  <2>1. AtNone'
    BY <1>2, <1>0 DEF AtNone
  <2> QED
    BY <2>1 DEF InStep
<1>3. ASSUME NEW i \in Len(handled) + 1..Len(sent), Reading(i)
      PROVE  InStep'
  <2> DEFINE m == sent[i]
  <2>0. m' = m /\ Body(m)' = Body(m)
    BY DEF Body, Size, HeaderSize, Long
  <2>1. ~AfterLength(m)
    BY DEF AfterLength
  <2>2. CASE AfterId(m)
    <3>1. AfterId(m)'
      BY <2>0, <2>2, <1>0 DEF AfterId
    <3>2. Reading(i)'
      BY <1>3, <3>1, <1>0 DEF Reading
    <3> QED
      BY <3>2 DEF InStep
  <2>3. CASE AtBody(m)
    <3>1. AtBody(m)'
      BY <2>0, <2>3, <1>0 DEF AtBody
    <3>2. Reading(i)'
      BY <1>3, <3>1, <1>0 DEF Reading
    <3> QED
      BY <3>2 DEF InStep
  <2> QED
    BY <1>3, <2>1, <2>2, <2>3 DEF Reading
<1> QED
  BY <1>1, <1>2, <1>3 DEF InStep

\* Nothing has been received when a message is sent.
LEMMA SendStep ==
  ASSUME IInv, NEW k \in Kinds, Send(k)
  PROVE  IInv'
<1>1. BaseInv' /\ BaseInv
  BY SendBase DEF IInv
<1>2. /\ got = 0 /\ pc = "idle" /\ recvPackets_ = <<>> /\ handled = <<>>
      /\ currMsgID_ = NoKind /\ ~isCondemn_ /\ Len(handled) = 0
  BY <1>1 DEF BaseInv, ReaderInPacket, Send, Sends
<1>3. HandledAsSent'
  BY <1>2 DEF HandledAsSent, Send, Sends
<1>4. InStep'
  <2> SUFFICES ASSUME faults = {} PROVE AtNone'
    BY DEF InStep, Send, Sends
  <2>1. AtNone
    BY <1>1, <1>2, ReadingFacts DEF IInv, InStep
  <2>2. Pos = 0 /\ Pos' = 0 /\ handled' = <<>> /\ Len(handled') = 0
    BY <1>2 DEF Pos, Running, Send, Sends
  <2> QED
    BY <2>1, <2>2, <1>2 DEF AtNone, EndAfter, Send, Sends, reader, FragmentLength
<1> QED
  BY <1>1, <1>3, <1>4 DEF IInv

LEMMA ReceiveStep ==
  ASSUME IInv, NEW n \in 1..total, Receive(n)
  PROVE  IInv'
<1>1. BaseInv' /\ BaseInv
  BY ReceiveBase DEF IInv
<1>2. HandledAsSent'
  BY HandledKept DEF IInv, Receive
<1>3. Pos' = Pos
  <2>1. /\ pc = "idle" /\ pc' = "idle" /\ recvPackets_ \in Seq(Interval) /\ got \in Nat
        /\ recvPackets_' = Append(recvPackets_, [lo |-> got, hi |-> got + n])
    BY <1>1 DEF BaseInv, TypeOK, Receive
  <2>2. CASE recvPackets_ = <<>>
    <3>1. recvPackets_' # <<>> /\ recvPackets_'[1].lo = got
      BY <2>1, <2>2
    <3> QED
      BY <2>1, <2>2, <3>1 DEF Pos, Running
  <2>3. CASE recvPackets_ # <<>>
    <3> DEFINE p == [lo |-> got, hi |-> got + n]
    <3>0. p \in Interval
      BY <2>1 DEF Interval
    <3> HIDE DEF p
    <3>1. recvPackets_' # <<>> /\ recvPackets_'[1] = recvPackets_[1]
      <4>1. recvPackets_' = Append(recvPackets_, p)
        BY <2>1 DEF p
      <4>2. 1 \in 1..Len(recvPackets_)
        BY <2>1, <2>3
      <4> QED
        BY <4>1, <4>2, <3>0, <2>1, <2>3
    <3> QED
      BY <2>1, <2>3, <3>1 DEF Pos, Running
  <2> QED
    BY <2>2, <2>3
<1>4. InStep'
  BY <1>3, StillThere DEF IInv, Receive
<1> QED
  BY <1>1, <1>2, <1>4 DEF IInv

LEMMA BeginStep ==
  ASSUME IInv, Begin
  PROVE  IInv'
<1>1. BaseInv' /\ Pos' = Pos
  BY BeginBase DEF IInv
<1>2. HandledAsSent'
  BY HandledKept DEF IInv, Begin
<1>3. InStep'
  BY <1>1, StillThere DEF IInv, Begin
<1> QED
  BY <1>1, <1>2, <1>3 DEF IInv

LEMMA PacketDoneStep ==
  ASSUME IInv, PacketDone
  PROVE  InStep'
<1>1. BaseInv /\ pc = "loop" /\ pc \in Running /\ Break /\ opsize = 0 /\ FragmentLength = 0
  BY DEF IInv, PacketDone, Running
<1>2. Pos' = Pos /\ pc' \in {"loop", "idle"} /\ sent' = sent
  BY <1>1, InHand, BreakMoves
<1> QED
  BY <1>1, <1>2, StillThere DEF IInv, PacketDone

\* The rest of the body is merged, or there was nothing of it yet.
LEMMA MergeBodyStep ==
  ASSUME IInv, faults = {}, MergeBody
  PROVE  InStep'
<1>1. /\ BaseInv /\ pc = "loop" /\ pc' = "loop" /\ pc \in Running /\ fragmentsFlag_ = "BODY"
      /\ pFragmentsRemainning_ \in Nat
      /\ UNCHANGED <<sent, handled, isCondemn_, currMsgID_, currMsgLen_, faults>>
      /\ fragmentsFlag_' = "UNKNOW" /\ pFragmentsRemainning_' = 0
      /\ fragment' = Cached(pFragmentsRemainning_) /\ rd' = rd + pFragmentsRemainning_
  BY BaseReader, PRAssumption DEF IInv, MergeBody, Merges, Running, Stays, ReaderOK
<1>2. PICK i \in Len(handled) + 1..Len(sent) : Reading(i)
  BY <1>1, InStepCases DEF AtNone
<1> DEFINE m == sent[i]
           b == Body(m)
<1>3. AtBody(m) /\ m.kind = currMsgID_
  BY <1>1, <1>2 DEF Reading, AfterId, AfterLength
<1>4. /\ Pos = rd /\ rd \in Nat /\ Pos' = rd'
      /\ fragment.lo \in Nat /\ fragment.hi \in Nat /\ FragmentLength = fragment.hi - fragment.lo
      /\ b.lo \in Nat /\ b.hi = b.lo + currMsgID_.len /\ currMsgID_.len \in Nat
  BY <1>1, <1>2, InHand, ReadingFacts DEF Pos, Running
<1>5. /\ fragment' \in Interval /\ FragmentLength' = fragment'.hi - fragment'.lo
      /\ fragment' = [lo |-> fragment'.lo, hi |-> fragment'.hi]
      /\ FragmentLength = 0 => fragment'.lo = rd /\ fragment'.hi = rd + pFragmentsRemainning_
      /\ FragmentLength > 0 => /\ fragment'.lo = fragment.lo
                               /\ fragment'.hi = fragment.hi + pFragmentsRemainning_
  BY <1>1, CachedFacts DEF FragmentLength, Interval
<1>6. m' = m /\ b' = b
  BY <1>1 DEF Body, Size, HeaderSize, Long
<1>7. AtBody(m)'
  <2>1. CASE FragmentLength = 0
    <3>1. pFragmentsRemainning_ = 0 /\ Pos = b.lo /\ m.kind.len > 0
      BY <1>1, <1>3, <2>1 DEF AtBody
    <3>2. FragmentLength' = 0 /\ Pos' = b.lo
      BY <3>1, <2>1, <1>1, <1>4, <1>5
    <3> QED
      BY <3>1, <3>2, <1>1, <1>3, <1>6 DEF AtBody
  <2>2. CASE FragmentLength > 0
    <3>1. /\ fragment = [lo |-> b.lo, hi |-> Pos]
          /\ pFragmentsRemainning_ > 0 /\ Pos + pFragmentsRemainning_ = b.hi
      BY <1>1, <1>3, <2>2 DEF AtBody
    <3>2. fragment.lo = b.lo /\ fragment.hi = rd
      BY <3>1, <1>4
    <3>3. fragment'.lo = b.lo /\ fragment'.hi = b.hi /\ Pos' = b.hi /\ FragmentLength' > 0
      BY <3>1, <3>2, <2>2, <1>1, <1>4, <1>5
    <3> HIDE DEF b
    <3>4. fragment' = [lo |-> b.lo, hi |-> b.hi]
      BY <3>3, <1>5
    <3> QED
      BY <3>3, <3>4, <1>1, <1>3, <1>6 DEF AtBody, b
  <2> QED
    BY <2>1, <2>2, <1>1, InHand
<1>8. Reading(i)'
  BY <1>1, <1>2, <1>6, <1>7 DEF Reading
<1> QED
  BY <1>1, <1>8 DEF InStep

\* A packet in the middle of the body.
LEMMA MergeBodyPartStep ==
  ASSUME IInv, faults = {}, MergeBodyPart
  PROVE  InStep'
<1>1. /\ BaseInv /\ pc = "loop" /\ pc \in Running /\ fragmentsFlag_ = "BODY" /\ Break
      /\ pFragmentsRemainning_ \in Nat /\ opsize < pFragmentsRemainning_ /\ opsize > 0
      /\ UNCHANGED <<sent, handled, isCondemn_, currMsgID_, currMsgLen_, faults, fragmentsFlag_>>
      /\ pFragmentsRemainning_' = pFragmentsRemainning_ - opsize
      /\ fragment' = Cached(opsize)
  BY BaseReader, PRAssumption DEF IInv, MergeBodyPart, Merges, Running, Break, ReaderOK
<1>2. PICK i \in Len(handled) + 1..Len(sent) : Reading(i)
  BY <1>1, InStepCases DEF AtNone
<1> DEFINE m == sent[i]
           b == Body(m)
<1>3. AtBody(m) /\ m.kind = currMsgID_
  BY <1>1, <1>2 DEF Reading, AfterId, AfterLength
<1>4. /\ Pos = rd /\ rd \in Nat /\ opsize \in Nat
      /\ fragment.lo \in Nat /\ fragment.hi \in Nat /\ FragmentLength = fragment.hi - fragment.lo
      /\ b.lo \in Nat /\ b.hi = b.lo + currMsgID_.len /\ currMsgID_.len \in Nat
  BY <1>1, <1>2, InHand, ReadingFacts
<1>5. Pos' = rd + opsize /\ pc' \in {"loop", "idle"}
  BY <1>1, InHand, BreakMoves
<1>6. /\ FragmentLength > 0 /\ fragment = [lo |-> b.lo, hi |-> Pos]
      /\ Pos + pFragmentsRemainning_ = b.hi
  BY <1>1, <1>3, <1>4 DEF AtBody
<1>7. fragment.lo = b.lo /\ fragment.hi = rd
  BY <1>4, <1>6
<1>8. /\ fragment' \in Interval /\ fragment'.lo = fragment.lo /\ fragment'.hi = fragment.hi + opsize
      /\ FragmentLength' = fragment'.hi - fragment'.lo
      /\ fragment' = [lo |-> fragment'.lo, hi |-> fragment'.hi]
  BY <1>1, <1>4, <1>6, CachedFacts DEF FragmentLength, Interval
<1>9. m' = m /\ b' = b
  BY <1>1 DEF Body, Size, HeaderSize, Long
<1>10. /\ fragment'.lo = b.lo /\ fragment'.hi = Pos' /\ FragmentLength' > 0
       /\ pFragmentsRemainning_' > 0 /\ Pos' + pFragmentsRemainning_' = b.hi
  BY <1>1, <1>4, <1>5, <1>6, <1>7, <1>8, SMTT(30)
<1>11. AtBody(m)'
  <2> HIDE DEF b
  <2>1. fragment' = [lo |-> b.lo, hi |-> Pos']
    BY <1>8, <1>10
  <2> QED
    BY <2>1, <1>1, <1>3, <1>5, <1>9, <1>10 DEF AtBody, b
<1>12. Reading(i)'
  BY <1>1, <1>2, <1>9, <1>11 DEF Reading
<1> QED
  BY <1>1, <1>12 DEF InStep

\* The previous packet ended behind an id.
LEMMA MergeNothingStep ==
  ASSUME IInv, faults = {}, MergeNothing
  PROVE  InStep'
<1>1. /\ BaseInv /\ pc = "loop" /\ pc' = "loop" /\ pc \in Running
      /\ fragmentsFlag_ \in {"ID", "LENGTH", "LENGTH1"} /\ fragmentsFlag_' = "UNKNOW"
      /\ UNCHANGED <<sent, handled, isCondemn_, currMsgID_, currMsgLen_, faults, rd,
                     pFragmentsRemainning_, fragment>>
  BY DEF IInv, MergeNothing, Merges, Running, Stays
<1>2. PICK i \in Len(handled) + 1..Len(sent) : Reading(i)
  BY <1>1, InStepCases DEF AtNone
<1>3. AfterId(sent[i])
  BY <1>1, <1>2 DEF Reading, AtBody, AfterLength
<1>4. Pos' = Pos /\ FragmentLength' = FragmentLength
  BY <1>1 DEF Pos, Running, FragmentLength
<1>5. AfterId(sent[i])'
  BY <1>1, <1>3, <1>4 DEF AfterId
<1>6. Reading(i)'
  BY <1>1, <1>2, <1>5 DEF Reading
<1> QED
  BY <1>1, <1>6 DEF InStep

\* No header field is cut as long as no fault was met.
LEMMA MergeHeaderStep ==
  ASSUME IInv, faults = {}, MergeHeader
  PROVE  FALSE
<1>1. /\ BaseInv /\ pc = "loop" /\ pc \in Running
      /\ fragmentsFlag_ \in {"ID", "LENGTH", "LENGTH1"} /\ pFragmentsRemainning_ > 0
  BY DEF IInv, MergeHeader, Merges, Running
<1>2. PICK i \in Len(handled) + 1..Len(sent) : Reading(i)
  BY <1>1, InStepCases DEF AtNone
<1> QED
  BY <1>1, <1>2 DEF Reading, AtBody, AfterLength, AfterId

\* An id cut by the end of the packet is a fault.
LEMMA CacheIdStep ==
  ASSUME IInv, faults = {}, CacheId
  PROVE  faults' # {}
<1>1. /\ BaseInv /\ pc = "loop" /\ pc \in Running /\ currMsgID_ = NoKind
      /\ opsize > 0 \/ FragmentLength > 0
      /\ faults' = IF opsize > 0 THEN faults \cup {"header"} ELSE faults
  BY DEF IInv, CacheId, AtLoop, Running
<1>2. AtNone
  BY <1>1, InStepCases, ReadingFacts
<1> QED
  BY <1>1, <1>2, InHand DEF AtNone

\* The id at the reader's place is that of a message.
LEMMA ReadIdStep ==
  ASSUME IInv, faults = {}, ReadId
  PROVE  InStep'
<1> DEFINE here == {m \in Sent : m.at = rd}
<1>1. /\ BaseInv /\ TypeOK /\ Layout /\ HandledAsSent
      /\ pc = "loop" /\ pc \in Running /\ currMsgID_ = NoKind /\ fragmentsFlag_ = "UNKNOW"
      /\ Reads(IdSize, here, "find") /\ UNCHANGED currMsgLen_
      /\ currMsgID_' = IF here = {} THEN NoKind ELSE (CHOOSE m \in here : TRUE).kind
  BY DEF IInv, BaseInv, ReadId, AtLoop, Running
<1>2. AtNone
  BY <1>1, InStepCases, ReadingFacts
<1>3. /\ UNCHANGED <<sent, handled, isCondemn_, faults, fragmentsFlag_, pFragmentsRemainning_,
                     fragment>>
      /\ FragmentLength' = FragmentLength
      /\ rd' = rd + IdSize /\ pc' = (IF here = {} THEN "derailed" ELSE "find")
      /\ opsize >= IdSize
  BY <1>1 DEF Reads, Stays, FragmentLength
<1>4. Pos = rd /\ rd \in Nat /\ rd < total
  <2>1. IdSize > 0 /\ IdSize \in Nat /\ got <= total /\ got \in Nat /\ total \in Nat
    BY PRAssumption, <1>1 DEF BaseInv, TypeOK, PacketsInLine
  <2> QED
    BY <1>1, <1>3, <2>1, InHand
<1>5. ~isCondemn_ => Len(handled) + 1 \in 1..Len(sent) /\ sent[Len(handled) + 1].at = rd
  BY <1>2, <1>4, AtNext
<1>6. CASE here = {}
  <2>1. isCondemn_
    BY <1>5, <1>6 DEF Sent
  <2> QED
    BY <2>1, <1>3, <1>6 DEF InStep
<1>7. CASE here # {}
  <2>1. here \in SUBSET Sent
    OBVIOUS
  <2>2. PICK i \in 1..Len(sent) : (CHOOSE m \in here : TRUE) = sent[i] /\ sent[i] \in here
    BY <2>1, <1>1, <1>7, FieldFacts
  <2>3. sent[i].at = rd /\ currMsgID_' = sent[i].kind
    BY <2>2, <1>1, <1>7
  <2>4. \A j \in 1..Len(handled) : handled[j].hi <= sent[i].at
    BY <2>3, <1>2, <1>4 DEF AtNone
  <2>5. i \in Len(handled) + 1..Len(sent)
    BY <2>4, <1>1, BehindHandled
  <2>6. ~isCondemn_ => i = Len(handled) + 1
    BY <2>3, <1>1, <1>5, AtUnique
  <2>7. Pos' = sent[i].at + IdSize /\ pc' = "find"
    BY <2>3, <1>3, <1>7 DEF Pos, Running
  <2> HIDE DEF here
  <2>8. AfterId(sent[i])'
    BY <2>7, <1>1, <1>2, <1>3 DEF AtNone, AfterId
  <2>9. Reading(i)'
    BY <2>3, <2>4, <2>6, <2>8, <1>3 DEF Reading
  <2> QED
    BY <2>5, <2>9, <1>3 DEF InStep
<1> QED
  BY <1>6, <1>7

\* An unknown id condemns the channel; its further packets are read on from
\* their first byte.
LEMMA FindFailsStep ==
  ASSUME IInv, faults = {}, FindFails
  PROVE  InStep'
<1>1. /\ BaseInv /\ pc \in {"find", "loop"} /\ pc \in Running /\ Break /\ isCondemn_' = TRUE
      /\ pc = "loop" => currMsgID_ # NoKind /\ fragmentsFlag_ = "UNKNOW"
      /\ ~currMsgID_.known
      /\ currMsgID_' = NoKind /\ currMsgLen_' = 0
      /\ UNCHANGED <<sent, handled, faults, fragmentsFlag_, pFragmentsRemainning_, fragment>>
  BY DEF IInv, FindFails, AtFind, AtLoop, Running, Break
<1>2. PICK i \in Len(handled) + 1..Len(sent) : Reading(i)
  BY <1>1, InStepCases DEF AtNone
<1>3. AfterId(sent[i])
  BY <1>1, <1>2 DEF Reading, AtBody, AfterLength
<1>4. pc' \in {"idle", "loop"} /\ Pos' = recvPackets_[1].hi
  BY <1>1, BreakMoves
<1>5. \A j \in 1..Len(handled) : handled[j].hi <= Pos'
  <2> SUFFICES ASSUME NEW j \in 1..Len(handled) PROVE handled[j].hi <= Pos'
    OBVIOUS
  <2>1. handled[j].hi \in Nat
    <3> DEFINE H == [kind : Kinds, lo : Nat, hi : Nat]
    <3>1. handled \in Seq(H)
      BY <1>1 DEF BaseInv, TypeOK
    <3> HIDE DEF H
    <3>2. handled[j] \in H
      BY <3>1
    <3> QED
      BY <3>2 DEF H
  <2>2. handled[j].hi <= sent[i].at /\ sent[i].at \in Nat
    BY <1>1, <1>2, ReadingFacts DEF Reading
  <2>3. Pos = sent[i].at + IdSize /\ Pos = rd /\ rd <= Pos' /\ Pos' \in Nat /\ IdSize \in Nat
    BY <1>1, <1>3, <1>4, InHand, PRAssumption DEF AfterId
  <2> QED
    BY <2>1, <2>2, <2>3
<1>6. AtNone'
  BY <1>1, <1>3, <1>4, <1>5 DEF AtNone, AfterId, FragmentLength
<1> QED
  BY <1>6 DEF InStep

\* The message is found: its length is known, kept from before, or to be read.
LEMMA FindMessageStep ==
  ASSUME IInv, faults = {}, FindMessage
  PROVE  InStep'
<1>1. /\ BaseInv /\ pc \in {"find", "loop"} /\ pc \in Running
      /\ pc = "loop" => currMsgID_ # NoKind /\ fragmentsFlag_ = "UNKNOW"
      /\ currMsgID_.known
      /\ pc' = (IF currMsgLen_ # 0 \/ ~currMsgID_.variable THEN "body" ELSE "length")
      /\ currMsgLen_' = (IF currMsgLen_ = 0 /\ ~currMsgID_.variable
                         THEN currMsgID_.len ELSE currMsgLen_)
      /\ UNCHANGED <<sent, handled, isCondemn_, faults, rd, fragmentsFlag_,
                     pFragmentsRemainning_, currMsgID_, fragment>>
  BY DEF IInv, FindMessage, AtFind, AtLoop, Running, Stays
<1>2. PICK i \in Len(handled) + 1..Len(sent) : Reading(i)
  BY <1>1, InStepCases DEF AtNone
<1> DEFINE m == sent[i]
           b == Body(m)
<1>3. /\ m.kind = currMsgID_ /\ currMsgID_ \in Kinds /\ m.at \in Nat
      /\ b.lo = m.at + HeaderSize(currMsgID_) /\ b.hi = b.lo + currMsgID_.len
      /\ b.lo \in Nat /\ currMsgID_.len \in Nat
      /\ currMsgID_.variable \in BOOLEAN
      /\ ~currMsgID_.variable => HeaderSize(currMsgID_) = IdSize
  BY <1>1, <1>2, ReadingFacts, SizeFacts
<1>4. Pos' = Pos /\ FragmentLength' = FragmentLength
  BY <1>1 DEF Pos, Running, FragmentLength
<1>5. m' = m /\ b' = b
  BY <1>1 DEF Body, Size, HeaderSize, Long
<1> HIDE DEF b
<1>6. AfterId(m)' \/ AtBody(m)'
  <2>1. CASE AfterId(m) /\ currMsgID_.variable
    <3>1. AfterId(m)'
      BY <2>1, <1>1, <1>3, <1>4, <1>5 DEF AfterId
    <3> QED
      BY <3>1
  <2>2. CASE AfterId(m) /\ ~currMsgID_.variable
    <3>1. FragmentLength = 0 /\ pFragmentsRemainning_ = 0 /\ Pos = m.at + IdSize
          /\ currMsgLen_ = 0 /\ fragmentsFlag_ = "UNKNOW"
      BY <2>2, <1>1, <1>3 DEF AfterId
    <3>2. Pos' = b.lo /\ currMsgLen_' = currMsgID_.len /\ pc' = "body"
      BY <3>1, <2>2, <1>1, <1>3, <1>4
    <3>3. AtBody(m)'
      BY <3>1, <3>2, <1>1, <1>3, <1>4, <1>5 DEF AtBody, b
    <3> QED
      BY <3>3
  <2>3. CASE AtBody(m)
    <3>1. pc = "loop"
      BY <2>3, <1>1 DEF AtBody
    <3>2. currMsgLen_ = currMsgID_.len /\ currMsgLen_ # 0
      <4>1. currMsgLen_ = currMsgID_.len
        BY <2>3, <1>3 DEF AtBody
      <4>2. CASE FragmentLength = 0
        BY <4>1, <4>2, <3>1, <2>3, <1>1, <1>3 DEF AtBody
      <4>3. CASE FragmentLength # 0
        <5>1. fragment = [lo |-> b.lo, hi |-> b.hi]
          BY <4>3, <3>1, <2>3, <1>1, <1>3 DEF AtBody, b
        <5>2. FragmentLength = currMsgID_.len
          BY <5>1, <1>3 DEF FragmentLength
        <5> QED
          BY <5>2, <4>1, <4>3
      <4> QED
        BY <4>1, <4>2, <4>3
    <3>3. pc' = "body" /\ currMsgLen_' = currMsgLen_
      BY <3>2, <1>1
    <3>4. AtBody(m)'
      BY <3>1, <3>3, <2>3, <1>1, <1>3, <1>4, <1>5 DEF AtBody, b
    <3> QED
      BY <3>4
  <2> QED
    BY <2>1, <2>2, <2>3, <1>1, <1>2 DEF Reading, AfterLength
<1>7. Reading(i)'
  BY <1>1, <1>2, <1>5, <1>6 DEF Reading
<1> QED
  BY <1>1, <1>7 DEF InStep

\* A length cut by the end of the packet is a fault; one that begins behind it
\* is waited for.
LEMMA CacheLengthStep ==
  ASSUME IInv, faults = {}, faults' = {}, CacheLength
  PROVE  InStep'
<1>1. /\ BaseInv /\ pc = "length" /\ pc \in Running /\ Break /\ opsize \in Nat
      /\ faults' = (IF opsize > 0 THEN faults \cup {"header"} ELSE faults)
      /\ fragmentsFlag_' = "LENGTH"
      /\ pFragmentsRemainning_' =
            (IF opsize > 0 THEN LenSize - opsize ELSE pFragmentsRemainning_)
      /\ UNCHANGED <<sent, handled, isCondemn_, currMsgID_, currMsgLen_, fragment>>
  BY InHand DEF IInv, CacheLength, Caches, Running, Break
<1>2. opsize = 0 /\ pFragmentsRemainning_' = pFragmentsRemainning_
  BY <1>1
<1>3. PICK i \in Len(handled) + 1..Len(sent) : Reading(i)
  BY <1>1, InStepCases DEF AtNone
<1>4. AfterId(sent[i]) /\ sent[i].kind.variable
  BY <1>1, <1>3 DEF Reading, AtBody, AfterLength, AfterId
<1>5. Pos' = Pos /\ pc' \in {"idle", "loop"} /\ FragmentLength' = FragmentLength
  BY <1>1, <1>2, InHand, BreakMoves DEF FragmentLength
<1>6. AfterId(sent[i])'
  BY <1>1, <1>2, <1>4, <1>5 DEF AfterId
<1>7. Reading(i)'
  BY <1>1, <1>3, <1>6 DEF Reading
<1> QED
  BY <1>1, <1>7 DEF InStep

\* The length of the message being read.
LEMMA ReadLengthStep ==
  ASSUME IInv, faults = {}, ReadLength
  PROVE  InStep'
<1> DEFINE here == {m \in Sent : m.kind.variable /\ m.at + IdSize = rd}
           len  == IF here = {} THEN 0 ELSE (CHOOSE m \in here : TRUE).kind.len
<1>1. /\ BaseInv /\ TypeOK /\ Layout /\ pc = "length" /\ pc \in Running
      /\ Reads(LenSize, here, IF len >= MaxSize THEN "length1" ELSE "body")
      /\ currMsgLen_' = (IF len >= MaxSize THEN MaxSize ELSE len)
      /\ currMsgID_' = currMsgID_
  BY DEF IInv, BaseInv, ReadLength, Running
<1>2. PICK i \in Len(handled) + 1..Len(sent) : Reading(i)
  BY <1>1, InStepCases DEF AtNone
<1>3. AfterId(sent[i]) /\ sent[i].kind.variable /\ sent[i].kind.known /\ fragmentsFlag_ = "UNKNOW"
  BY <1>1, <1>2 DEF Reading, AtBody, AfterLength, AfterId
<1>4. /\ i \in 1..Len(sent) /\ sent[i].kind = currMsgID_ /\ sent[i].at \in Nat
      /\ currMsgID_ \in Kinds /\ currMsgID_.len \in Nat
      /\ Body(sent[i]).lo = sent[i].at + HeaderSize(currMsgID_)
  BY <1>1, <1>2, ReadingFacts
<1>5. rd = sent[i].at + IdSize /\ sent[i] \in here
  BY <1>1, <1>3, <1>4, InHand DEF AfterId, Sent
<1>6. len = currMsgID_.len
  <2>1. here \in SUBSET Sent /\ here # {}
    BY <1>5
  <2>2. PICK j \in 1..Len(sent) : (CHOOSE m \in here : TRUE) = sent[j] /\ sent[j] \in here
    BY <2>1, <1>1, FieldFacts
  <2>3. sent[j].at = sent[i].at
    <3>1. sent[j].at \in Nat /\ sent[j].at + IdSize = rd /\ IdSize \in Nat
      BY <2>2, <1>1, SentFacts, PRAssumption
    <3> QED
      BY <3>1, <1>4, <1>5, SMTT(30)
  <2>4. j = i
    BY <2>3, <1>1, <1>4, AtUnique
  <2> QED
    BY <2>1, <2>2, <2>4, <1>4
<1>7. here # {}
  BY <1>5
<1> HIDE DEF here, len
<1>8. /\ UNCHANGED <<sent, handled, isCondemn_, faults, fragmentsFlag_, pFragmentsRemainning_,
                     fragment>>
      /\ FragmentLength' = FragmentLength
      /\ rd' = rd + LenSize
      /\ pc' = IF currMsgID_.len >= MaxSize THEN "length1" ELSE "body"
  BY <1>1, <1>6, <1>7 DEF Reads, Stays, FragmentLength
<1>9. Pos' = sent[i].at + IdSize + LenSize
  BY <1>4, <1>5, <1>8, PRAssumption DEF Pos, Running
<1>10. AfterLength(sent[i])' \/ AtBody(sent[i])'
  <2>1. CASE currMsgID_.len >= MaxSize
    <3>1. AfterLength(sent[i])'
      BY <2>1, <1>3, <1>4, <1>8, <1>9 DEF AfterLength, AfterId, Long
    <3> QED
      BY <3>1
  <2>2. CASE ~(currMsgID_.len >= MaxSize)
    <3>1. HeaderSize(currMsgID_) = IdSize + LenSize
      BY <2>2, <1>3, <1>4, SizeFacts, PRAssumption, SMTT(30)
    <3>2. Pos' = Body(sent[i]).lo /\ currMsgLen_' = currMsgID_.len
      BY <3>1, <2>2, <1>1, <1>4, <1>6, <1>9, PRAssumption, SMTT(30)
    <3>3. Body(sent[i])' = Body(sent[i])
      BY <1>8 DEF Body, Size, HeaderSize, Long
    <3>4. AtBody(sent[i])'
      BY <3>2, <3>3, <2>2, <1>3, <1>4, <1>8 DEF AtBody, AfterId
    <3> QED
      BY <3>4
  <2> QED
    BY <2>1, <2>2
<1>11. Reading(i)'
  BY <1>1, <1>2, <1>8, <1>10 DEF Reading
<1> QED
  BY <1>8, <1>11 DEF InStep

\* The extended length of the message being read.
LEMMA ReadLength1Step ==
  ASSUME IInv, faults = {}, ReadLength1
  PROVE  InStep'
<1> DEFINE here == {m \in Sent : Long(m.kind) /\ m.at + IdSize + LenSize = rd}
<1>1. /\ BaseInv /\ TypeOK /\ Layout /\ pc = "length1" /\ pc \in Running
      /\ Reads(Len1Size, here, "body")
      /\ currMsgLen_' = (IF here = {} THEN 0 ELSE (CHOOSE m \in here : TRUE).kind.len)
      /\ currMsgID_' = currMsgID_
  BY DEF IInv, BaseInv, ReadLength1, Running
<1>2. PICK i \in Len(handled) + 1..Len(sent) : Reading(i)
  BY <1>1, InStepCases DEF AtNone
<1>3. AfterLength(sent[i])
  BY <1>1, <1>2 DEF Reading, AtBody, AfterId
<1>4. /\ i \in 1..Len(sent) /\ sent[i].kind = currMsgID_ /\ sent[i].at \in Nat
      /\ currMsgID_ \in Kinds /\ currMsgID_.len \in Nat
      /\ Body(sent[i]).lo = sent[i].at + HeaderSize(currMsgID_)
  BY <1>1, <1>2, ReadingFacts
<1>5. rd = sent[i].at + IdSize + LenSize /\ sent[i] \in here
  BY <1>1, <1>3, <1>4, InHand DEF AfterLength, Sent
<1>6. currMsgLen_' = currMsgID_.len
  <2>1. here \in SUBSET Sent /\ here # {}
    BY <1>5
  <2>2. PICK j \in 1..Len(sent) : (CHOOSE m \in here : TRUE) = sent[j] /\ sent[j] \in here
    BY <2>1, <1>1, FieldFacts
  <2>3. sent[j].at = sent[i].at
    <3>1. sent[j].at \in Nat /\ sent[j].at + IdSize + LenSize = rd /\ IdSize \in Nat /\ LenSize \in Nat
      BY <2>2, <1>1, SentFacts, PRAssumption
    <3> QED
      BY <3>1, <1>4, <1>5, SMTT(30)
  <2>4. j = i
    BY <2>3, <1>1, <1>4, AtUnique
  <2> QED
    BY <2>1, <2>2, <2>4, <1>1, <1>4
<1>7. here # {}
  BY <1>5
<1> HIDE DEF here
<1>8. /\ UNCHANGED <<sent, handled, isCondemn_, faults, fragmentsFlag_, pFragmentsRemainning_,
                     fragment>>
      /\ FragmentLength' = FragmentLength
      /\ rd' = rd + Len1Size /\ pc' = "body"
  BY <1>1, <1>7 DEF Reads, Stays, FragmentLength
<1>9. Pos' = Body(sent[i]).lo
  <2>1. HeaderSize(currMsgID_) = IdSize + LenSize + Len1Size
    BY <1>3, <1>4, SizeFacts DEF AfterLength
  <2> QED
    BY <2>1, <1>4, <1>5, <1>8, PRAssumption, SMTT(30) DEF Pos, Running
<1>10. AtBody(sent[i])'
  <2>1. Body(sent[i])' = Body(sent[i])
    BY <1>8 DEF Body, Size, HeaderSize, Long
  <2> QED
    BY <2>1, <1>3, <1>4, <1>6, <1>8, <1>9 DEF AtBody, AfterLength
<1>11. Reading(i)'
  BY <1>1, <1>2, <1>8, <1>10 DEF Reading
<1> QED
  BY <1>8, <1>11 DEF InStep

\* Without a fault the body refused was in the last packet.
LEMMA RefuseLongStep ==
  ASSUME IInv, faults = {}, faults' = {}, RefuseLong
  PROVE  InStep'
<1>1. /\ BaseInv /\ pc \in Running /\ Break /\ isCondemn_' = TRUE
      /\ faults' = IF Len(recvPackets_) > 1 THEN faults \cup {"refused"} ELSE faults
  BY DEF IInv, RefuseLong, Running
<1>2. pc' = "idle"
  BY <1>1, BreakMoves
<1> QED
  BY <1>1, <1>2 DEF InStep

\* The body goes on in the next packet; what is missing fits its 16 bits, or
\* the fault "width" was met.
LEMMA CacheBodyStep ==
  ASSUME IInv, faults = {}, faults' = {}, CacheBody
  PROVE  InStep'
<1>1. /\ BaseInv /\ pc = "body" /\ pc \in Running /\ Break
      /\ FragmentLength = 0 /\ opsize < currMsgLen_
      /\ fragmentsFlag_' = "BODY" /\ fragment' = Cached(opsize)
      /\ pFragmentsRemainning_' =
            (IF opsize > 0 THEN (currMsgLen_ - opsize) % (MaxSize + 1)
             ELSE pFragmentsRemainning_)
      /\ faults' = (IF opsize > 0 /\ currMsgLen_ - opsize > MaxSize
                    THEN faults \cup {"width"} ELSE faults)
      /\ UNCHANGED <<sent, handled, isCondemn_, currMsgID_, currMsgLen_>>
  BY DEF IInv, CacheBody, Running, Break
<1>2. PICK i \in Len(handled) + 1..Len(sent) : Reading(i)
  BY <1>1, InStepCases DEF AtNone
<1> DEFINE m == sent[i]
           b == Body(m)
<1>3. AtBody(m) /\ m.kind = currMsgID_ /\ currMsgLen_ = currMsgID_.len
  BY <1>1, <1>2 DEF Reading, AfterId, AfterLength, AtBody
<1>4. pFragmentsRemainning_ = 0 /\ Pos = b.lo
  BY <1>1, <1>3 DEF AtBody
<1>5. /\ Pos = rd /\ rd \in Nat /\ opsize \in Nat /\ MaxSize \in Nat
      /\ b.lo \in Nat /\ b.hi = b.lo + currMsgID_.len /\ currMsgID_.len \in Nat
  BY <1>1, <1>2, InHand, ReadingFacts, PRAssumption
<1>6. Pos' = rd + opsize /\ pc' \in {"idle", "loop"}
  BY <1>1, InHand, BreakMoves
<1>7. /\ fragment' \in Interval /\ fragment'.lo = rd /\ fragment'.hi = rd + opsize
      /\ FragmentLength' = opsize
      /\ fragment' = [lo |-> fragment'.lo, hi |-> fragment'.hi]
  BY <1>1, <1>5, CachedFacts DEF FragmentLength, Interval
<1>8. m' = m /\ b' = b
  BY <1>1 DEF Body, Size, HeaderSize, Long
<1>9. AtBody(m)'
  <2> HIDE DEF b
  <2>1. CASE opsize = 0
    <3>1. Pos' = b.lo /\ FragmentLength' = 0 /\ pFragmentsRemainning_' = 0 /\ currMsgID_.len > 0
      BY <2>1, <1>1, <1>3, <1>4, <1>5, <1>6, <1>7
    <3> QED
      BY <3>1, <1>1, <1>3, <1>6, <1>8 DEF AtBody, b
  <2>2. CASE opsize > 0
    <3>0. ~(currMsgLen_ - opsize > MaxSize) /\ currMsgLen_ \in Nat
      BY <2>2, <1>1, <1>3, <1>5
    <3>1. currMsgLen_ - opsize <= MaxSize
      BY <3>0, <1>5
    <3>2. currMsgLen_ - opsize \in 1..MaxSize
      BY <3>1, <1>1, <1>3, <1>5, SMTT(30)
    <3>3. \A x \in 1..MaxSize : x % (MaxSize + 1) = x
      BY <1>5
    <3>4. pFragmentsRemainning_' = currMsgLen_ - opsize
      BY <3>2, <3>3, <2>2, <1>1
    <3>5. /\ pFragmentsRemainning_' > 0 /\ Pos' + pFragmentsRemainning_' = b.hi
          /\ FragmentLength' > 0
      <4>1. /\ currMsgLen_ = currMsgID_.len /\ Pos' = b.lo + opsize /\ FragmentLength' = opsize
            /\ b.hi = b.lo + currMsgLen_ /\ b.lo \in Nat /\ currMsgLen_ \in Nat /\ opsize \in Nat
        BY <1>3, <1>4, <1>5, <1>6, <1>7
      <4> QED
        BY <4>1, <3>2, <3>4, <2>2, SMTT(30)
    <3>6. fragment' = [lo |-> b.lo, hi |-> Pos']
      BY <1>4, <1>5, <1>6, <1>7
    <3> QED
      BY <3>5, <3>6, <1>1, <1>3, <1>6, <1>8 DEF AtBody, b
  <2> QED
    BY <2>1, <2>2, <1>5
<1>10. Reading(i)'
  BY <1>1, <1>2, <1>8, <1>9 DEF Reading
<1> QED
  BY <1>1, <1>10 DEF InStep

\* Message i is handled and the reader is behind it.
LEMMA HandledOne ==
  ASSUME IInv, faults = {}, NEW i \in Len(handled) + 1..Len(sent), Reading(i),
         handled' = Append(handled, Body(sent[i])), UNCHANGED <<sent, faults, isCondemn_>>,
         Pos' = Body(sent[i]).hi, pc' = "loop", currMsgID_' = NoKind, currMsgLen_' = 0,
         FragmentLength' = 0, fragmentsFlag_' = "UNKNOW", pFragmentsRemainning_' = 0
  PROVE  InStep' /\ HandledAsSent'
<1> DEFINE n == Len(handled)
           b == Body(sent[i])
           h2 == handled'
<1>0. BaseInv /\ TypeOK /\ HandledAsSent /\ n \in Nat /\ Len(sent) \in Nat
  BY DEF IInv, BaseInv, TypeOK
<1>1. /\ i \in 1..Len(sent) /\ sent[i].kind \in Kinds /\ sent[i].at \in Nat
      /\ b.lo \in Nat /\ b.hi \in Nat /\ b.hi = EndOf(sent[i]) /\ b.lo <= b.hi
      /\ b.lo > sent[i].at
  <2>1. i \in 1..Len(sent)
    BY <1>0
  <2>2. sent[i].kind \in Kinds
    BY <2>1, <1>0, SentFacts
  <2>3. HeaderSize(sent[i].kind) >= IdSize /\ IdSize > 0 /\ IdSize \in Nat
        /\ HeaderSize(sent[i].kind) \in Nat /\ sent[i].kind.len \in Nat
    BY <2>2, SizeFacts, PRAssumption, SMTT(30)
  <2>4. /\ sent[i].at \in Nat /\ b.lo = sent[i].at + HeaderSize(sent[i].kind)
        /\ b.hi = EndOf(sent[i]) /\ b.hi = b.lo + sent[i].kind.len
    BY <2>1, <1>0, SentFacts
  <2> HIDE DEF b
  <2> QED
    BY <2>1, <2>2, <2>3, <2>4
<1>2. b = [kind |-> sent[i].kind, lo |-> b.lo, hi |-> b.hi]
  BY DEF Body
<1>3. /\ Len(h2) = n + 1 /\ h2[n + 1] = b /\ \A j \in 1..n : h2[j] = handled[j]
  <2> HIDE DEF b
  <2>1. handled \in Seq([kind : Kinds, lo : Nat, hi : Nat])
        /\ handled' = Append(handled, [kind |-> sent[i].kind, lo |-> b.lo, hi |-> b.hi])
    BY <1>0, <1>2 DEF TypeOK, b
  <2> QED
    BY <2>1, <1>1, <1>2, HandledGrows
<1>4. \A j \in 1..n : handled[j].hi \in Nat /\ handled[j].hi <= sent[i].at
  <2> DEFINE H == [kind : Kinds, lo : Nat, hi : Nat]
  <2>1. handled \in Seq(H)
    BY <1>0 DEF TypeOK
  <2> HIDE DEF H
  <2>2. \A j \in 1..n : handled[j] \in H
    BY <2>1
  <2>3. \A j \in 1..n : handled[j].hi \in Nat
    BY <2>2 DEF H
  <2> QED
    BY <2>3 DEF Reading
<1> HIDE DEF b
<1>5. \A j \in 1..n + 1 : h2[j].hi <= b.hi
  <2> SUFFICES ASSUME NEW j \in 1..n + 1 PROVE h2[j].hi <= b.hi
    OBVIOUS
  <2>1. CASE j = n + 1
    BY <2>1, <1>1, <1>3
  <2>2. CASE j # n + 1
    <3>1. j \in 1..n
      BY <2>2, <1>0
    <3> QED
      BY <3>1, <1>1, <1>3, <1>4
  <2> QED
    BY <2>1, <2>2
<1>6. ~isCondemn_ => i = n + 1 /\ b.hi = EndAfter(n + 1)
  <2>1. ~isCondemn_ => i = n + 1
    BY DEF Reading
  <2>2. n + 1 # 0
    BY <1>0
  <2> QED
    BY <2>1, <2>2, <1>1 DEF EndAfter
<1>7. AtNone'
  <2>2. ~isCondemn_' => Pos' = EndAfter(Len(handled))'
    <3>1. EndAfter(Len(handled))' = IF Len(h2) = 0 THEN 0 ELSE EndOf(sent[Len(h2)])
      BY DEF EndAfter, EndOf
    <3> QED
      BY <3>1, <1>3, <1>6 DEF EndAfter, b
  <2>3. \A j \in 1..Len(handled') : handled'[j].hi <= Pos'
    BY <1>3, <1>5 DEF b
  <2> QED
    BY <2>2, <2>3 DEF AtNone
<1>8. InStep'
  BY <1>7, SMTT(30) DEF InStep
<1>9. HandledAsSent'
  <2>1. ASSUME NEW j \in 1..n + 1
        PROVE  \E k \in j..Len(sent) : h2[j] = Body(sent[k]) /\ (~isCondemn_ => k = j)
    <3>1. CASE j = n + 1
      <4>1. i \in j..Len(sent)
        BY <3>1, <1>0, <1>1
      <4>2. h2[j] = Body(sent[i]) /\ (~isCondemn_ => i = j)
        BY <3>1, <1>3, <1>6 DEF b
      <4> QED
        BY <4>1, <4>2
    <3>2. CASE j # n + 1
      <4>1. j \in 1..n
        BY <3>2, <1>0
      <4> QED
        BY <4>1, <1>0, <1>3 DEF HandledAsSent
    <3> QED
      BY <3>1, <3>2
  <2>2. ASSUME NEW x \in 1..n + 1, NEW j \in 1..n + 1, x < j
        PROVE  h2[x].hi < h2[j].lo
    <3>1. x \in 1..n
      BY <2>2, <1>0
    <3>2. CASE j = n + 1
      BY <3>1, <3>2, <1>1, <1>3, <1>4
    <3>3. CASE j # n + 1
      <4>1. j \in 1..n
        BY <3>3, <1>0
      <4> QED
        BY <4>1, <3>1, <2>2, <1>0, <1>3 DEF HandledAsSent
    <3> QED
      BY <3>2, <3>3
  <2>3. \A j \in 1..Len(handled') : \E k \in j..Len(sent') :
          /\ handled'[j] = Body(sent'[k])
          /\ ~isCondemn_' => k = j
    BY <1>3, <2>1
  <2>4. \A x, j \in 1..Len(handled') : x < j => handled'[x].hi < handled'[j].lo
    BY <1>3, <2>2
  <2> HIDE DEF h2
  <2> QED
    BY <2>3, <2>4 DEF HandledAsSent, Body, Size, HeaderSize, Long
<1> QED
  BY <1>8, <1>9

LEMMA HandleInPlaceStep ==
  ASSUME IInv, faults = {}, HandleInPlace
  PROVE  InStep' /\ HandledAsSent'
<1>1. /\ BaseInv /\ pc = "body" /\ pc \in Running /\ FragmentLength = 0
      /\ handled' = Append(handled, [kind |-> currMsgID_, lo |-> rd, hi |-> rd + currMsgLen_])
      /\ rd' = rd + currMsgLen_ /\ pc' = "loop" /\ currMsgID_' = NoKind /\ currMsgLen_' = 0
      /\ UNCHANGED <<sent, faults, isCondemn_, fragmentsFlag_, pFragmentsRemainning_, fragment>>
  BY DEF IInv, HandleInPlace, Running, Stays
<1>2. PICK i \in Len(handled) + 1..Len(sent) : Reading(i)
  BY <1>1, InStepCases DEF AtNone
<1> DEFINE b == Body(sent[i])
<1>3. AtBody(sent[i]) /\ sent[i].kind = currMsgID_ /\ currMsgLen_ = currMsgID_.len
  BY <1>1, <1>2 DEF Reading, AfterId, AfterLength, AtBody
<1>4. pFragmentsRemainning_ = 0 /\ Pos = b.lo /\ fragmentsFlag_ = "UNKNOW"
  BY <1>1, <1>3 DEF AtBody
<1>5. rd = b.lo /\ rd + currMsgLen_ = b.hi /\ b.kind = currMsgID_
  BY <1>1, <1>2, <1>3, <1>4, InHand, ReadingFacts DEF Body
<1>6. b = [kind |-> b.kind, lo |-> b.lo, hi |-> b.hi]
  BY DEF Body
<1>7. handled' = Append(handled, Body(sent[i]))
  <2> HIDE DEF b
  <2>1. handled' = Append(handled, b)
    BY <1>1, <1>5, <1>6
  <2> QED
    BY <2>1 DEF b
<1>8. Pos' = Body(sent[i]).hi /\ FragmentLength' = 0
  BY <1>1, <1>5 DEF Pos, Running, FragmentLength
<1> QED
  BY <1>1, <1>2, <1>4, <1>7, <1>8, HandledOne

LEMMA HandleFragmentStep ==
  ASSUME IInv, faults = {}, HandleFragment
  PROVE  InStep' /\ HandledAsSent'
<1>1. /\ BaseInv /\ pc = "body" /\ pc \in Running /\ FragmentLength > 0
      /\ handled' = Append(handled, [kind |-> currMsgID_, lo |-> fragment.lo, hi |-> fragment.hi])
      /\ rd' = rd /\ pc' = "loop" /\ currMsgID_' = NoKind /\ currMsgLen_' = 0
      /\ fragment' = [lo |-> 0, hi |-> 0]
      /\ UNCHANGED <<sent, faults, isCondemn_, fragmentsFlag_, pFragmentsRemainning_>>
  BY DEF IInv, HandleFragment, Running, Stays
<1>2. PICK i \in Len(handled) + 1..Len(sent) : Reading(i)
  BY <1>1, InStepCases DEF AtNone
<1> DEFINE b == Body(sent[i])
<1>3. AtBody(sent[i]) /\ sent[i].kind = currMsgID_
  BY <1>1, <1>2 DEF Reading, AfterId, AfterLength
<1>4. /\ pFragmentsRemainning_ = 0 /\ fragmentsFlag_ = "UNKNOW"
      /\ fragment = [lo |-> b.lo, hi |-> b.hi] /\ Pos = b.hi
  BY <1>1, <1>3 DEF AtBody
<1>5. b = [kind |-> b.kind, lo |-> b.lo, hi |-> b.hi] /\ b.kind = currMsgID_
  BY <1>3 DEF Body
<1>6. handled' = Append(handled, Body(sent[i]))
  <2> HIDE DEF b
  <2>1. fragment.lo = b.lo /\ fragment.hi = b.hi
    BY <1>4
  <2>2. handled' = Append(handled, b)
    BY <2>1, <1>1, <1>5
  <2> QED
    BY <2>2 DEF b
<1>7. Pos' = Body(sent[i]).hi /\ FragmentLength' = 0
  BY <1>1, <1>4 DEF Pos, Running, FragmentLength
<1> QED
  BY <1>1, <1>2, <1>4, <1>6, <1>7, HandledOne

-----------------------------------------------------------------------------
(* The theorems.                                                            *)

\* A step of processMessages keeps IInv.
LEMMA StepInductive ==
  ASSUME IInv, Step
  PROVE  IInv'
<1>1. BaseInv'
  BY BaseStep DEF IInv
<1>2. faults \subseteq faults'
  BY FaultsGrow
<1>3. CASE faults' # {}
  BY <1>1, <1>3 DEF IInv, InStep, HandledAsSent
<1>4. CASE faults' = {}
  <2>0. faults = {}
    BY <1>2, <1>4
  <2>1. CASE HandleInPlace
    BY <2>0, <2>1, <1>1, HandleInPlaceStep DEF IInv
  <2>2. CASE HandleFragment
    BY <2>0, <2>2, <1>1, HandleFragmentStep DEF IInv
  <2>3. CASE ~HandleInPlace /\ ~HandleFragment
    <3>1. HandledAsSent'
      <4>1. UNCHANGED <<sent, handled>> /\ (isCondemn_ => isCondemn_')
        BY <2>3 DEF Step, PacketDone, Merge, MergeBody, MergeBodyPart, MergeNothing, MergeHeader,
             Parse, CacheId, ReadId, FindFails, FindMessage, CacheLength, ReadLength,
             CacheLength1, ReadLength1, Handle, RefuseLong, CacheBody, Break, Stays, Caches, Reads
      <4> QED
        BY <4>1, <1>2, HandledKept DEF IInv
    <3>2. InStep'
      <4>1. CASE PacketDone
        BY <4>1, PacketDoneStep
      <4>2. CASE Merge
        BY <4>2, <2>0, MergeBodyStep, MergeBodyPartStep, MergeNothingStep, MergeHeaderStep DEF Merge
      <4>3. CASE CacheLength1
        BY <4>3, <1>4 DEF CacheLength1
      <4>4. CASE Parse /\ ~CacheLength1
        BY <4>4, <2>0, <1>4, CacheIdStep, ReadIdStep, FindFailsStep, FindMessageStep,
           CacheLengthStep, ReadLengthStep, ReadLength1Step DEF Parse
      <4>5. CASE Handle
        BY <4>5, <2>0, <2>3, <1>4, RefuseLongStep, CacheBodyStep DEF Handle
      <4> QED
        BY <4>1, <4>2, <4>3, <4>4, <4>5 DEF Step
    <3> QED
      BY <3>1, <3>2, <1>1 DEF IInv
  <2> QED
    BY <2>1, <2>2, <2>3
<1> QED
  BY <1>3, <1>4

LEMMA UnchangedIInv ==
  ASSUME IInv, UNCHANGED vars
  PROVE  IInv'
<1>1. BaseInv'
  BY BaseInductive DEF IInv
<1>2. UNCHANGED <<sent, total, got, external, recvPackets_, rd, pc, reader, isCondemn_, handled,
                  faults>>
  BY DEF vars
<1>3. HandledAsSent'
  BY <1>2, HandledKept DEF IInv
<1>4. InStep'
  <2>1. /\ Pos' = Pos /\ FragmentLength' = FragmentLength
        /\ \A k : EndAfter(k)' = EndAfter(k)
    BY <1>2 DEF Pos, FragmentLength, EndAfter, EndOf, reader
  <2>2. UNCHANGED <<fragmentsFlag_, pFragmentsRemainning_, currMsgID_, currMsgLen_, fragment>>
    BY <1>2 DEF reader
  <2>3. AtNone => AtNone'
    BY <1>2, <2>1, <2>2 DEF AtNone
  <2>4. \A i : Reading(i) => Reading(i)'
    BY <1>2, <2>1, <2>2 DEF Reading, AfterId, AfterLength, AtBody, Body, Size, HeaderSize, Long
  <2> QED
    BY <1>2, <2>3, <2>4 DEF IInv, InStep
<1> QED
  BY <1>1, <1>3, <1>4 DEF IInv

LEMMA InitIInv ==
  ASSUME Init
  PROVE  IInv
<1>1. BaseInv
  BY InitBase
<1>2. HandledAsSent
  BY DEF Init, HandledAsSent
<1>3. AtNone
  BY DEF Init, AtNone, FragmentLength, EndAfter, Pos, Running
<1> QED
  BY <1>1, <1>2, <1>3 DEF IInv, InStep

LEMMA NextInductive ==
  ASSUME IInv, [Next]_vars
  PROVE  IInv'
BY SendStep, ReceiveStep, BeginStep, StepInductive, UnchangedIInv DEF Next

\* IInv holds of every behaviour: whatever the messages, their lengths and the
\* places where the stream is cut, the reader is in step with the stream until
\* the first fault.
THEOREM Inductive == Spec => []IInv
<1>1. Init => IInv
  BY InitIInv
<1>2. IInv /\ [Next]_vars => IInv'
  BY NextInductive
<1> QED
  BY <1>1, <1>2, PTL DEF Spec

\* The variables keep their types; the remaining length its 16 bits.
THEOREM TypeCorrect == Spec => []TypeOK
<1>1. IInv => TypeOK
  BY DEF IInv, BaseInv
<1> QED
  BY <1>1, Inductive, PTL

\* What processMessages hands to the handlers is the peer's messages, whole,
\* in order and none left out, however the stream was cut.
THEOREM MessagesAsSent == Spec => []HandledAsSent
<1>1. IInv => HandledAsSent
  BY DEF IInv
<1> QED
  BY <1>1, Inductive, PTL

\* Messages that have arrived have an index up to n if message n + 1 has not.
LEMMA ArrivedBefore ==
  ASSUME TypeOK, Layout, NEW n \in Nat, NEW i \in 1..Len(sent),
         n + 1 \in 1..Len(sent) => got < EndOf(sent[n + 1]),
         EndOf(sent[i]) <= got
  PROVE  i <= n
<1>0. Len(sent) \in Nat /\ got \in Nat
  BY DEF TypeOK
<1>1. CASE n + 1 \in 1..Len(sent)
  <2>1. EndOf(sent[i]) \in Nat /\ EndOf(sent[n + 1]) \in Nat /\ sent[i].at \in Nat
        /\ sent[i].kind \in Kinds /\ EndOf(sent[i]) = sent[i].at + Size(sent[i].kind)
    BY <1>1, SentFacts
  <2>2. sent[i].at <= EndOf(sent[i])
    BY <2>1, SizeFacts
  <2>3. n + 1 < i => EndOf(sent[n + 1]) <= sent[i].at
    BY <1>1 DEF Layout
  <2>4. i # n + 1
    BY <2>1, <1>0, <1>1
  <2> QED
    BY <2>1, <2>2, <2>3, <2>4, <1>0, <1>1
<1>2. CASE ~(n + 1 \in 1..Len(sent))
  BY <1>0, <1>2
<1> QED
  BY <1>1, <1>2

LEMMA Withheld ==
  ASSUME IInv
  PROVE  NothingWithheld
<1> SUFFICES ASSUME pc = "idle", recvPackets_ = <<>>, faults = {}, ~isCondemn_
             PROVE  /\ \A i \in 1..Len(sent) :
                         sent[i].at + Size(sent[i].kind) <= got => i <= Len(handled)
                    /\ FragmentLength > 0 =>
                         LET b == Body(sent[Len(handled) + 1])
                         IN  /\ fragment = [lo |-> b.lo, hi |-> got]
                             /\ pFragmentsRemainning_ = b.hi - got
  BY DEF NothingWithheld
<1> DEFINE n == Len(handled)
           m == sent[n + 1]
           b == Body(m)
<1>0. BaseInv /\ TypeOK /\ Layout /\ n \in Nat /\ got \in Nat /\ Pos = got
      /\ IdSize \in Nat /\ LenSize \in Nat /\ LenSize > 0 /\ pFragmentsRemainning_ \in Nat
      /\ Len(sent) \in Nat /\ total \in Nat /\ got <= total /\ MaxSize \in Nat
  BY PRAssumption DEF IInv, BaseInv, TypeOK, Pos, Running, PacketsInLine
<1>1. /\ n + 1 \in 1..Len(sent) => got < EndOf(m)
      /\ FragmentLength > 0 =>
           /\ fragment = [lo |-> b.lo, hi |-> got]
           /\ pFragmentsRemainning_ = b.hi - got
  <2>1. CASE AtNone
    <3>1. FragmentLength = 0 /\ got = EndAfter(n)
      BY <2>1, <1>0 DEF AtNone
    <3>2. ASSUME n + 1 \in 1..Len(sent)
          PROVE  got < EndOf(m)
      <4>1. m.at = EndAfter(n + 1 - 1) /\ n + 1 - 1 = n
        BY <3>2, <1>0 DEF Layout
      <4>2. m.kind \in Kinds /\ m.at \in Nat /\ EndOf(m) = m.at + Size(m.kind)
        BY <3>2, <1>0, SentFacts
      <4>3. Size(m.kind) > 0 /\ Size(m.kind) \in Nat
        BY <4>2, SizeFacts
      <4> QED
        BY <4>1, <4>2, <4>3, <3>1
    <3> QED
      BY <3>1, <3>2
  <2>2. CASE \E i \in n + 1..Len(sent) : Reading(i)
    <3>1. PICK i \in n + 1..Len(sent) : Reading(i)
      BY <2>2
    <3>2. i = n + 1
      BY <3>1 DEF Reading
    <3>3. /\ n + 1 \in 1..Len(sent) /\ m.kind = currMsgID_ /\ currMsgID_ \in Kinds /\ m.at \in Nat
          /\ b.lo = m.at + HeaderSize(currMsgID_) /\ b.hi = b.lo + currMsgID_.len
          /\ b.lo \in Nat /\ currMsgID_.len \in Nat
      BY <3>1, <3>2, <1>0, ReadingFacts
    <3>4. EndOf(m) = b.hi
      BY <3>3, <1>0, SentFacts
    <3>5. AfterId(m) \/ AtBody(m)
      BY <3>1, <3>2 DEF Reading, AfterLength
    <3>6. CASE AfterId(m)
      <4>1. Pos = m.at + IdSize /\ currMsgID_.variable /\ FragmentLength = 0
        BY <3>6, <3>3 DEF AfterId
      <4>2. HeaderSize(currMsgID_) \in Nat /\ HeaderSize(currMsgID_) >= IdSize + LenSize
        <5>1. CASE currMsgID_.len >= MaxSize
          <6>1. HeaderSize(currMsgID_) = IdSize + LenSize + Len1Size
            BY <5>1, <4>1, <3>3, SizeFacts
          <6> QED
            BY <6>1, PRAssumption
        <5>2. CASE ~(currMsgID_.len >= MaxSize)
          <6>1. HeaderSize(currMsgID_) = IdSize + LenSize
            BY <5>2, <4>1, <3>3, <1>0, SizeFacts, SMTT(30)
          <6> QED
            BY <6>1, PRAssumption
        <5> QED
          BY <5>1, <5>2
      <4> HIDE DEF b, m
      <4> QED
        BY <4>1, <4>2, <3>3, <3>4, <1>0, SMTT(30)
    <3>7. CASE AtBody(m)
      <4>1. CASE FragmentLength = 0
        <5>1. Pos = b.lo /\ currMsgID_.len > 0
          BY <4>1, <3>7, <3>3 DEF AtBody
        <5> HIDE DEF b, m
        <5> QED
          BY <4>1, <5>1, <3>3, <3>4, <1>0
      <4>2. CASE FragmentLength # 0
        <5>1. fragment = [lo |-> b.lo, hi |-> Pos]
              /\ pFragmentsRemainning_ > 0 /\ Pos + pFragmentsRemainning_ = b.hi
          BY <4>2, <3>7 DEF AtBody
        <5> HIDE DEF b, m
        <5>2. b.hi \in Nat /\ pFragmentsRemainning_ = b.hi - got /\ got < b.hi
          BY <5>1, <3>3, <1>0
        <5> QED
          BY <5>1, <5>2, <3>4, <1>0
      <4> QED
        BY <4>1, <4>2
    <3> QED
      BY <3>5, <3>6, <3>7
  <2> QED
    BY <2>1, <2>2 DEF IInv, InStep
<1>2. \A i \in 1..Len(sent) : EndOf(sent[i]) <= got => i <= n
  BY <1>0, <1>1, ArrivedBefore
<1> QED
  BY <1>1, <1>2 DEF EndOf

\* Between two loops of a healthy channel every message that has arrived whole
\* has been handled, and the fragment packet holds the rest.
THEOREM NoneWithheld == Spec => []NothingWithheld
<1>1. IInv => NothingWithheld
  BY Withheld
<1> QED
  BY <1>1, Inductive, PTL

\* Only a condemned channel, or one that met a fault, loses its place.
THEOREM KeepsInStep == Spec => []StaysInStep
<1>1. IInv => StaysInStep
  BY DEF IInv, InStep, AtNone, Reading, AfterId, AfterLength, AtBody, StaysInStep
<1> QED
  BY <1>1, Inductive, PTL

-----------------------------------------------------------------------------
(* processMessages comes to an end: every step leaves less to do.           *)

LEMMA StageFacts == Stage \in 0..9 /\ Stage' \in 0..9
BY DEF Stage

LEMMA Lower ==
  ASSUME NEW p \in Nat, NEW q \in Nat, NEW x \in 0..9, NEW y \in 0..9,
         q < p \/ (q <= p /\ y < x)
  PROVE  10 * p + x \in Nat /\ 10 * q + y \in Nat /\ 10 * q + y < 10 * p + x
OBVIOUS

LEMMA Nearer ==
  ASSUME NEW g \in Nat, NEW r \in Nat, NEW s \in Nat, r <= s, s <= g
  PROVE  g - s \in Nat /\ g - r \in Nat /\ g - s <= g - r /\ (r < s => g - s < g - r)
OBVIOUS

\* A break leaves the packet and what was not read of it.
LEMMA BreakLess ==
  ASSUME BaseInv, pc \in Running, Break
  PROVE  ToDo \in Nat /\ ToDo' \in Nat /\ ToDo' < ToDo
<1> DEFINE l == Len(recvPackets_)
<1>1. l \in Nat /\ Len(recvPackets_') = l - 1 /\ l >= 1
  <2>1. recvPackets_ \in Seq(Interval) /\ recvPackets_ # <<>> /\ l \in Nat /\ 1 \in 1..l
    BY InHand DEF BaseInv, TypeOK
  <2>2. recvPackets_' = Tail(recvPackets_)
    BY DEF Break
  <2> QED
    BY <2>1, <2>2, HeadTailProperties
<1>2. Left \in Nat /\ Left = got - rd
  <2>1. pc # "idle" /\ rd \in Nat /\ got \in Nat /\ rd <= got
    BY InHand DEF Running, BaseInv, TypeOK
  <2> QED
    BY <2>1 DEF Left
<1>3. Left' \in Nat /\ Left' <= Left
  <2>1. /\ pc' \in {"idle", "loop"} /\ got' = got /\ rd' \in Nat
        /\ Pos' = recvPackets_[1].hi
    BY BreakMoves
  <2>2. CASE pc' = "idle"
    BY <2>2, <1>2 DEF Left
  <2>3. CASE pc' = "loop"
    <3>1. rd' = recvPackets_[1].hi
      BY <2>1, <2>3 DEF Pos, Running
    <3>2. rd <= rd' /\ rd' <= got /\ got \in Nat /\ rd \in Nat
      BY <3>1, InHand DEF BaseInv, TypeOK
    <3>3. Left' = got - rd'
      BY <2>1, <2>3 DEF Left
    <3>4. got - rd' \in Nat /\ got - rd' <= got - rd
      BY <3>2, <2>1, Nearer
    <3> QED
      BY <3>3, <3>4, <1>2
  <2> QED
    BY <2>1, <2>2, <2>3
<1>4. ToDo = 10 * (l + Left) + Stage /\ ToDo' = 10 * (l - 1 + Left') + Stage'
  BY <1>1 DEF ToDo
<1>5. l + Left \in Nat /\ l - 1 + Left' \in Nat /\ l - 1 + Left' < l + Left
  <2> DEFINE a == Left
             b == Left'
  <2>1. a \in Nat /\ b \in Nat /\ b <= a
    BY <1>2, <1>3
  <2> HIDE DEF l, a, b
  <2>2. l + a \in Nat /\ l - 1 + b \in Nat /\ l - 1 + b < l + a
    BY <1>1, <2>1
  <2> QED
    BY <2>2 DEF a, b
<1> QED
  BY <1>4, <1>5, StageFacts, Lower

\* A step that stays in the packet reads on in it, or takes the message in
\* hand a stage further.
LEMMA StaysLess ==
  ASSUME BaseInv, pc \in Running, Stays, pc' # "idle", rd' \in Nat, rd <= rd',
         rd' <= recvPackets_[1].hi, rd < rd' \/ Stage' < Stage
  PROVE  ToDo \in Nat /\ ToDo' \in Nat /\ ToDo' < ToDo
<1> DEFINE l == Len(recvPackets_)
<1>1. l \in Nat /\ rd \in Nat /\ got \in Nat /\ rd' <= got
  BY InHand DEF BaseInv, TypeOK
<1>2. Left = got - rd /\ Left' = got - rd'
  BY DEF Left, Stays, Running
<1>3. ToDo = 10 * (l + Left) + Stage /\ ToDo' = 10 * (l + Left') + Stage'
  BY DEF ToDo, Stays
<1>4. /\ l + Left \in Nat /\ l + Left' \in Nat /\ l + Left' <= l + Left
      /\ rd < rd' => l + Left' < l + Left
  <2> DEFINE a == Left
             b == Left'
  <2>1. a \in Nat /\ b \in Nat /\ b <= a /\ (rd < rd' => b < a)
    BY <1>1, <1>2, Nearer
  <2> HIDE DEF l, a, b
  <2>2. l + a \in Nat /\ l + b \in Nat /\ l + b <= l + a /\ (b < a => l + b < l + a)
    BY <1>1, <2>1
  <2> QED
    BY <2>1, <2>2 DEF a, b
<1> QED
  BY <1>3, <1>4, StageFacts, Lower

LEMMA ReadsLess ==
  ASSUME BaseInv, pc \in Running, NEW size \in Nat \ {0}, NEW here,
         NEW next \in {"find", "length1", "body"}, Reads(size, here, next)
  PROVE  ToDo \in Nat /\ ToDo' \in Nat /\ ToDo' < ToDo
<1>1. rd' = rd + size /\ opsize >= size /\ Stays /\ pc' # "idle"
  BY DEF Reads
<1>2. rd' \in Nat /\ rd < rd' /\ rd <= rd' /\ rd' <= recvPackets_[1].hi
  BY <1>1, InHand
<1> QED
  BY <1>1, <1>2, StaysLess

\* Every step of the loop.
LEMMA StepLess ==
  ASSUME BaseInv, Step
  PROVE  ToDo \in Nat /\ ToDo' \in Nat /\ ToDo' < ToDo
<1>0. pc \in Running
  BY DEF Step, PacketDone, Merge, MergeBody, MergeBodyPart, MergeNothing, MergeHeader, Merges,
         Parse, CacheId, ReadId, FindFails, FindMessage, CacheLength, ReadLength,
         CacheLength1, ReadLength1, Handle, RefuseLong, CacheBody, HandleInPlace,
         HandleFragment, AtFind, AtLoop, Running
<1>1. CASE Break
  BY <1>0, <1>1, BreakLess
<1>r. /\ rd \in Nat /\ rd <= recvPackets_[1].hi /\ recvPackets_[1].hi \in Nat
      /\ opsize \in Nat /\ rd + opsize = recvPackets_[1].hi
      /\ pFragmentsRemainning_ \in Nat /\ currMsgLen_ \in Nat
  <2>1. /\ rd \in Nat /\ rd <= recvPackets_[1].hi /\ recvPackets_[1].hi \in Nat
        /\ opsize \in Nat /\ rd + opsize = recvPackets_[1].hi
    BY <1>0, InHand
  <2>2. pFragmentsRemainning_ \in 0..MaxSize /\ currMsgLen_ \in Nat
    BY DEF BaseInv, TypeOK
  <2>3. pFragmentsRemainning_ \in Nat
    BY <2>2, PRAssumption
  <2> QED
    BY <2>1, <2>2, <2>3
<1>2. CASE MergeBody
  <2>1. /\ rd' = rd + pFragmentsRemainning_ /\ opsize >= pFragmentsRemainning_ /\ Stays
        /\ pc = "loop" /\ pc' = "loop" /\ currMsgID_' = currMsgID_
        /\ fragmentsFlag_ = "BODY" /\ fragmentsFlag_' = "UNKNOW"
    BY <1>2 DEF MergeBody, Merges
  <2>2. Stage' < Stage
    BY <2>1 DEF Stage
  <2>3. rd' \in Nat /\ rd <= rd' /\ rd' <= recvPackets_[1].hi
    BY <2>1, <1>r
  <2> QED
    BY <2>1, <2>2, <2>3, <1>0, StaysLess
<1>3. CASE MergeNothing
  <2>1. /\ rd' = rd /\ Stays /\ pc = "loop" /\ pc' = "loop" /\ currMsgID_' = currMsgID_
        /\ fragmentsFlag_ # "UNKNOW" /\ fragmentsFlag_' = "UNKNOW"
    BY <1>3 DEF MergeNothing, Merges
  <2>2. Stage' < Stage
    BY <2>1 DEF Stage
  <2> QED
    BY <2>1, <2>2, <1>0, <1>r, StaysLess
<1>4. CASE MergeHeader
  <2>1. rd' = rd /\ Stays /\ pc = "loop" /\ pc' = "wild" /\ fragmentsFlag_ # "UNKNOW"
    BY <1>4 DEF MergeHeader, Merges
  <2>2. Stage' < Stage
    BY <2>1 DEF Stage
  <2> QED
    BY <2>1, <2>2, <1>0, <1>r, StaysLess
<1>5. CASE ReadId \/ ReadLength \/ ReadLength1
  BY <1>5, <1>0, ReadsLess, PRAssumption DEF ReadId, ReadLength, ReadLength1
<1>6. CASE FindMessage
  <2>1. /\ rd' = rd /\ Stays /\ pc' \in {"body", "length"} /\ fragmentsFlag_' = fragmentsFlag_
        /\ pc = "find" \/ (pc = "loop" /\ currMsgID_ # NoKind)
    BY <1>6 DEF FindMessage, AtFind, AtLoop
  <2>2. Stage' < Stage
    BY <2>1 DEF Stage
  <2> QED
    BY <2>1, <2>2, <1>0, <1>r, StaysLess
<1>7. CASE HandleInPlace
  <2>1. /\ rd' = rd + currMsgLen_ /\ opsize >= currMsgLen_ /\ Stays
        /\ pc = "body" /\ pc' = "loop" /\ currMsgID_' = NoKind
        /\ fragmentsFlag_' = fragmentsFlag_
    BY <1>7 DEF HandleInPlace
  <2>2. Stage' < Stage
    BY <2>1 DEF Stage
  <2>3. rd' \in Nat /\ rd <= rd' /\ rd' <= recvPackets_[1].hi
    BY <2>1, <1>r
  <2> QED
    BY <2>1, <2>2, <2>3, <1>0, StaysLess
<1>8. CASE HandleFragment
  <2>1. /\ rd' = rd /\ Stays /\ pc = "body" /\ pc' = "loop" /\ currMsgID_' = NoKind
        /\ fragmentsFlag_' = fragmentsFlag_
    BY <1>8 DEF HandleFragment
  <2>2. Stage' < Stage
    BY <2>1 DEF Stage
  <2> QED
    BY <2>1, <2>2, <1>0, <1>r, StaysLess
<1>9. \/ Break \/ MergeBody \/ MergeNothing \/ MergeHeader \/ ReadId \/ ReadLength
      \/ ReadLength1 \/ FindMessage \/ HandleInPlace \/ HandleFragment
  BY DEF Step, PacketDone, Merge, MergeBodyPart, Parse, CacheId, FindFails, CacheLength,
         CacheLength1, Caches, Handle, RefuseLong, CacheBody
<1> QED
  BY <1>1, <1>2, <1>3, <1>4, <1>5, <1>6, <1>7, <1>8, <1>9

\* processMessages takes boundedly many steps, for any messages, packets and
\* cuts: while it runs every step of the system is one of its own, and each
\* leaves less to do.
THEOREM LoopEnds == Spec => LoopProgress
<1>1. IInv /\ [Next]_vars => [DoesSome]_vars
  <2> SUFFICES ASSUME IInv, Next, pc \in Running
               PROVE  ToDo \in Nat /\ ToDo' \in Nat /\ ToDo' < ToDo
    BY DEF DoesSome
  <2>1. BaseInv /\ pc # "idle" /\ got # 0
    BY DEF IInv, BaseInv, ReaderInPacket, Running
  <2>2. Step
    BY <2>1 DEF Next, Send, Sends, Receive, Begin
  <2> QED
    BY <2>1, <2>2, StepLess
<1> QED
  BY <1>1, Inductive, PTL DEF Spec, LoopProgress

-----------------------------------------------------------------------------
(* The reader implements MessageStream.                                     *)

Healthy == faults = {} /\ ~isCondemn_

\* A stream that is down stays down.
LEMMA DownStaysDown ==
  ASSUME [Next]_vars, Healthy'
  PROVE  Healthy
<1>1. CASE UNCHANGED vars
  BY <1>1 DEF vars, Healthy
<1>2. ASSUME NEW k \in Kinds, Send(k)
      PROVE  Healthy
  BY <1>2 DEF Send, Sends, Healthy
<1>3. ASSUME NEW n \in 1..total, Receive(n)
      PROVE  Healthy
  BY <1>3 DEF Receive, Healthy
<1>4. CASE Begin
  BY <1>4 DEF Begin, Healthy
<1>5. CASE Step
  <2>1. faults \subseteq faults' /\ (isCondemn_' = isCondemn_ \/ isCondemn_' = TRUE)
    BY <1>5 DEF Step, PacketDone, Merge, MergeBody, MergeBodyPart, MergeNothing, MergeHeader,
         Parse, CacheId, ReadId, FindFails, FindMessage, CacheLength, ReadLength,
         CacheLength1, ReadLength1, Handle, RefuseLong, CacheBody, HandleInPlace,
         HandleFragment, Caches, Reads
  <2> QED
    BY <2>1 DEF Healthy
<1> QED
  BY <1>1, <1>2, <1>3, <1>4, <1>5 DEF Next

\* A step sends a message, has one handled, or leaves both ends alone.
LEMMA StreamEnds ==
  ASSUME BaseInv, [Next]_vars
  PROVE  \/ UNCHANGED <<sent, handled>>
         \/ /\ UNCHANGED handled
            /\ \E k \in Kinds : sent' = Append(sent, [kind |-> k, at |-> total])
         \/ /\ UNCHANGED sent
            /\ \E b : handled' = Append(handled, b)
<1>1. CASE UNCHANGED vars
  BY <1>1 DEF vars
<1>2. ASSUME NEW k \in Kinds, Send(k)
      PROVE  UNCHANGED handled /\ sent' = Append(sent, [kind |-> k, at |-> total])
  BY <1>2 DEF Send, Sends
<1>3. ASSUME NEW n \in 1..total, Receive(n)
      PROVE  UNCHANGED <<sent, handled>>
  BY <1>3 DEF Receive
<1>4. CASE Begin
  BY <1>4 DEF Begin
<1>5. CASE HandleInPlace \/ HandleFragment
  <2>1. UNCHANGED sent
    BY <1>5 DEF HandleInPlace, HandleFragment, Stays
  <2>2. \E b : handled' = Append(handled, b)
    BY <1>5 DEF HandleInPlace, HandleFragment
  <2> QED
    BY <2>1, <2>2
<1>6. CASE Step /\ ~(HandleInPlace \/ HandleFragment)
  BY <1>6 DEF Step, PacketDone, Merge, MergeBody, MergeBodyPart, MergeNothing, MergeHeader,
         Parse, CacheId, ReadId, FindFails, FindMessage, CacheLength, ReadLength,
         CacheLength1, ReadLength1, Handle, RefuseLong, CacheBody, Caches, Reads, Break, Stays
<1> QED
  BY <1>1, <1>2, <1>3, <1>4, <1>5, <1>6 DEF Next

\* One more message was sent.
LEMMA BodiesGrow ==
  ASSUME TypeOK, NEW k \in Kinds, sent' = Append(sent, [kind |-> k, at |-> total])
  PROVE  Delivery!Extends(Bodies', Bodies)
<1> DEFINE n == Len(sent)
           m == [kind |-> k, at |-> total]
           M == [kind : Kinds, at : Nat]
<1>1. sent \in Seq(M) /\ m \in M /\ n \in Nat
  BY DEF TypeOK
<1> HIDE DEF m, M
<1>2. Len(sent') = n + 1 /\ \A i \in 1..n : sent'[i] = sent[i]
  BY <1>1 DEF m
<1>3. Len(Bodies) = n
  BY <1>1 DEF Bodies
<1>4. Bodies' = [i \in 1..n + 1 |-> Body(sent'[i])]
  BY <1>2 DEF Bodies, Body, Size, HeaderSize, Long
<1>5. Len(Bodies') = n + 1
  BY <1>1, <1>4
<1>6. ASSUME NEW i \in 1..n
      PROVE  Bodies'[i] = Bodies[i]
  BY <1>1, <1>2, <1>4 DEF Bodies
<1> QED
  BY <1>3, <1>5, <1>6 DEF Delivery!Extends

\* The message handled last is the next one of the peer's.
LEMMA NextHandled ==
  ASSUME TypeOK, TypeOK', HandledAsSent', Healthy', UNCHANGED sent,
         NEW b, handled' = Append(handled, b)
  PROVE  /\ Len(handled) < Len(Bodies)
         /\ handled' = Append(handled, Bodies[Len(handled) + 1])
<1> DEFINE n == Len(handled)
           B == [kind : Kinds, lo : Nat, hi : Nat]
<1>1. handled \in Seq(B) /\ handled' \in Seq(B) /\ n \in Nat /\ Len(sent) \in Nat
  BY DEF TypeOK
<1> HIDE DEF B
<1>2. Len(handled') = n + 1 /\ handled'[n + 1] = b
  BY <1>1
<1>3. n + 1 \in 1..Len(handled')
  BY <1>1, <1>2
<1>4. PICK i \in n + 1..Len(sent') : handled'[n + 1] = Body(sent[i]) /\ i = n + 1
  BY <1>3 DEF HandledAsSent, Healthy, Body, Size, HeaderSize, Long
<1>5. n + 1 \in 1..Len(sent) /\ b = Body(sent[n + 1])
  BY <1>1, <1>2, <1>4
<1>6. Len(Bodies) = Len(sent) /\ Bodies[n + 1] = Body(sent[n + 1])
  BY <1>1, <1>5 DEF Bodies
<1> QED
  BY <1>1, <1>5, <1>6

LEMMA DeliveryStep ==
  ASSUME IInv, IInv', [Next]_vars
  PROVE  [Delivery!Next]_(Delivery!vars)
<1>0. BaseInv /\ TypeOK /\ TypeOK' /\ HandledAsSent'
  BY DEF IInv, BaseInv
<1>1. CASE ~Healthy
  <2>1. ~Healthy'
    BY <1>1, DownStaysDown
  <2> QED
    BY <1>1, <2>1 DEF Healthy, Delivery!Next, Delivery!Down
<1>2. CASE Healthy /\ ~Healthy'
  BY <1>2 DEF Healthy, Delivery!Next, Delivery!GoDown
<1>3. CASE Healthy /\ Healthy'
  <2>1. CASE UNCHANGED <<sent, handled>>
    <3>1. Bodies' = Bodies
      BY <2>1 DEF Bodies, Body, Size, HeaderSize, Long
    <3>2. (faults = {} /\ ~isCondemn_)' = (faults = {} /\ ~isCondemn_)
      BY <1>3 DEF Healthy
    <3> QED
      BY <2>1, <3>1, <3>2 DEF Delivery!vars
  <2>2. ASSUME NEW k \in Kinds, sent' = Append(sent, [kind |-> k, at |-> total]), UNCHANGED handled
        PROVE  Delivery!Send
    BY <2>2, <1>0, <1>3, BodiesGrow DEF Healthy, Delivery!Send
  <2>3. ASSUME NEW b, handled' = Append(handled, b), UNCHANGED sent
        PROVE  Delivery!Handle
    <3>1. Bodies' = Bodies
      BY <2>3 DEF Bodies, Body, Size, HeaderSize, Long
    <3> QED
      BY <2>3, <3>1, <1>0, <1>3, NextHandled DEF Healthy, Delivery!Handle
  <2> QED
    BY <2>1, <2>2, <2>3, <1>0, StreamEnds DEF Delivery!Next
<1> QED
  BY <1>1, <1>2, <1>3

\* For any messages and cuts, the handlers are given the peer's messages in
\* order, each once and whole, until the channel is condemned or meets one of
\* the cases the reader does not master.
THEOREM DeliversMessages == Spec => ImplementsMessageStream
<1>1. Init => Delivery!Init
  BY DEF Init, Delivery!Init, Bodies
<1>2. IInv /\ IInv' /\ [Next]_vars => [Delivery!Next]_(Delivery!vars)
  BY DeliveryStep
<1> QED
  BY <1>1, <1>2, Inductive, PTL DEF Spec, ImplementsMessageStream, Delivery!Spec

-----------------------------------------------------------------------------

\* The peer of the reader sends a framed stream: the one Bundle writes.
THEOREM ReadsFramedStream == Spec => StreamSpec
<1>1. Init => StreamInit
  BY DEF Init, StreamInit
<1>2. [Next]_vars => [\E k \in Kinds : Sends(k)]_<<sent, total>>
  <2> SUFFICES ASSUME [Next]_vars
               PROVE  (\E k \in Kinds : Sends(k)) \/ UNCHANGED <<sent, total>>
    OBVIOUS
  <2>1. CASE \E k \in Kinds : Send(k)
    BY <2>1 DEF Send
  <2>2. CASE UNCHANGED vars \/ Begin \/ \E n \in 1..total : Receive(n)
    BY <2>2 DEF vars, Begin, Receive
  <2>3. CASE Step
    BY <2>3 DEF Step, PacketDone, Merge, MergeBody, MergeBodyPart, MergeNothing, MergeHeader,
         Parse, CacheId, ReadId, FindFails, FindMessage, CacheLength, ReadLength,
         CacheLength1, ReadLength1, Handle, RefuseLong, CacheBody, HandleInPlace,
         HandleFragment, Caches, Reads, Break, Stays
  <2> QED
    BY <2>1, <2>2, <2>3 DEF Next
<1> QED
  BY <1>1, <1>2, PTL DEF Spec, StreamSpec
=============================================================================
