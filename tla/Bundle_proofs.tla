---------------------------- MODULE Bundle_proofs ----------------------------
(***************************************************************************)
(* A message whose header fits is framed as written, for every packet size, *)
(* limit and bound.  The argument: opening a packet adds one to the packets *)
(* and one to the message's count, so the number of packets before the      *)
(* message, Len(used) - count, never changes while it is written.           *)
(***************************************************************************)
EXTENDS BundleStream, TLAPS

\* A writer that has a current packet.
Ready(w) == w \in Writer /\ w.used # <<>>

\* Packets that do not belong to the message.
Before(w) == Len(w.used) - w.count

\* An element of a sequence of numbers, and a difference of equal sums.
LEMMA SeqAt ==
  ASSUME NEW s \in Seq(Nat), NEW i \in 1..Len(s)
  PROVE  s[i] \in Nat
OBVIOUS

LEMMA SumMoves ==
  ASSUME NEW a \in Nat, NEW b \in Nat, NEW e, NEW n \in Nat, e = a + b
  PROVE  a + (b + n) = e + n
OBVIOUS

\* The fields of a writer.
LEMMA Fields ==
  ASSUME NEW w, Ready(w)
  PROVE  /\ w.used \in Seq(Nat) /\ Len(w.used) \in Nat /\ Len(w.used) >= 1
         /\ w.count \in Nat /\ w.length \in Nat
         /\ Fill(w) \in Nat
<1>1. w.used \in Seq(Nat) /\ w.count \in Nat /\ w.length \in Nat
  BY DEF Ready, Writer
<1>2. Len(w.used) \in Nat /\ Len(w.used) >= 1
  BY <1>1 DEF Ready
<1> QED
  BY <1>1, <1>2 DEF Fill

\* Open leaves a current packet with room and the packets before the message
\* as they were; a packet with room is kept.
LEMMA OpenReady ==
  ASSUME NEW w, Ready(w)
  PROVE  /\ Ready(Open(w))
         /\ Fill(Open(w)) < PacketSize
         /\ Before(Open(w)) = Before(w)
         /\ Open(w).length = w.length
         /\ Fill(w) < PacketSize => Open(w) = w
<1>1. PacketSize \in Nat /\ PacketSize >= 4
  BY BUAssumption
<1>2. CASE Full(w)
  <2>1. Open(w) = [used |-> Append(w.used, 0), count |-> w.count + 1,
                   length |-> w.length]
    BY <1>2 DEF Open
  <2>2. Append(w.used, 0) \in Seq(Nat) /\ Len(Append(w.used, 0)) = Len(w.used) + 1
        /\ Append(w.used, 0)[Len(w.used) + 1] = 0
    BY Fields
  <2>3. Ready(Open(w))
    BY <2>1, <2>2, Fields, SMTT(30) DEF Ready, Writer
  <2>4. Fill(Open(w)) = 0
    BY <2>1, <2>2 DEF Fill
  <2>5. Before(Open(w)) = Before(w)
    <3>1. Len(w.used) \in Nat /\ w.count \in Nat
      BY Fields
    <3>2. Len(Open(w).used) = Len(w.used) + 1 /\ Open(w).count = w.count + 1
      BY <2>1, <2>2
    <3> QED
      BY <3>1, <3>2, SMTT(30) DEF Before
  <2>6. Open(w).length = w.length
    BY <2>1
  <2>7. 0 < PacketSize
    BY <1>1
  <2>8. ~(Fill(w) < PacketSize)
    <3>1. Fill(w) \in Nat /\ Fill(w) >= PacketSize
      BY <1>2, Fields DEF Full
    <3> QED
      BY <1>1, <3>1
  <2> QED
    BY <2>3, <2>4, <2>5, <2>6, <2>7, <2>8
<1>3. CASE ~Full(w)
  BY <1>1, <1>3, Fields DEF Open, Full
<1> QED
  BY <1>2, <1>3

\* The room of a packet that is not full.
LEMMA RoomBounds ==
  ASSUME NEW w, Ready(w), Fill(w) < PacketSize, NEW n \in Nat
  PROVE  /\ Room(w, n) \in 0..n
         /\ Fill(w) + n <= PacketSize => Room(w, n) = n
BY Fields, BUAssumption DEF Room

\* Put keeps the packets and counts.
LEMMA PutReady ==
  ASSUME NEW w, Ready(w), NEW n \in Nat, NEW m \in Nat
  PROVE  /\ Ready(Put(w, n, m))
         /\ Len(Put(w, n, m).used) = Len(w.used)
         /\ Put(w, n, m).count = w.count
         /\ Put(w, n, m).length = w.length + m
         /\ Fill(Put(w, n, m)) = Fill(w) + n
<1> DEFINE u == [w.used EXCEPT ![Len(w.used)] = @ + n]
<1>1. u \in Seq(Nat) /\ Len(u) = Len(w.used) /\ u[Len(w.used)] = w.used[Len(w.used)] + n
  BY Fields
<1>2. Put(w, n, m) = [used |-> u, count |-> w.count, length |-> w.length + m]
  BY DEF Put
<1> HIDE DEF u
<1> QED
  BY <1>1, <1>2, Fields, SMTT(30) DEF Ready, Writer, Fill

\* Writing an id.
LEMMA ShortReady ==
  ASSUME NEW w, Ready(w)
  PROVE  /\ Ready(Short(w))
         /\ Before(Short(w)) = Before(w)
         /\ Fits(w, 2) => Short(w) = Put(w, 2, 2)
<1> DEFINE o == Open(w)
           n == Room(o, 2)
           p == Put(o, n, n)
<1>1. Ready(o) /\ Fill(o) < PacketSize /\ Before(o) = Before(w)
  BY OpenReady
<1>2. n \in 0..2
  BY <1>1, RoomBounds
<1>3. n \in Nat /\ 2 - n \in Nat
  BY <1>2
<1>4. Ready(p) /\ Before(p) = Before(o)
  BY <1>1, <1>3, PutReady DEF Before
<1>5. Ready(Open(p)) /\ Before(Open(p)) = Before(p)
  BY <1>4, OpenReady
<1>6. Ready(Put(Open(p), 2 - n, 2 - n))
      /\ Before(Put(Open(p), 2 - n, 2 - n)) = Before(p)
  BY <1>3, <1>5, PutReady DEF Before
<1>7. Short(w) = IF n = 2 THEN p ELSE Put(Open(p), 2 - n, 2 - n)
  BY DEF Short
<1>8. ASSUME Fits(w, 2) PROVE Short(w) = Put(w, 2, 2)
  <2>1. Fill(w) \in Nat /\ PacketSize \in Nat /\ Fill(w) + 2 <= PacketSize
    BY <1>8, Fields, BUAssumption DEF Fits
  <2>2. o = w
    BY <2>1, OpenReady
  <2>3. n = 2
    BY <1>1, <2>1, <2>2, RoomBounds
  <2> QED
    BY <1>7, <2>2, <2>3
<1> HIDE DEF o, n, p
<1> QED
  BY <1>1, <1>4, <1>6, <1>7, <1>8

\* Writing the placeholder.
LEMMA PlaceholderReady ==
  ASSUME NEW w, Ready(w)
  PROVE  /\ Ready(Placeholder(w))
         /\ Fill(Placeholder(w)) - 2 \in Nat
         /\ Fits(w, 2) => Placeholder(w) = Put(w, 2, 2)
<1> DEFINE o == Open(w)
           n == Room(o, 2)
<1>1. Ready(o) /\ Fill(o) < PacketSize
  BY OpenReady
<1>2. n \in Nat
  BY <1>1, RoomBounds
<1>3. Placeholder(w) = Put(o, 2, n)
  BY DEF Placeholder
<1>4. Ready(Put(o, 2, n)) /\ Fill(Put(o, 2, n)) = Fill(o) + 2
  BY <1>1, <1>2, PutReady
<1>5. Fill(o) \in Nat
  BY <1>1, Fields
<1>6. ASSUME Fits(w, 2) PROVE Placeholder(w) = Put(w, 2, 2)
  <2>1. Fill(w) \in Nat /\ PacketSize \in Nat /\ Fill(w) + 2 <= PacketSize
    BY <1>6, Fields, BUAssumption DEF Fits
  <2>2. o = w
    BY <2>1, OpenReady
  <2>3. n = 2
    BY <1>1, <2>1, <2>2, RoomBounds
  <2> QED
    BY <1>3, <2>2, <2>3
<1> HIDE DEF o, n
<1> QED
  BY <1>3, <1>4, <1>5, <1>6

\* The length of a message within the bound is not wrapped.
LEMMA PayloadExact ==
  ASSUME NEW b \in 0..MaxBody
  PROVE  ((b + 4) - 4) % Wrap = b
BY BUAssumption

\* The payload is a natural number.
LEMMA PayloadNat ==
  ASSUME NEW l \in Nat
  PROVE  (l - 4) % Wrap \in Nat
BY BUAssumption

\* The writer a message starts with.
LEMMA NewReady ==
  ASSUME TypeOK
  PROVE  Ready(NewWriter) /\ NewWriter.count = 0 /\ NewWriter.length = 0
<1>1. Packets \in Seq(Nat) /\ Packets # <<>>
  BY DEF Packets, TypeOK
<1> QED
  BY <1>1 DEF NewWriter, Ready, Writer

\* The initial state.
LEMMA InitIInv == Init => IInv
<1> SUFFICES ASSUME Init PROVE IInv
  OBVIOUS
<1>1. 0 \in 0..MaxBody
  BY BUAssumption
<1>2. TypeOK
  <2>1. NoFrame \in [len : Nat, body : 0..MaxBody, inPlace : BOOLEAN, clean : BOOLEAN]
    BY <1>1 DEF NoFrame
  <2>2. used \in Seq(Nat)
    BY DEF Init
  <2> QED
    BY <1>1, <2>1, <2>2 DEF Init, TypeOK
<1>3. FramedAsWritten
  BY DEF Init, FramedAsWritten, NoFrame
<1> QED
  BY <1>2, <1>3 DEF Init, IInv, CleanNeverAborts, CountersAgree

-----------------------------------------------------------------------------
(* The steps.                                                               *)

\* What a start writes.
LEMMA StartTypes ==
  ASSUME TypeOK, NEW w, Ready(w), Writes(w, 1), NEW v \in BOOLEAN,
         phase' = "open", variable' = v, clean' \in BOOLEAN, body' = 0,
         currMsgLengthPos_' \in [packet : Nat, offset : Nat], frame' = frame
  PROVE  TypeOK' /\ used' # <<>>
<1>1. w.used \in Seq(Nat) /\ w.used # <<>> /\ w.count + 1 \in Nat /\ w.length \in Nat
  BY Fields DEF Ready
<1> QED
  BY <1>1, BUAssumption DEF TypeOK, Writes

\* StartFixed keeps the invariant.
LEMMA StartFixedKeeps == IInv /\ StartFixed => IInv'
<1> SUFFICES ASSUME IInv, StartFixed PROVE IInv'
  OBVIOUS
<1>1. TypeOK
  BY DEF IInv
<1>2. Ready(Short(NewWriter))
  BY <1>1, NewReady, ShortReady
<1>3. Fits(NewWriter, 2) \in BOOLEAN
  BY DEF Fits
<1>4. TypeOK' /\ used' # <<>>
  BY <1>1, <1>2, <1>3, StartTypes DEF StartFixed, TypeOK
<1>5. phase' = "open" /\ variable' = FALSE /\ frame' = frame
  BY DEF StartFixed
<1> QED
  BY <1>4, <1>5 DEF IInv, FramedAsWritten, CleanNeverAborts, CountersAgree

\* StartVariable keeps the invariant: a header that fits lies in one packet,
\* the last, and is counted whole.
LEMMA StartVariableKeeps == IInv /\ StartVariable => IInv'
<1> SUFFICES ASSUME IInv, StartVariable PROVE IInv'
  OBVIOUS
<1> DEFINE w == NewWriter
           i == Short(w)
           p == Placeholder(i)
<1>1. TypeOK
  BY DEF IInv
<1>2. Ready(w) /\ w.count = 0 /\ w.length = 0
  BY <1>1, NewReady
<1>3. Ready(i)
  BY <1>2, ShortReady
<1>4. Ready(p) /\ Fill(p) - 2 \in Nat
  BY <1>3, PlaceholderReady
<1>5. /\ phase' = "open" /\ variable' = TRUE /\ frame' = frame /\ body' = 0
      /\ clean' = Fits(w, 4)
      /\ Writes(p, 1)
      /\ currMsgLengthPos_' = [packet |-> Len(p.used), offset |-> Fill(p) - 2]
  BY DEF StartVariable
<1>6. Fits(w, 4) \in BOOLEAN /\ Len(p.used) \in Nat
  BY <1>4, Fields DEF Fits
<1>7. TypeOK' /\ used' # <<>>
  BY <1>1, <1>4, <1>5, <1>6, StartTypes
<1>8. ASSUME Fits(w, 4)
      PROVE  currMsgLength_' = 4 /\ Replaces'
  <2>1. Fill(w) \in Nat /\ PacketSize \in Nat /\ Fill(w) + 4 <= PacketSize
    BY <1>2, <1>8, Fields, BUAssumption DEF Fits
  <2>2. i = Put(w, 2, 2)
    BY <1>2, <2>1, ShortReady DEF Fits
  <2>3. Fill(i) = Fill(w) + 2 /\ i.length = 2 /\ i.count = 0
    BY <1>2, <2>2, PutReady
  <2>4. p = Put(i, 2, 2)
    BY <1>3, <2>1, <2>3, PlaceholderReady DEF Fits
  <2>5. p.length = 4 /\ p.count = 0
    BY <1>3, <2>3, <2>4, PutReady
  <2>6. Len(p.used) = Len(p.used) - (0 + 1) + 1
    BY <1>6
  <2> HIDE DEF w, i, p
  <2> QED
    BY <1>5, <2>5, <2>6 DEF Writes, Replaces, First
<1> HIDE DEF w, i, p
<1> QED
  BY <1>1, <1>5, <1>7, <1>8
     DEF IInv, FramedAsWritten, CleanNeverAborts, CountersAgree

\* Write keeps the invariant: the packets before the message stay the same and
\* every byte written is counted.
LEMMA WriteKeeps ==
  ASSUME IInv, NEW n \in 1..MaxBody, Write(n)
  PROVE  IInv'
<1> DEFINE w == [used |-> used, count |-> currMsgPacketCount_,
                 length |-> currMsgLength_]
           o == Open(w)
           m == Room(o, n)
           q == Put(o, m, m)
<1>1. TypeOK /\ phase = "open" /\ used # <<>>
  BY DEF IInv, CountersAgree, Write
<1>2. Ready(w)
  BY <1>1 DEF Ready, Writer, TypeOK
<1>3. Ready(o) /\ Fill(o) < PacketSize /\ Before(o) = Before(w) /\ o.length = w.length
  BY <1>2, OpenReady
<1>4. m \in 0..n /\ m \in Nat
  BY <1>3, RoomBounds
<1>5. Ready(q) /\ Before(q) = Before(w) /\ q.length = w.length + m
  BY <1>3, <1>4, PutReady DEF Before
<1>6. /\ used' = q.used /\ currMsgPacketCount_' = q.count + 0
      /\ currMsgLength_' = q.length
      /\ body' = body + m /\ body + n <= MaxBody
      /\ UNCHANGED <<phase, variable, currMsgLengthPos_, clean, frame>>
  BY DEF Write, Writes
<1>7. q.used \in Seq(Nat) /\ q.used # <<>> /\ q.count \in Nat /\ q.length \in Nat
      /\ Len(q.used) \in Nat
  BY <1>5, Fields DEF Ready
<1>8. w.used = used /\ w.count = currMsgPacketCount_ /\ w.length = currMsgLength_
  OBVIOUS
<1> HIDE DEF w, o, m, q
<1>9. body' \in 0..MaxBody
  BY <1>1, <1>4, <1>6, BUAssumption DEF TypeOK
<1>10. TypeOK'
  <2>1. used' \in Seq(Nat) /\ currMsgPacketCount_' \in Nat /\ currMsgLength_' \in Nat
    BY <1>6, <1>7
  <2> QED
    BY <1>1, <1>6, <1>9, <2>1 DEF TypeOK
<1>11. First' = First
  <2>1. Len(q.used) - q.count = Len(used) - currMsgPacketCount_
    BY <1>5, <1>8 DEF Before
  <2>2. Len(used) \in Nat /\ currMsgPacketCount_ \in Nat
    BY <1>1 DEF TypeOK
  <2> QED
    BY <1>6, <1>7, <2>1, <2>2 DEF First
<1>12. currMsgLength_ = body + 4 => currMsgLength_' = body' + 4
  BY <1>1, <1>4, <1>5, <1>6, <1>8 DEF TypeOK
<1> QED
  BY <1>1, <1>6, <1>7, <1>10, <1>11, <1>12
     DEF IInv, FramedAsWritten, CleanNeverAborts, CountersAgree, Replaces

\* The end of a message keeps the invariant.
LEMMA EndKeeps ==
  ASSUME IInv, EndFixed \/ EndShort \/ EndLong \/ EndAborts
  PROVE  IInv'
<1>1. TypeOK
  BY DEF IInv
<1>2. CASE EndFixed
  <2>1. TypeOK'
    BY <1>1, <1>2, BUAssumption DEF EndFixed, Ends, TypeOK
  <2> QED
    BY <1>2, <2>1 DEF IInv, EndFixed, Ends, FramedAsWritten, CleanNeverAborts,
                      CountersAgree
<1>3. ASSUME variable, phase = "open", clean
      PROVE  Payload = body
  <2>1. currMsgLength_ = body + 4 /\ body \in 0..MaxBody
    BY <1>1, <1>3 DEF IInv, CountersAgree, TypeOK
  <2> QED
    BY <2>1, PayloadExact DEF Payload
<1>4. Payload \in Nat
  BY <1>1, PayloadNat DEF Payload, TypeOK
<1>5. CASE EndShort
  <2>1. frame' = [len |-> Payload, body |-> body, inPlace |-> TRUE, clean |-> clean]
        /\ used' = used /\ Ends /\ variable
    BY <1>5 DEF EndShort
  <2>2. TypeOK'
    BY <1>1, <1>4, <2>1, BUAssumption DEF Ends, TypeOK
  <2>3. FramedAsWritten'
    BY <1>3, <2>1 DEF FramedAsWritten, Ends
  <2> QED
    BY <2>1, <2>2, <2>3 DEF IInv, Ends, CleanNeverAborts, CountersAgree
<1>6. CASE EndLong
  <2>1. /\ frame' = [len |-> Payload, body |-> body,
                     inPlace |-> ExtendedAt = currMsgLengthPos_.offset + 2,
                     clean |-> clean /\ currMsgLengthPos_.offset = 2]
        /\ used' = [i \in 1..Len(used) |->
                      IF i = First THEN used[i] + Len1Size ELSE used[i]]
        /\ Ends /\ variable
    BY <1>6 DEF EndLong
  <2>2. used' \in Seq(Nat)
    <3>1. used \in Seq(Nat) /\ Len1Size \in Nat
      BY <1>1, BUAssumption DEF TypeOK
    <3>2. \A i \in 1..Len(used) :
            (IF i = First THEN used[i] + Len1Size ELSE used[i]) \in Nat
      BY <3>1
    <3> QED
      BY <2>1, <3>1, <3>2
  <2>3. TypeOK'
    BY <1>1, <1>4, <2>1, <2>2, BUAssumption DEF Ends, TypeOK
  <2>4. FramedAsWritten'
    <3>1. currMsgLengthPos_.offset = 2 => ExtendedAt = currMsgLengthPos_.offset + 2
      BY DEF ExtendedAt
    <3> QED
      BY <1>3, <2>1, <3>1 DEF FramedAsWritten, Ends
  <2> QED
    BY <2>1, <2>3, <2>4 DEF IInv, Ends, CleanNeverAborts, CountersAgree
<1>7. CASE EndAborts
  <2>1. TypeOK'
    BY <1>1, <1>7 DEF EndAborts, TypeOK
  <2>2. ~clean
    BY <1>7 DEF EndAborts, IInv, CountersAgree
  <2> QED
    BY <1>7, <2>1, <2>2 DEF IInv, EndAborts, FramedAsWritten, CleanNeverAborts,
                            CountersAgree
<1> QED
  BY <1>2, <1>5, <1>6, <1>7

\* Every step keeps the invariant.
LEMMA NextIInv == IInv /\ [Next]_vars => IInv'
<1> SUFFICES ASSUME IInv, [Next]_vars PROVE IInv'
  OBVIOUS
<1>1. CASE Flush
  BY <1>1 DEF Flush, IInv, TypeOK, FramedAsWritten, CleanNeverAborts, CountersAgree
<1>2. CASE UNCHANGED vars
  BY <1>2 DEF vars, IInv, TypeOK, FramedAsWritten, CleanNeverAborts,
              CountersAgree, Replaces, First
<1> QED
  BY <1>1, <1>2, StartFixedKeeps, StartVariableKeeps, WriteKeeps, EndKeeps DEF Next

-----------------------------------------------------------------------------

\* The invariant holds throughout.
THEOREM Inductive == Spec => []IInv
<1> QED
  BY InitIInv, NextIInv, PTL DEF Spec

\* The variables keep their types through every message and every packet.
THEOREM TypeCorrect == Spec => []TypeOK
<1>1. IInv => TypeOK
  BY DEF IInv
<1> QED
  BY <1>1, Inductive, PTL

\* end_new_curr_message declares the right length in the right place for every
\* message whose header fits, whatever the sizes.
THEOREM FramesAreRight == Spec => []FramedAsWritten
<1>1. IInv => FramedAsWritten
  BY DEF IInv
<1> QED
  BY <1>1, Inductive, PTL

\* The assertion around replace holds for every such message.
THEOREM CleanMessagesEnd == Spec => []CleanNeverAborts
<1>1. IInv => CleanNeverAborts
  BY DEF IInv
<1> QED
  BY <1>1, Inductive, PTL

-----------------------------------------------------------------------------
(* The packets as a stream.                                                 *)

\* Put changes the last packet only.
LEMMA PutLast ==
  ASSUME NEW w, Ready(w), NEW n \in Nat, NEW m \in Nat
  PROVE  \A i \in 1..Len(w.used) - 1 : Put(w, n, m).used[i] = w.used[i]
<1>1. w.used \in Seq(Nat) /\ Len(w.used) \in Nat
  BY Fields
<1>2. Put(w, n, m).used = [w.used EXCEPT ![Len(w.used)] = @ + n]
  BY DEF Put
<1> QED
  BY <1>1, <1>2

\* Every step of the stream is one of Bundle.
LEMMA StreamStepIsStep == BSNext => Next
BY DEF BSNext, Starts, WritesBody, EndsInPlace, EndsLonger, Aborts, Flushes, Next

\* The end of the stream is a position.
LEMMA EndNat ==
  ASSUME BSIInv, ok
  PROVE  End \in Nat /\ Len(used) \in Nat /\ used \in Seq(Nat)
<1>1. used \in Seq(Nat) /\ base \in Seq(Nat) /\ Len(base) = Len(used) /\ flushed \in Nat
  BY DEF BSIInv, IInv, TypeOK, BSTypeOK, InLine
<1>2. Len(used) \in Nat
  BY <1>1
<1>3. CASE used = <<>>
  BY <1>1, <1>2, <1>3 DEF End
<1>4. CASE used # <<>>
  <2>1. Len(used) \in 1..Len(used) /\ Len(used) \in 1..Len(base)
    BY <1>1, <1>4
  <2>2. base[Len(used)] \in Nat /\ used[Len(used)] \in Nat
    BY <1>1, <2>1
  <2> QED
    BY <1>1, <1>2, <1>4, <2>2 DEF End
<1> QED
  BY <1>3, <1>4

\* Bytes put into the last packet, or into a new one, lengthen the stream and
\* leave the packets where they are.
LEMMA Grows ==
  ASSUME BSIInv, ok, ok', PacketsAt, flushed' = flushed,
         NEW P \in Seq(Nat), (P = used /\ used # <<>>) \/ P = Append(used, 0),
         NEW n \in Nat,
         used' \in Seq(Nat), Len(used') = Len(P),
         used'[Len(P)] = P[Len(P)] + n,
         \A i \in 1..Len(P) - 1 : used'[i] = P[i]
  PROVE  /\ InLine' /\ End' = End + n
         /\ base' \in Seq(Nat) /\ Len(base') = Len(P)
         /\ \A i \in 1..Len(used) : base'[i] = base[i]
         /\ base'[Len(P)] + P[Len(P)] = End
<1>1. /\ used \in Seq(Nat) /\ base \in Seq(Nat) /\ Len(base) = Len(used)
      /\ flushed \in Nat /\ Len(used) \in Nat /\ End \in Nat
      /\ \A i \in 1..Len(used) - 1 : base[i + 1] = base[i] + used[i]
      /\ used # <<>> => base[1] = flushed
  BY EndNat DEF BSIInv, BSTypeOK, InLine
<1>2. base' = IF Len(used') > Len(base) THEN Append(base, End) ELSE base
  BY DEF PacketsAt
<1>3. CASE P = used /\ used # <<>>
  <2>1. base' = base
    BY <1>1, <1>2, <1>3
  <2>2. Len(used) \in 1..Len(used) /\ Len(used) \in 1..Len(base) /\ used' # <<>>
    BY <1>1, <1>3
  <2>3. base[Len(used)] \in Nat /\ used[Len(used)] \in Nat
    <3>1. base \in Seq(Nat) /\ used \in Seq(Nat)
      BY <1>1
    <3> QED
      BY <2>2, <3>1, SeqAt
  <2>4. End = base[Len(used)] + used[Len(used)]
    BY <1>3 DEF End
  <2>5. End' = base[Len(used)] + (used[Len(used)] + n)
    BY <1>3, <2>1, <2>2 DEF End
  <2>6. InLine'
    <3>1. \A i \in 1..Len(used') - 1 : base'[i + 1] = base'[i] + used'[i]
      BY <1>1, <1>3, <2>1
    <3> QED
      BY <1>1, <1>3, <2>1, <3>1 DEF InLine
  <2> QED
    <3>1. base' \in Seq(Nat) /\ Len(base') = Len(P) /\ base'[Len(P)] + P[Len(P)] = End
      BY <1>1, <1>3, <2>1, <2>4
    <3>2. \A i \in 1..Len(used) : base'[i] = base[i]
      BY <2>1
    <3>3. End' = End + n
      BY <2>3, <2>4, <2>5, SumMoves
    <3> QED
      BY <2>6, <3>1, <3>2, <3>3
<1>4. CASE P = Append(used, 0)
  <2>1. Len(P) = Len(used) + 1 /\ P[Len(P)] = 0
        /\ \A i \in 1..Len(used) : P[i] = used[i]
    BY <1>1, <1>4
  <2>2. base' = Append(base, End)
    BY <1>1, <1>2, <2>1
  <2>3. /\ base' \in Seq(Nat) /\ Len(base') = Len(P) /\ base'[Len(P)] = End
        /\ \A i \in 1..Len(used) : base'[i] = base[i]
    BY <1>1, <2>1, <2>2
  <2>4. used' # <<>> /\ Len(P) \in Nat
    BY <1>1, <2>1
  <2>5. End' = End + n
    BY <1>1, <2>1, <2>3, <2>4 DEF End
  <2>6. \A i \in 1..Len(used') - 1 : base'[i + 1] = base'[i] + used'[i]
    <3> SUFFICES ASSUME NEW i \in 1..Len(used') - 1
                 PROVE  base'[i + 1] = base'[i] + used'[i]
      OBVIOUS
    <3>1. i \in 1..Len(used) /\ used'[i] = used[i] /\ base'[i] = base[i]
      BY <1>1, <2>1, <2>3
    <3>2. CASE i = Len(used)
      <4>1. End = base[Len(used)] + used[Len(used)]
        BY <1>1, <3>1 DEF End
      <4> QED
        BY <2>1, <2>3, <3>1, <3>2, <4>1
    <3>3. CASE i # Len(used)
      <4>1. i + 1 \in 1..Len(used) /\ i \in 1..Len(used) - 1
        BY <1>1, <3>1, <3>3
      <4> QED
        BY <1>1, <2>3, <3>1, <4>1
    <3> QED
      BY <3>2, <3>3
  <2>7. base'[1] = flushed
    <3>1. CASE used = <<>>
      <4>1. Len(P) = 1 /\ End = flushed
        BY <2>1, <3>1 DEF End
      <4> QED
        BY <2>3, <4>1
    <3>2. CASE used # <<>>
      <4>1. 1 \in 1..Len(used)
        BY <1>1, <3>2
      <4> QED
        BY <1>1, <2>3, <3>2, <4>1
    <3> QED
      BY <3>1, <3>2
  <2>8. InLine'
    BY <2>3, <2>6, <2>7 DEF InLine
  <2> QED
    BY <1>1, <2>1, <2>3, <2>5, <2>8
<1> QED
  BY <1>3, <1>4

\* A clean start puts the header behind what is in the current packet.
LEMMA CleanStart ==
  ASSUME TypeOK, StartFixed \/ StartVariable, clean'
  PROVE  LET n == IF variable' THEN 4 ELSE 2 IN
         /\ used' \in Seq(Nat) /\ Len(used') = Len(Packets)
         /\ used'[Len(Packets)] = Packets[Len(Packets)] + n
         /\ \A i \in 1..Len(Packets) - 1 : used'[i] = Packets[i]
         /\ variable' => currMsgLengthPos_' = [packet |-> Len(Packets),
                                               offset |-> Packets[Len(Packets)] + 2]
<1> DEFINE w == NewWriter
           i == Short(w)
           p == Placeholder(i)
<1>1. Ready(w) /\ w.used = Packets
  BY NewReady DEF NewWriter
<1>2. Fill(w) = Packets[Len(Packets)] /\ Fill(w) \in Nat /\ PacketSize \in Nat
  BY <1>1, Fields, BUAssumption DEF Fill
<1>3. CASE StartFixed
  <2>1. Fits(w, 2) /\ used' = i.used /\ variable' = FALSE
    BY <1>3 DEF StartFixed, Writes
  <2>2. i = Put(w, 2, 2)
    BY <1>1, <2>1, ShortReady
  <2>3. Ready(i) /\ Len(i.used) = Len(Packets) /\ Fill(i) = Fill(w) + 2
    BY <1>1, <2>2, PutReady
  <2>4. \A j \in 1..Len(Packets) - 1 : i.used[j] = Packets[j]
    BY <1>1, <2>2, PutLast
  <2>5. i.used \in Seq(Nat) /\ i.used[Len(Packets)] = Packets[Len(Packets)] + 2
    BY <1>2, <2>3, Fields DEF Fill
  <2> HIDE DEF w, i, p
  <2> QED
    BY <2>1, <2>3, <2>4, <2>5
<1>4. CASE StartVariable
  <2>1. /\ Fits(w, 4) /\ used' = p.used /\ variable' = TRUE
        /\ currMsgLengthPos_' = [packet |-> Len(p.used), offset |-> Fill(p) - 2]
    BY <1>4 DEF StartVariable, Writes
  <2>2. Fits(w, 2)
    BY <1>2, <2>1 DEF Fits
  <2>3. i = Put(w, 2, 2)
    BY <1>1, <2>2, ShortReady
  <2>4. Ready(i) /\ Len(i.used) = Len(Packets) /\ Fill(i) = Fill(w) + 2
    BY <1>1, <2>3, PutReady
  <2>5. \A j \in 1..Len(Packets) - 1 : i.used[j] = Packets[j]
    BY <1>1, <2>3, PutLast
  <2>6. Fits(i, 2)
    BY <1>2, <2>1, <2>4 DEF Fits
  <2>7. p = Put(i, 2, 2)
    BY <2>4, <2>6, PlaceholderReady
  <2>8. Ready(p) /\ Len(p.used) = Len(Packets) /\ Fill(p) = Fill(i) + 2
    BY <2>4, <2>7, PutReady
  <2>9. \A j \in 1..Len(Packets) - 1 : p.used[j] = i.used[j]
    <3>1. \A j \in 1..Len(i.used) - 1 : Put(i, 2, 2).used[j] = i.used[j]
      BY <2>4, PutLast
    <3> HIDE DEF w, i, p
    <3> QED
      BY <2>4, <2>7, <3>1
  <2>10. p.used \in Seq(Nat) /\ p.used[Len(Packets)] = Fill(p)
    BY <2>8, Fields DEF Fill
  <2>11. Fill(p) = Packets[Len(Packets)] + 4 /\ Fill(p) - 2 = Packets[Len(Packets)] + 2
    BY <1>2, <2>4, <2>8
  <2> HIDE DEF w, i, p
  <2> QED
    BY <2>1, <2>5, <2>8, <2>9, <2>10, <2>11
<1> QED
  BY <1>3, <1>4

\* The beginning of a message keeps the stream.
LEMMA StartsKeeps ==
  ASSUME BSIInv, Starts
  PROVE  BSTypeOK' /\ InLine' /\ StreamInv'
<1>1. TypeOK /\ BSTypeOK /\ phase = "idle" /\ phase' = "open" /\ body' = 0
  BY DEF BSIInv, IInv, Starts, StartFixed, StartVariable
<1>2. ok' = (ok /\ clean') /\ ok' \in BOOLEAN
  BY <1>1 DEF Starts, BSTypeOK
<1>3. flushed' = flushed /\ sent' = sent /\ total' = total
      /\ start' = (IF ok' THEN End ELSE 0) /\ PacketsAt
  BY DEF Starts
<1>4. CASE ~ok'
  <2>1. base' = <<>> /\ start' = 0
    BY <1>3, <1>4 DEF PacketsAt
  <2> QED
    BY <1>1, <1>2, <1>3, <1>4, <2>1 DEF BSTypeOK, InLine, StreamInv
<1>5. CASE ok'
  <2> DEFINE n == IF variable' THEN 4 ELSE 2
  <2>1. ok /\ clean' /\ End = total
    BY <1>1, <1>2, <1>5 DEF BSIInv, StreamInv
  <2>2. n \in Nat
    OBVIOUS
  <2>3. /\ used' \in Seq(Nat) /\ Len(used') = Len(Packets)
        /\ used'[Len(Packets)] = Packets[Len(Packets)] + n
        /\ \A i \in 1..Len(Packets) - 1 : used'[i] = Packets[i]
        /\ variable' => currMsgLengthPos_' = [packet |-> Len(Packets),
                                              offset |-> Packets[Len(Packets)] + 2]
    BY <1>1, <2>1, CleanStart DEF Starts
  <2>4. Packets \in Seq(Nat)
    BY <1>1 DEF Packets, TypeOK
  <2>5. (Packets = used /\ used # <<>>) \/ Packets = Append(used, 0)
    <3>1. CASE used = <<>>
      <4>1. Append(used, 0) = <<0>>
        BY <3>1
      <4> QED
        BY <3>1, <4>1 DEF Packets
    <3>2. CASE used # <<>>
      BY <3>2 DEF Packets
    <3> QED
      BY <3>1, <3>2
  <2> HIDE DEF n
  <2>6. /\ InLine' /\ End' = End + n /\ base' \in Seq(Nat)
        /\ Len(base') = Len(Packets) /\ base'[Len(Packets)] + Packets[Len(Packets)] = End
    BY <1>3, <1>5, <2>1, <2>2, <2>3, <2>4, <2>5, Grows
  <2>7. End \in Nat
    BY <2>1, EndNat
  <2>8. Len(Packets) \in 1..Len(used')
    BY <2>3, <2>4, <2>5
  <2>9. Packets[Len(Packets)] \in Nat /\ base'[Len(Packets)] \in Nat
    BY <2>3, <2>4, <2>6, <2>8
  <2>10. End' = total + n + 0 /\ start' = total
    BY <1>3, <1>5, <2>1, <2>6, <2>7
  <2>11. variable' => LengthAt' = total + 2
    <3> DEFINE l == Len(Packets)
    <3>1. variable' => LengthAt' = base'[l] + (Packets[l] + 2)
      BY <2>3 DEF LengthAt
    <3>2. base'[l] \in Nat /\ Packets[l] \in Nat /\ base'[l] + Packets[l] = total
      BY <2>1, <2>6, <2>9
    <3> HIDE DEF l
    <3> QED
      BY <3>1, <3>2, SumMoves
  <2>12. StreamInv'
    BY <1>1, <1>3, <2>1, <2>3, <2>8, <2>10, <2>11 DEF StreamInv, n
  <2>13. BSTypeOK'
    BY <1>1, <1>2, <1>3, <1>5, <2>6, <2>7 DEF BSTypeOK
  <2> QED
    BY <2>6, <2>12, <2>13
<1> QED
  BY <1>4, <1>5

\* One turn of a copying loop keeps the stream.
LEMMA WritesBodyKeeps ==
  ASSUME BSIInv, WritesBody
  PROVE  BSTypeOK' /\ InLine' /\ StreamInv'
<1>1. PICK n \in 1..MaxBody : Write(n)
  BY DEF WritesBody
<1> DEFINE w == [used |-> used, count |-> currMsgPacketCount_,
                 length |-> currMsgLength_]
           o == Open(w)
           m == Room(o, n)
           q == Put(o, m, m)
<1>2. /\ flushed' = flushed /\ start' = start /\ sent' = sent /\ total' = total
      /\ ok' = ok /\ PacketsAt
  BY DEF WritesBody
<1>3. TypeOK /\ BSTypeOK /\ phase = "open" /\ used # <<>>
  BY <1>1 DEF BSIInv, IInv, CountersAgree, Write
<1>4. CASE ~ok
  <2>1. base' = <<>> /\ ~ok'
    BY <1>2, <1>4 DEF PacketsAt
  <2> QED
    BY <1>2, <1>3, <2>1 DEF BSTypeOK, InLine, StreamInv
<1>5. CASE ok
  <2>1. Ready(w)
    BY <1>3 DEF Ready, Writer, TypeOK
  <2>2. Ready(o) /\ Fill(o) < PacketSize
    BY <2>1, OpenReady
  <2>3. m \in Nat
    BY <2>2, RoomBounds
  <2>4. Ready(q) /\ Len(q.used) = Len(o.used) /\ Fill(q) = Fill(o) + m
    BY <2>2, <2>3, PutReady
  <2>5. \A i \in 1..Len(o.used) - 1 : q.used[i] = o.used[i]
    BY <2>2, <2>3, PutLast
  <2>6. /\ used' = q.used /\ body' = body + m
        /\ phase' = phase /\ variable' = variable /\ clean' = clean
        /\ currMsgLengthPos_' = currMsgLengthPos_
    BY <1>1 DEF Write, Writes
  <2>7. o.used = used \/ o.used = Append(used, 0)
    BY DEF Open
  <2> HIDE DEF w, o, m, q
  <2>8. o.used \in Seq(Nat) /\ q.used \in Seq(Nat)
    BY <2>2, <2>4, Fields
  <2>9. used'[Len(o.used)] = o.used[Len(o.used)] + m
    BY <2>4, <2>6 DEF Fill
  <2>10. /\ InLine' /\ End' = End + m /\ base' \in Seq(Nat)
         /\ Len(base') = Len(o.used)
         /\ \A i \in 1..Len(used) : base'[i] = base[i]
    BY <1>2, <1>3, <1>5, <2>3, <2>4, <2>5, <2>6, <2>7, <2>8, <2>9, Grows
  <2>11. End \in Nat /\ body \in Nat /\ total \in Nat /\ Len(used) \in Nat
    BY <1>3, <1>5, EndNat, BUAssumption DEF TypeOK, BSTypeOK
  <2>12. /\ clean /\ start = total
         /\ End = total + (IF variable THEN 4 ELSE 2) + body
         /\ variable => LengthAt = total + 2 /\ currMsgLengthPos_.packet \in 1..Len(used)
    BY <1>3, <1>5 DEF BSIInv, StreamInv
  <2>13. End' = total + (IF variable THEN 4 ELSE 2) + body'
    BY <2>3, <2>6, <2>10, <2>11, <2>12
  <2>14. variable => LengthAt' = total + 2
    BY <2>6, <2>10, <2>12 DEF LengthAt
  <2>15. 1..Len(used) \subseteq 1..Len(used')
    <3>1. Len(used') = Len(used) \/ Len(used') = Len(used) + 1
      <4>1. Len(Append(used, 0)) = Len(used) + 1
        BY <1>3 DEF TypeOK
      <4> QED
        BY <2>4, <2>6, <2>7, <4>1
    <3> QED
      BY <2>11, <3>1
  <2>16. StreamInv'
    BY <1>2, <1>3, <2>6, <2>12, <2>13, <2>14, <2>15 DEF StreamInv
  <2>17. BSTypeOK'
    BY <1>2, <1>3, <2>10 DEF BSTypeOK
  <2> QED
    BY <2>10, <2>16, <2>17
<1> QED
  BY <1>4, <1>5

\* What is known of a stream with an open message.
LEMMA OpenFacts ==
  ASSUME BSIInv, ok, phase = "open"
  PROVE  /\ clean /\ start = total /\ total \in Nat /\ body \in 0..MaxBody
         /\ used # <<>> /\ variable \in BOOLEAN
         /\ End = total + (IF variable THEN 4 ELSE 2) + body
         /\ variable => /\ LengthAt = total + 2
                        /\ currMsgLengthPos_.packet \in 1..Len(used)
                        /\ Payload = body
<1>1. TypeOK /\ BSTypeOK /\ used # <<>>
  BY DEF BSIInv, IInv, CountersAgree
<1>2. /\ clean /\ start = total
      /\ End = total + (IF variable THEN 4 ELSE 2) + body
      /\ variable => LengthAt = total + 2 /\ currMsgLengthPos_.packet \in 1..Len(used)
  BY DEF BSIInv, StreamInv
<1>3. ASSUME variable PROVE Payload = body
  <2>1. currMsgLength_ = body + 4 /\ body \in 0..MaxBody
    BY <1>1, <1>2, <1>3 DEF BSIInv, IInv, CountersAgree, TypeOK
  <2> QED
    BY <2>1, PayloadExact DEF Payload
<1> QED
  BY <1>1, <1>2, <1>3 DEF TypeOK, BSTypeOK

\* The kinds of messages of the stream.
MsgKinds == [variable : BOOLEAN, len : 0..MaxBody]

\* A message that ends joins the stream where the last one ended.
LEMMA JoinsKeeps ==
  ASSUME BSIInv, ok, ok', phase = "open", phase' = "idle", Joins,
         variable => frame'.len = body,
         InLine', base' \in Seq(Nat),
         End' = End + (IF variable /\ body >= MaxSize THEN Len1Size ELSE 0)
  PROVE  /\ BSTypeOK' /\ StreamInv'
         /\ \E k \in MsgKinds : Framed!Sends(k)
<1>1. BSTypeOK /\ Len1Size \in Nat /\ MaxBody \in Nat /\ MaxSize \in Nat
  BY BUAssumption DEF BSIInv
<1>2. /\ start = total /\ total \in Nat /\ body \in 0..MaxBody /\ variable \in BOOLEAN
      /\ End = total + (IF variable THEN 4 ELSE 2) + body
  BY OpenFacts
<1> DEFINE k == [variable |-> variable, len |-> body]
<1>3. Declared = k /\ k \in MsgKinds
  BY <1>2 DEF Declared, MsgKinds
<1>4. /\ start' = 0 /\ flushed' = flushed /\ total' = End'
      /\ sent' = Append(sent, [kind |-> k, at |-> total])
  BY <1>2, <1>3 DEF Joins
<1>5. Framed!Size(k) = (IF variable THEN 4 ELSE 2)
                       + (IF variable /\ body >= MaxSize THEN Len1Size ELSE 0) + body
  BY <1>1, <1>2 DEF Framed!Size, Framed!HeaderSize, Framed!Long
<1>6. total' = total + Framed!Size(k) /\ total' \in Nat
  BY <1>1, <1>2, <1>4, <1>5
<1>7. Framed!Sends(k)
  BY <1>4, <1>6 DEF Framed!Sends
<1>8. sent' \in Seq([kind : MsgKinds, at : Nat])
  <2>1. sent \in Seq([kind : MsgKinds, at : Nat])
    BY <1>1 DEF BSTypeOK, MsgKinds
  <2>2. [kind |-> k, at |-> total] \in [kind : MsgKinds, at : Nat]
    BY <1>2, <1>3
  <2> HIDE DEF k
  <2> QED
    BY <1>4, <2>1, <2>2
<1>9. BSTypeOK'
  BY <1>1, <1>4, <1>6, <1>8 DEF BSTypeOK, MsgKinds
<1>10. StreamInv'
  BY <1>4 DEF StreamInv
<1> QED
  BY <1>3, <1>7, <1>9, <1>10

\* end_new_curr_message without an extended length.
LEMMA EndsInPlaceKeeps ==
  ASSUME BSIInv, EndsInPlace
  PROVE  /\ BSTypeOK' /\ InLine' /\ StreamInv'
         /\ (\E k \in MsgKinds : Framed!Sends(k)) \/ UNCHANGED <<sent, total>>
<1>1. phase = "open" /\ phase' = "idle" /\ used' = used /\ variable' = variable
  BY DEF EndsInPlace, EndFixed, EndShort, Ends
<1>2. base' = base /\ ok' = ok /\ Joins /\ flushed' = flushed
  BY DEF EndsInPlace, Joins
<1>3. InLine' /\ End' = End /\ BSTypeOK
  BY <1>1, <1>2 DEF BSIInv, InLine, End
<1>4. CASE ~ok
  <2>1. start' = 0 /\ sent' = sent /\ total' = total
    BY <1>2, <1>4 DEF Joins
  <2> QED
    BY <1>2, <1>3, <1>4, <2>1 DEF BSTypeOK, StreamInv
<1>5. CASE ok
  <2>1. body \in Nat /\ MaxSize \in Nat /\ End \in Nat /\ variable \in BOOLEAN
    BY <1>1, <1>5, OpenFacts, EndNat, BUAssumption
  <2>2. variable => frame'.len = body /\ ~(body >= MaxSize)
    <3> HAVE variable
    <3>1. Payload = body
      BY <1>1, <1>5, OpenFacts
    <3>2. EndShort
      BY DEF EndsInPlace, EndFixed
    <3> QED
      BY <2>1, <3>1, <3>2 DEF EndShort
  <2>3. End' = End + (IF variable /\ body >= MaxSize THEN Len1Size ELSE 0)
    BY <1>3, <2>1, <2>2
  <2>4. base' \in Seq(Nat)
    BY <1>2, <1>3 DEF BSTypeOK
  <2> QED
    BY <1>1, <1>2, <1>3, <1>5, <2>2, <2>3, <2>4, JoinsKeeps
<1> QED
  BY <1>4, <1>5

\* The packet the message began in is the one its length is filled in.
LEMMA LongFacts ==
  ASSUME BSIInv, EndsLonger, ok'
  PROVE  /\ ok /\ phase = "open" /\ variable /\ First \in 1..Len(used)
         /\ base[First] = total /\ ExtendedAt = 4 /\ LengthAt = total + 2
         /\ Payload = body /\ body >= MaxSize
<1>1. EndLong /\ ok' = (ok /\ frame'.clean)
  BY DEF EndsLonger
<1>2. /\ phase = "open" /\ variable /\ Payload >= MaxSize
      /\ currMsgLengthPos_.packet = First
      /\ frame'.clean = (clean /\ currMsgLengthPos_.offset = 2)
  BY <1>1 DEF EndLong, Ends, Replaces
<1>3. ok /\ currMsgLengthPos_.offset = 2
  BY <1>1, <1>2
<1>4. /\ LengthAt = total + 2 /\ First \in 1..Len(used) /\ Payload = body
      /\ total \in Nat
  BY <1>2, <1>3, OpenFacts
<1>5. base[First] + 2 = total + 2
  BY <1>2, <1>3, <1>4 DEF LengthAt
<1>6. base[First] \in Nat
  BY <1>3, <1>4 DEF BSIInv, InLine
<1>7. base[First] = total
  BY <1>4, <1>5, <1>6
<1>8. ExtendedAt = 4
  BY <1>3 DEF ExtendedAt
<1> QED
  BY <1>2, <1>3, <1>4, <1>7, <1>8

\* end_new_curr_message with an extended length: what is inserted pushes the
\* rest of its packet and the packets behind it.
LEMMA EndsLongerKeeps ==
  ASSUME BSIInv, EndsLonger
  PROVE  /\ BSTypeOK' /\ InLine' /\ StreamInv'
         /\ (\E k \in MsgKinds : Framed!Sends(k)) \/ UNCHANGED <<sent, total>>
<1>1. /\ EndLong /\ Joins /\ flushed' = flushed /\ ok' = (ok /\ frame'.clean)
      /\ base' = IF ~ok' THEN <<>>
                 ELSE [i \in 1..Len(base) |->
                         IF i > First THEN base[i] + Len1Size ELSE base[i]]
  BY DEF EndsLonger, Joins
<1>2. /\ phase' = "idle" /\ frame'.len = Payload /\ variable' = variable
      /\ used' = [i \in 1..Len(used) |->
                    IF i = First THEN used[i] + Len1Size ELSE used[i]]
      /\ frame'.clean = (clean /\ currMsgLengthPos_.offset = 2)
  BY <1>1 DEF EndLong, Ends
<1>3. BSTypeOK /\ TypeOK /\ Len1Size \in Nat /\ ok' \in BOOLEAN
  BY <1>1, <1>2, BUAssumption DEF BSIInv, IInv
<1>4. CASE ~ok'
  <2>1. start' = 0 /\ sent' = sent /\ total' = total /\ base' = <<>>
    BY <1>1, <1>4 DEF Joins
  <2> QED
    BY <1>1, <1>3, <1>4, <2>1 DEF BSTypeOK, InLine, StreamInv
<1>5. CASE ok'
  <2>1. /\ ok /\ phase = "open" /\ variable /\ First \in 1..Len(used)
        /\ Payload = body /\ body >= MaxSize
    BY <1>5, LongFacts
  <2>2. /\ used \in Seq(Nat) /\ base \in Seq(Nat) /\ Len(base) = Len(used)
        /\ Len(used) \in Nat /\ used # <<>>
        /\ \A i \in 1..Len(used) - 1 : base[i + 1] = base[i] + used[i]
        /\ base[1] = flushed
    BY <1>3, <2>1, OpenFacts DEF BSIInv, InLine, TypeOK
  <2>3. /\ \A i \in 1..Len(used) : used[i] \in Nat /\ base[i] \in Nat
        /\ Len(used) \in 1..Len(used) /\ 1 \in 1..Len(used) /\ First \in Nat
    <3>1. \A i \in 1..Len(used) : i \in 1..Len(base)
      BY <2>2
    <3>2. \A i \in 1..Len(used) : used[i] \in Nat /\ base[i] \in Nat
      BY <2>2, <3>1, SeqAt
    <3>3. Len(used) \in 1..Len(used) /\ 1 \in 1..Len(used) /\ First \in Nat
      BY <2>1, <2>2
    <3> QED
      BY <3>2, <3>3
  <2>4. base' = [i \in 1..Len(used) |->
                   IF i > First THEN base[i] + Len1Size ELSE base[i]]
    BY <1>1, <1>5, <2>2
  <2>5. \A i \in 1..Len(used) :
          /\ used'[i] = IF i = First THEN used[i] + Len1Size ELSE used[i]
          /\ base'[i] = IF i > First THEN base[i] + Len1Size ELSE base[i]
          /\ used'[i] \in Nat /\ base'[i] \in Nat
    BY <1>2, <1>3, <2>3, <2>4
  <2>6. /\ base' \in Seq(Nat) /\ Len(base') = Len(used)
        /\ used' \in Seq(Nat) /\ Len(used') = Len(used)
    <3>1. \A i \in 1..Len(used) :
            /\ (IF i = First THEN used[i] + Len1Size ELSE used[i]) \in Nat
            /\ (IF i > First THEN base[i] + Len1Size ELSE base[i]) \in Nat
      BY <1>3, <2>3
    <3> QED
      BY <1>2, <2>2, <2>4, <3>1
  <2>7. \A i \in 1..Len(used) - 1 : base'[i + 1] = base'[i] + used'[i]
    <3> SUFFICES ASSUME NEW i \in 1..Len(used) - 1
                 PROVE  base'[i + 1] = base'[i] + used'[i]
      OBVIOUS
    <3>1. i \in 1..Len(used) /\ i + 1 \in 1..Len(used)
      BY <2>2
    <3>2. base[i + 1] = base[i] + used[i] /\ base[i] \in Nat /\ used[i] \in Nat
      BY <2>2, <2>3, <3>1
    <3>3. /\ used'[i] = IF i = First THEN used[i] + Len1Size ELSE used[i]
          /\ base'[i] = IF i > First THEN base[i] + Len1Size ELSE base[i]
          /\ base'[i + 1] = IF i + 1 > First THEN base[i + 1] + Len1Size ELSE base[i + 1]
      BY <2>5, <3>1
    <3>4. i \in Nat /\ First \in Nat
      BY <2>3, <3>1
    <3>5. CASE i < First
      BY <3>2, <3>3, <3>4, <3>5
    <3>6. CASE i = First
      BY <1>3, <3>2, <3>3, <3>4, <3>6
    <3>7. CASE i > First
      BY <1>3, <3>2, <3>3, <3>4, <3>7
    <3> QED
      BY <3>4, <3>5, <3>6, <3>7
  <2>8. base'[1] = flushed'
    BY <1>1, <2>1, <2>2, <2>3, <2>5
  <2>9. used' # <<>>
    BY <2>2, <2>3, <2>6
  <2>10. InLine'
    BY <2>6, <2>7, <2>8 DEF InLine
  <2>11. End' = End + Len1Size
    <3>1. End = base[Len(used)] + used[Len(used)]
      BY <2>2 DEF End
    <3>2. End' = base'[Len(used)] + used'[Len(used)]
      BY <2>6, <2>9 DEF End
    <3>3. Len(used) >= First
      BY <2>1, <2>2
    <3> QED
      <4> DEFINE l == Len(used)
      <4>1. /\ used'[l] = IF l = First THEN used[l] + Len1Size ELSE used[l]
            /\ base'[l] = IF l > First THEN base[l] + Len1Size ELSE base[l]
            /\ used[l] \in Nat /\ base[l] \in Nat /\ l \in Nat
        BY <2>2, <2>3, <2>5
      <4>2. End = base[l] + used[l] /\ End' = base'[l] + used'[l] /\ l >= First
        BY <3>1, <3>2, <3>3
      <4> HIDE DEF l
      <4>3. CASE l = First
        BY <1>3, <2>3, <4>1, <4>2, <4>3
      <4>4. CASE l > First
        BY <1>3, <2>3, <4>1, <4>2, <4>4
      <4> QED
        BY <2>3, <4>1, <4>2, <4>3, <4>4
  <2> QED
    BY <1>1, <1>2, <1>5, <2>1, <2>6, <2>10, <2>11, JoinsKeeps
<1> QED
  BY <1>4, <1>5

\* Every step keeps the stream, and adds a message or none.
LEMMA StreamStep ==
  ASSUME BSIInv, [BSNext]_<<vars, stream>>
  PROVE  /\ BSIInv'
         /\ (\E k \in MsgKinds : Framed!Sends(k)) \/ UNCHANGED <<sent, total>>
<1>1. [Next]_vars
  BY StreamStepIsStep DEF stream
<1>2. IInv'
  BY <1>1, NextIInv DEF BSIInv
<1>3. CASE Starts
  BY <1>2, <1>3, StartsKeeps DEF BSIInv, Starts
<1>4. CASE WritesBody
  BY <1>2, <1>4, WritesBodyKeeps DEF BSIInv, WritesBody
<1>5. CASE EndsInPlace
  BY <1>2, <1>5, EndsInPlaceKeeps DEF BSIInv
<1>6. CASE EndsLonger
  BY <1>2, <1>6, EndsLongerKeeps DEF BSIInv
<1>7. CASE Aborts
  <2>1. /\ UNCHANGED stream /\ used' = used /\ phase' = "aborted"
    BY <1>7 DEF Aborts, EndAborts
  <2> QED
    BY <1>2, <2>1 DEF BSIInv, stream, BSTypeOK, InLine, StreamInv
<1>8. CASE Flushes
  <2>1. /\ phase = "idle" /\ phase' = "idle" /\ used' = <<>> /\ base' = <<>>
        /\ flushed' = (IF ok THEN End ELSE flushed)
        /\ start' = start /\ sent' = sent /\ total' = total /\ ok' = ok
    BY <1>8 DEF Flushes, Flush
  <2>2. BSTypeOK /\ flushed' \in Nat
    BY <2>1, EndNat DEF BSIInv, BSTypeOK
  <2>3. BSTypeOK' /\ InLine'
    BY <2>1, <2>2 DEF BSTypeOK, InLine
  <2>4. StreamInv'
    BY <2>1 DEF BSIInv, StreamInv, End
  <2> QED
    BY <1>2, <2>1, <2>3, <2>4 DEF BSIInv
<1>9. CASE UNCHANGED <<vars, stream>>
  <2>1. /\ UNCHANGED <<used, phase, variable, currMsgPacketCount_, currMsgLength_,
                       currMsgLengthPos_, body, clean, frame>>
        /\ UNCHANGED <<base, flushed, start, sent, total, ok>>
    BY <1>9 DEF vars, stream
  <2> QED
    BY <1>2, <2>1 DEF BSIInv, BSTypeOK, InLine, StreamInv, End, LengthAt
<1> QED
  BY <1>3, <1>4, <1>5, <1>6, <1>7, <1>8, <1>9 DEF BSNext

\* The stream is empty at first.
LEMMA StreamBegins == BSInit => BSIInv
<1> SUFFICES ASSUME BSInit PROVE BSIInv
  OBVIOUS
<1>1. IInv
  BY InitIInv DEF BSInit
<1>2. used = <<>> /\ phase = "idle" /\ base = <<>> /\ flushed = 0 /\ start = 0
      /\ sent = <<>> /\ total = 0 /\ ok = TRUE
  BY DEF BSInit, Init
<1> QED
  BY <1>1, <1>2 DEF BSIInv, BSTypeOK, InLine, StreamInv, End

\* The invariant of the stream holds throughout.
THEOREM StreamInductive == BSSpec => []BSIInv
<1> QED
  BY StreamBegins, StreamStep, PTL DEF BSSpec

\* What Bundle writes, message by message, is a stream PacketReader expects,
\* for every packet size and limit, as long as the headers fit: every message
\* begins where the last one ended and has the size its header declares.
THEOREM WritesFramedStream == BSSpec => ImplementsFramedStream
<1>1. BSInit => Framed!StreamInit
  BY DEF BSInit, Framed!StreamInit
<1>2. BSIInv /\ [BSNext]_<<vars, stream>>
      => [\E k \in MsgKinds : Framed!Sends(k)]_<<sent, total>>
  BY StreamStep
<1> QED
  BY <1>1, <1>2, StreamInductive, PTL
     DEF BSSpec, ImplementsFramedStream, Framed!StreamSpec, MsgKinds

\* The lengths end_new_curr_message fills in are where PacketReader looks.
THEOREM FieldsAreInPlace == BSSpec => FieldsInPlace
<1>1. ASSUME BSIInv, [BSNext]_<<vars, stream>>, sent' # sent, variable
      PROVE  /\ LengthAt = start + 2
             /\ EndLong => base[First] + ExtendedAt = start + 4
  <2>1. EndsInPlace \/ EndsLonger
    BY <1>1 DEF BSNext, Starts, WritesBody, Aborts, Flushes, stream
  <2>2. CASE EndsInPlace
    <3>1. ok' /\ ok' = ok /\ phase = "open"
      BY <1>1, <2>2 DEF EndsInPlace, Joins, EndFixed, EndShort, Ends
    <3>2. LengthAt = start + 2 /\ Payload = body /\ body \in Nat /\ MaxSize \in Nat
      BY <1>1, <3>1, OpenFacts, BUAssumption
    <3>3. ~EndLong
      BY <1>1, <2>2, <3>2 DEF EndsInPlace, EndFixed, EndShort, EndLong
    <3> QED
      BY <3>2, <3>3
  <2>3. CASE EndsLonger
    <3>1. ok'
      BY <1>1, <2>3 DEF EndsLonger, Joins
    <3>2. ok /\ phase = "open" /\ base[First] = total /\ ExtendedAt = 4
          /\ LengthAt = total + 2
      BY <1>1, <2>3, <3>1, LongFacts
    <3>3. start = total
      BY <1>1, <3>2, OpenFacts
    <3> QED
      BY <3>2, <3>3
  <2> QED
    BY <2>1, <2>2, <2>3
<1>2. BSIInv /\ [BSNext]_<<vars, stream>>
      => [sent' # sent /\ variable =>
            /\ LengthAt = start + 2
            /\ EndLong => base[First] + ExtendedAt = start + 4]_<<vars, stream>>
  BY <1>1
<1> QED
  BY <1>2, StreamInductive, PTL DEF BSSpec, FieldsInPlace
=============================================================================
