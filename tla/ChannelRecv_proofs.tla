------------------------- MODULE ChannelRecv_proofs -------------------------
(***************************************************************************)
(* The proofs about ChannelRecv: handle_input takes the reader only through *)
(* steps of PacketReader, so what is proved of the reader holds here too;   *)
(* that it hands over one packet at a time is what keeps a condemned        *)
(* channel from being read on.                                              *)
(***************************************************************************)
EXTENDS ChannelRecv, PacketReader_proofs

\* A step of the handler is a step of the reader or leaves the reader alone.
LEMMA RecvIsReaderStep ==
  ASSUME [RecvNext]_recvVars
  PROVE  [Next]_vars
BY DEF RecvNext, recvVars, HandleInput, ProcessRecv, RecvBytes, RecvWouldBlock, RecvFails,
       RecvEnds, RecvCondemned, Processes, PeerSends, Next

\* Every behaviour of handle_input is one of the reader.
THEOREM RecvIsReader == RecvSpec => Spec
<1>1. RecvInit => Init
  BY DEF RecvInit
<1>2. [RecvNext]_recvVars => [Next]_vars
  BY RecvIsReaderStep
<1> QED
  BY <1>1, <1>2, PTL DEF RecvSpec, Spec

\* A step of processMessages takes place in the loop, and with one packet in
\* hand ends it where it condemns the channel.
LEMMA StepFacts ==
  ASSUME BaseInv, Step, Len(recvPackets_) <= 1
  PROVE  /\ pc # "idle" /\ Len(recvPackets_') <= 1
         /\ isCondemn_' => isCondemn_ \/ (pc' = "idle" /\ recvPackets_' = <<>>)
<1>1. pc \in Running
  BY DEF Step, PacketDone, Merge, MergeBody, MergeBodyPart, MergeNothing, MergeHeader, Merges,
         Parse, CacheId, ReadId, FindFails, FindMessage, CacheLength, ReadLength,
         CacheLength1, ReadLength1, Handle, RefuseLong, CacheBody, HandleInPlace,
         HandleFragment, AtFind, AtLoop, Running
<1>2. Break \/ Stays
  BY DEF Step, PacketDone, Merge, MergeBody, MergeBodyPart, MergeNothing, MergeHeader,
         Parse, CacheId, ReadId, FindFails, FindMessage, CacheLength, ReadLength,
         CacheLength1, ReadLength1, Handle, RefuseLong, CacheBody, HandleInPlace,
         HandleFragment, Caches, Reads
<1>3. Break => recvPackets_' = <<>> /\ pc' = "idle"
  <2> SUFFICES ASSUME Break PROVE recvPackets_' = <<>> /\ pc' = "idle"
    OBVIOUS
  <2>1. recvPackets_ \in Seq(Interval) /\ recvPackets_ # <<>> /\ Len(recvPackets_) = 1
    <3>1. recvPackets_ \in Seq(Interval) /\ recvPackets_ # <<>>
      BY <1>1, InHand DEF BaseInv, TypeOK
    <3>2. Len(recvPackets_) \in Nat \ {0}
      BY <3>1, EmptySeq
    <3>3. Len(recvPackets_) = 1
      BY <3>2, SMTT(30)
    <3> QED
      BY <3>1, <3>3
  <2>2. Tail(recvPackets_) = <<>>
    <3>1. Tail(recvPackets_) \in Seq(Interval) /\ Len(Tail(recvPackets_)) = 0
      BY <2>1, HeadTailProperties
    <3> QED
      BY <3>1, EmptySeq
  <2> QED
    BY <2>2 DEF Break
<1>4. isCondemn_' => isCondemn_ \/ Break
  BY DEF Step, PacketDone, Merge, MergeBody, MergeBodyPart, MergeNothing, MergeHeader,
         Parse, CacheId, ReadId, FindFails, FindMessage, CacheLength, ReadLength,
         CacheLength1, ReadLength1, Handle, RefuseLong, CacheBody, HandleInPlace,
         HandleFragment, Caches, Reads
<1>5. Len(recvPackets_') <= 1
  BY <1>2, <1>3 DEF Stays
<1> QED
  BY <1>1, <1>3, <1>4, <1>5 DEF Running

LEMMA RecvNextInductive ==
  ASSUME RecvIInv, [RecvNext]_recvVars
  PROVE  RecvIInv'
<1>0. IInv /\ BaseInv /\ Settled /\ CondemnedClosed
  BY DEF RecvIInv, IInv
<1>1. IInv'
  BY <1>0, RecvIsReaderStep, NextInductive
<1>2. Settled' /\ CondemnedClosed'
  <2>1. CASE UNCHANGED recvVars
    BY <2>1, <1>0 DEF recvVars, vars, Settled, CondemnedClosed
  <2>2. ASSUME NEW k \in Kinds, PeerSends(k)
        PROVE  Settled' /\ CondemnedClosed'
    BY <2>2, <1>0 DEF PeerSends, Send, Sends, Settled, CondemnedClosed
  <2>3. CASE HandleInput
    BY <2>3, <1>0 DEF HandleInput, vars, Settled, CondemnedClosed
  <2>4. ASSUME NEW n \in 1..total, RecvBytes(n)
        PROVE  Settled' /\ CondemnedClosed'
    <3>1. /\ recvPackets_ = <<>> /\ ~isCondemn_ /\ isCondemn_' = isCondemn_
          /\ handler' = "more"
          /\ recvPackets_' = Append(recvPackets_, [lo |-> got, hi |-> got + n])
      BY <2>4 DEF RecvBytes, Usable, Enters, Receive, AfterPacket
    <3>2. Len(recvPackets_') = 1
      BY <3>1
    <3> QED
      BY <3>1, <3>2 DEF Settled, CondemnedClosed
  <2>5. CASE RecvWouldBlock \/ RecvFails \/ RecvEnds \/ RecvCondemned
    BY <2>5, <1>0 DEF RecvWouldBlock, RecvFails, RecvEnds, RecvCondemned, Usable, Enters,
                      vars, Settled, CondemnedClosed
  <2>6. CASE Processes
    <3>1. CASE Begin
      BY <2>6, <3>1, <1>0 DEF Processes, Begin, Settled, CondemnedClosed
    <3>2. CASE Step
      <4>1. handler # "waiting" /\ ~isCondemn_ /\ handler' = handler
        BY <2>6, <3>2, <1>0, StepFacts DEF Processes, Settled
      <4> QED
        BY <3>2, <4>1, <1>0, StepFacts DEF Settled, CondemnedClosed
    <3> QED
      BY <2>6, <3>1, <3>2 DEF Processes
  <2> QED
    BY <2>1, <2>2, <2>3, <2>4, <2>5, <2>6 DEF RecvNext, ProcessRecv
<1> QED
  BY <1>1, <1>2 DEF RecvIInv

\* RecvIInv holds of every behaviour of handle_input.
THEOREM RecvInductive == RecvSpec => []RecvIInv
<1>1. RecvInit => RecvIInv
  <2> SUFFICES ASSUME RecvInit PROVE RecvIInv
    OBVIOUS
  <2>1. IInv
    BY InitIInv DEF RecvInit
  <2>2. Settled /\ CondemnedClosed
    BY DEF RecvInit, Init, Settled, CondemnedClosed
  <2> QED
    BY <2>1, <2>2 DEF RecvIInv
<1>2. RecvIInv /\ [RecvNext]_recvVars => RecvIInv'
  BY RecvNextInductive
<1> QED
  BY <1>1, <1>2, PTL DEF RecvSpec

\* The variables keep their types.
THEOREM RecvTypeCorrect == RecvSpec => []RecvTypeOK
<1> DEFINE H == handler \in {"waiting", "first", "more"} /\ gone \in BOOLEAN /\ errors \in BOOLEAN
<1>1. RecvInit => H
  BY DEF RecvInit
<1>2. H /\ [RecvNext]_recvVars => H'
  BY DEF RecvNext, recvVars, HandleInput, ProcessRecv, RecvBytes, RecvWouldBlock, RecvFails,
         RecvEnds, RecvCondemned, Processes, PeerSends, AfterPacket
<1>3. RecvIInv /\ H => RecvTypeOK
  BY DEF RecvIInv, IInv, BaseInv, RecvTypeOK
<1> HIDE DEF H
<1> QED
  BY <1>1, <1>2, <1>3, RecvInductive, PTL DEF RecvSpec

\* handle_input never leaves a condemned channel behind that is still alive.
THEOREM CondemnedAreClosed == RecvSpec => []CondemnedClosed
<1>1. RecvIInv => CondemnedClosed
  BY DEF RecvIInv
<1> QED
  BY <1>1, RecvInductive, PTL

\* Nothing is handled for a channel that has refused a message.
THEOREM RefusalIsFinal == RecvSpec => NothingAfterRefusal
<1>1. RecvIInv /\ [RecvNext]_recvVars => [isCondemn_ => handled' = handled]_recvVars
  <2> SUFFICES ASSUME RecvIInv, RecvNext, isCondemn_ PROVE handled' = handled
    BY DEF recvVars
  <2>1. BaseInv /\ pc = "idle" /\ Len(recvPackets_) <= 1
    BY DEF RecvIInv, IInv, Settled
  <2>2. ~Step
    BY <2>1, StepFacts
  <2> QED
    BY <2>2 DEF RecvNext, HandleInput, ProcessRecv, RecvBytes, RecvWouldBlock, RecvFails,
       RecvEnds, RecvCondemned, Processes, PeerSends, Send, Sends, Receive, Begin, vars
<1> QED
  BY <1>1, RecvInductive, PTL DEF RecvSpec, NothingAfterRefusal

\* What handle_input hands to the handlers is the peer's messages as sent.
THEOREM ReceivedAsSent == RecvSpec => []HandledAsSent
BY RecvIsReader, MessagesAsSent, PTL

\* So handle_input gives the handlers what MessageStream promises, whatever
\* recv returns and wherever it cuts.
THEOREM RecvDelivers == RecvSpec => ImplementsMessageStream
BY RecvIsReader, DeliversMessages, PTL

\* And each call of processMessages ends.
THEOREM RecvLoopEnds == RecvSpec => LoopProgress
BY RecvIsReader, LoopEnds, PTL

=============================================================================
