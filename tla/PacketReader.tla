---------------------------- MODULE PacketReader ----------------------------
(***************************************************************************)
(* PacketReader::processMessages: the messages of one TCP stream are cut    *)
(* out of the packets the socket happened to deliver.  A message is an id,  *)
(* for a variable one a length, for a long one an extended length, and the  *)
(* body; a packet may end anywhere in it.                                   *)
(*                                                                         *)
(* The peer's stream is a sequence of whole messages at known positions; a  *)
(* packet is an interval of positions.  A header field read where the peer  *)
(* wrote one has the value written; read anywhere else it has any value,    *)
(* the reader is derailed and the model says nothing more.  The Kinds of    *)
(* FramedStream have one more field here: known, the reader finds the id.   *)
(***************************************************************************)
EXTENDS FramedStream

CONSTANTS
  NoKind,      \* currMsgID_ = 0
  MaxMsgs,     \* bound: messages sent
  MaxPackets   \* bound: packets received between two loops

ASSUME PRAssumption ==
  /\ \A k \in Kinds : k.known \in BOOLEAN /\ k.variable \in BOOLEAN /\ k.len \in Nat
  /\ NoKind \notin Kinds
  /\ IdSize \in Nat \ {0} /\ LenSize \in Nat \ {0} /\ Len1Size \in Nat \ {0}
  /\ MaxSize \in Nat \ {0} /\ MaxMsgs \in Nat /\ MaxPackets \in Nat
  /\ IdSize <= MaxSize + 1 /\ LenSize <= MaxSize + 1 /\ Len1Size <= MaxSize + 1

VARIABLES
  got,           \* bytes received
  external,      \* the length limit applies: scope and component type
  recvPackets_,
  rd,            \* rd_ptr of the packet in hand, as a stream position
  pc,            \* where in processMessages
  fragmentsFlag_,
  pFragmentsRemainning_,
  currMsgID_, currMsgLen_,
  fragment,      \* content of pFragmentPacket_: positions [lo, hi)
  isCondemn_,
  handled,       \* messages handled: [kind, lo, hi]
  faults         \* cases the reader does not master, met so far

reader == <<fragmentsFlag_, pFragmentsRemainning_, currMsgID_, currMsgLen_,
            fragment>>
vars == <<sent, total, got, external, recvPackets_, rd, pc, reader, isCondemn_,
          handled, faults>>

Interval == [lo : Nat, hi : Nat]

\* The variables hold values of their types.
TypeOK ==
  /\ sent \in Seq([kind : Kinds, at : Nat])
  /\ total \in Nat /\ got \in Nat
  /\ external \in BOOLEAN
  /\ recvPackets_ \in Seq(Interval)
  /\ rd \in Nat
  /\ pc \in {"idle", "loop", "find", "length", "length1", "body", "wild",
             "derailed"}
  /\ fragmentsFlag_ \in {"UNKNOW", "ID", "LENGTH", "LENGTH1", "BODY"}
  /\ pFragmentsRemainning_ \in 0..MaxSize
  /\ currMsgID_ \in Kinds \cup {NoKind}
  /\ currMsgLen_ \in Nat
  /\ fragment \in Interval
  /\ isCondemn_ \in BOOLEAN
  /\ handled \in Seq([kind : Kinds, lo : Nat, hi : Nat])
  /\ faults \subseteq {"header", "length1", "width", "refused"}

-----------------------------------------------------------------------------
(* The stream as the peer sends it.                                         *)

Body(m) == [kind |-> m.kind, lo |-> m.at + HeaderSize(m.kind),
            hi |-> m.at + Size(m.kind)]

Sent == {sent[i] : i \in 1..Len(sent)}

Send(k) ==
  /\ got = 0
  /\ Len(sent) < MaxMsgs
  /\ Sends(k)
  /\ UNCHANGED <<got, external, recvPackets_, rd, pc, reader, isCondemn_,
                 handled, faults>>

\* process_recv queues what one recv returned.
Receive(n) ==
  /\ pc = "idle" /\ ~isCondemn_
  /\ Len(recvPackets_) < MaxPackets
  /\ got + n <= total
  /\ recvPackets_' = Append(recvPackets_, [lo |-> got, hi |-> got + n])
  /\ got' = got + n
  /\ UNCHANGED <<sent, total, external, rd, pc, reader, isCondemn_, handled,
                 faults>>

-----------------------------------------------------------------------------
(* The loops.                                                               *)

\* Channel::process_packets turns a condemned channel away.  The websocket
\* branch of the hand_shake it begins with (Channel.cpp:64-84) is never taken:
\* isWebSocketProtocol returns false (net_common.cpp:22-26).
Begin ==
  /\ pc = "idle" /\ ~isCondemn_ /\ recvPackets_ # <<>>
  /\ pc' = "loop"
  /\ rd' = Head(recvPackets_).lo
  /\ UNCHANGED <<sent, total, got, external, recvPackets_, reader, isCondemn_,
                 handled, faults>>

opsize == Head(recvPackets_).hi - rd

FragmentLength == fragment.hi - fragment.lo

\* break, or the end of the inner loop: on to the next packet or out.
Break ==
  /\ recvPackets_' = Tail(recvPackets_)
  /\ rd' = IF Tail(recvPackets_) = <<>> THEN 0 ELSE Tail(recvPackets_)[1].lo
  /\ pc' = IF Tail(recvPackets_) = <<>> THEN "idle" ELSE "loop"
  /\ UNCHANGED <<sent, total, got, external>>

\* The inner loop goes on with this packet.
Stays == UNCHANGED <<sent, total, got, external, recvPackets_>>

PacketDone ==
  /\ pc = "loop"
  /\ opsize = 0 /\ FragmentLength = 0
  /\ Break
  /\ UNCHANGED <<reader, isCondemn_, handled, faults>>

Merges(flags) == pc = "loop" /\ opsize > 0 /\ fragmentsFlag_ \in flags

\* The bytes from rd on are appended to the fragment packet.
Cached(n) == [lo |-> IF FragmentLength = 0 THEN rd ELSE fragment.lo,
              hi |-> IF FragmentLength = 0 THEN rd + n ELSE fragment.hi + n]

\* Mutant: everything in the packet is taken off the remaining length.
MergeBodyUnderflows ==
  /\ Merges({"BODY"}) /\ opsize >= pFragmentsRemainning_
  /\ fragment' = Cached(pFragmentsRemainning_)
  /\ rd' = rd + pFragmentsRemainning_
  /\ fragmentsFlag_' = "UNKNOW"
  /\ pFragmentsRemainning_' = pFragmentsRemainning_ - opsize
  /\ Stays
  /\ UNCHANGED <<pc, currMsgID_, currMsgLen_, isCondemn_, handled, faults>>

\* The packet has the rest of the body.
MergeBody ==
  /\ Merges({"BODY"}) /\ opsize >= pFragmentsRemainning_
  /\ fragment' = Cached(pFragmentsRemainning_)
  /\ rd' = rd + pFragmentsRemainning_
  /\ fragmentsFlag_' = "UNKNOW"
  /\ pFragmentsRemainning_' = 0
  /\ Stays
  /\ UNCHANGED <<pc, currMsgID_, currMsgLen_, isCondemn_, handled, faults>>

\* Mutant: the remaining length is not reduced.
MergeBodyPartKeeps ==
  /\ Merges({"BODY"}) /\ opsize < pFragmentsRemainning_
  /\ fragment' = Cached(opsize)
  /\ Break
  /\ UNCHANGED <<fragmentsFlag_, pFragmentsRemainning_, currMsgID_,
                 currMsgLen_, isCondemn_, handled, faults>>

\* The whole packet belongs to the body and does not complete it.
MergeBodyPart ==
  /\ Merges({"BODY"}) /\ opsize < pFragmentsRemainning_
  /\ fragment' = Cached(opsize)
  /\ pFragmentsRemainning_' = pFragmentsRemainning_ - opsize
  /\ Break
  /\ UNCHANGED <<fragmentsFlag_, currMsgID_, currMsgLen_, isCondemn_, handled,
                 faults>>

\* The previous packet ended just before a header field: nothing to merge.
MergeNothing ==
  /\ Merges({"ID", "LENGTH", "LENGTH1"}) /\ pFragmentsRemainning_ = 0
  /\ fragmentsFlag_' = "UNKNOW"
  /\ Stays
  /\ UNCHANGED <<rd, pc, pFragmentsRemainning_, currMsgID_, currMsgLen_,
                 fragment, isCondemn_, handled, faults>>

\* The rest of a header field goes through pFragmentsWpos_, which starts as
\* NULL and is never pointed at the field: undefined behaviour.
MergeHeader ==
  /\ Merges({"ID", "LENGTH", "LENGTH1"}) /\ pFragmentsRemainning_ > 0
  /\ pc' = "wild"
  /\ Stays
  /\ UNCHANGED <<rd, reader, isCondemn_, handled, faults>>

-----------------------------------------------------------------------------
(* Reading one message: id, find, length, extended length, body.            *)

AtLoop == pc = "loop" /\ fragmentsFlag_ = "UNKNOW" /\ (opsize > 0 \/ FragmentLength > 0)

\* A header field of this size is cut by the end of the packet, or begins
\* behind it: what there is of it is consumed, what is missing is noted.  The
\* part already in the field is not modelled, nothing looks at it before the
\* merge of the rest goes astray.
Caches(flag, size) ==
  /\ opsize < size
  /\ fragmentsFlag_' = flag
  /\ pFragmentsRemainning_' =
        IF opsize > 0 THEN size - opsize ELSE pFragmentsRemainning_
  /\ Break
  /\ UNCHANGED <<fragment, isCondemn_, handled>>

\* A field is read at rd: from a message that has it there, else derailed.
Reads(size, here, next) ==
  /\ opsize >= size
  /\ rd' = rd + size
  /\ pc' = IF here = {} THEN "derailed" ELSE next
  /\ Stays
  /\ UNCHANGED <<fragmentsFlag_, pFragmentsRemainning_, fragment, isCondemn_,
                 handled, faults>>

CacheId ==
  /\ AtLoop /\ currMsgID_ = NoKind
  /\ Caches("ID", IdSize)
  /\ faults' = IF opsize > 0 THEN faults \cup {"header"} ELSE faults
  /\ UNCHANGED <<currMsgID_, currMsgLen_>>

ReadId ==
  LET here == {m \in Sent : m.at = rd}
  IN  /\ AtLoop /\ currMsgID_ = NoKind
      /\ Reads(IdSize, here, "find")
      /\ currMsgID_' = IF here = {} THEN NoKind ELSE (CHOOSE m \in here : TRUE).kind
      /\ UNCHANGED currMsgLen_

AtFind == pc = "find" \/ (AtLoop /\ currMsgID_ # NoKind)

\* Mutant: the rest of the packet is read on.
FindFailsGoesOn ==
  /\ AtFind /\ ~currMsgID_.known
  /\ currMsgID_' = NoKind
  /\ currMsgLen_' = 0
  /\ isCondemn_' = TRUE
  /\ pc' = "loop"
  /\ Stays
  /\ UNCHANGED <<rd, fragmentsFlag_, pFragmentsRemainning_, fragment, handled,
                 faults>>

\* No such message: the rest of the packet is dropped with the channel.
FindFails ==
  /\ AtFind /\ ~currMsgID_.known
  /\ currMsgID_' = NoKind
  /\ currMsgLen_' = 0
  /\ isCondemn_' = TRUE
  /\ Break
  /\ UNCHANGED <<fragmentsFlag_, pFragmentsRemainning_, fragment, handled,
                 faults>>

\* Found; a length that an earlier packet left behind is used again.  A message
\* of fixed length has no length field: g_packetAlwaysContainLength is false
\* (net_common.cpp:53) and nothing sets it.
FindMessage ==
  /\ AtFind /\ currMsgID_.known
  /\ pc' = IF currMsgLen_ # 0 \/ ~currMsgID_.variable THEN "body" ELSE "length"
  /\ currMsgLen_' = IF currMsgLen_ = 0 /\ ~currMsgID_.variable
                    THEN currMsgID_.len ELSE currMsgLen_
  /\ Stays
  /\ UNCHANGED <<rd, fragmentsFlag_, pFragmentsRemainning_, currMsgID_,
                 fragment, isCondemn_, handled, faults>>

CacheLength ==
  /\ pc = "length"
  /\ Caches("LENGTH", LenSize)
  /\ faults' = IF opsize > 0 THEN faults \cup {"header"} ELSE faults
  /\ UNCHANGED <<currMsgID_, currMsgLen_>>

\* Mutant: no extended length is looked for.
ReadLengthShort ==
  LET here == {m \in Sent : m.kind.variable /\ m.at + IdSize = rd}
      len  == IF here = {} THEN 0 ELSE (CHOOSE m \in here : TRUE).kind.len
  IN  /\ pc = "length"
      /\ Reads(LenSize, here, "body")
      /\ currMsgLen_' = IF len >= MaxSize THEN MaxSize ELSE len
      /\ UNCHANGED currMsgID_

\* The largest length says that an extended length follows.
ReadLength ==
  LET here == {m \in Sent : m.kind.variable /\ m.at + IdSize = rd}
      len  == IF here = {} THEN 0 ELSE (CHOOSE m \in here : TRUE).kind.len
  IN  /\ pc = "length"
      /\ Reads(LenSize, here, IF len >= MaxSize THEN "length1" ELSE "body")
      /\ currMsgLen_' = IF len >= MaxSize THEN MaxSize ELSE len
      /\ UNCHANGED currMsgID_

\* currMsgLen_ keeps the mark 65535, or part of the field read over it.
CacheLength1 ==
  /\ pc = "length1"
  /\ Caches("LENGTH1", Len1Size)
  /\ faults' = faults \cup {IF opsize > 0 THEN "header" ELSE "length1"}
  /\ UNCHANGED <<currMsgID_, currMsgLen_>>

ReadLength1 ==
  LET here == {m \in Sent : Long(m.kind) /\ m.at + IdSize + LenSize = rd}
  IN  /\ pc = "length1"
      /\ Reads(Len1Size, here, "body")
      /\ currMsgLen_' = IF here = {} THEN 0 ELSE (CHOOSE m \in here : TRUE).kind.len
      /\ UNCHANGED currMsgID_

TooLong == external /\ currMsgLen_ > MaxSize

\* currMsgID_ is kept: a further packet of the batch is read as that message's.
RefuseLong ==
  /\ pc = "body" /\ TooLong
  /\ currMsgLen_' = 0
  /\ isCondemn_' = TRUE
  /\ faults' = IF Len(recvPackets_) > 1 THEN faults \cup {"refused"} ELSE faults
  /\ Break
  /\ UNCHANGED <<fragmentsFlag_, pFragmentsRemainning_, currMsgID_, fragment,
                 handled>>

\* The body goes on in the next packet; what is missing is kept in 16 bits.
CacheBody ==
  /\ pc = "body" /\ ~TooLong
  /\ FragmentLength = 0 /\ opsize < currMsgLen_
  /\ fragmentsFlag_' = "BODY"
  /\ fragment' = Cached(opsize)
  /\ pFragmentsRemainning_' =
        IF opsize > 0 THEN (currMsgLen_ - opsize) % (MaxSize + 1)
        ELSE pFragmentsRemainning_
  /\ faults' = IF opsize > 0 /\ currMsgLen_ - opsize > MaxSize
               THEN faults \cup {"width"} ELSE faults
  /\ Break
  /\ UNCHANGED <<currMsgID_, currMsgLen_, isCondemn_, handled>>

\* Mutant: the length is left for the next message.
HandleInPlaceKeepsLen ==
  /\ pc = "body" /\ ~TooLong
  /\ FragmentLength = 0 /\ opsize >= currMsgLen_
  /\ handled' = Append(handled, [kind |-> currMsgID_, lo |-> rd,
                                 hi |-> rd + currMsgLen_])
  /\ rd' = rd + currMsgLen_
  /\ pc' = "loop"
  /\ currMsgID_' = NoKind
  /\ Stays
  /\ UNCHANGED <<fragmentsFlag_, pFragmentsRemainning_, currMsgLen_, fragment,
                 isCondemn_, faults>>

\* The message lies in the packet: handled in place.
HandleInPlace ==
  /\ pc = "body" /\ ~TooLong
  /\ FragmentLength = 0 /\ opsize >= currMsgLen_
  /\ handled' = Append(handled, [kind |-> currMsgID_, lo |-> rd,
                                 hi |-> rd + currMsgLen_])
  /\ rd' = rd + currMsgLen_
  /\ pc' = "loop"
  /\ currMsgID_' = NoKind /\ currMsgLen_' = 0
  /\ Stays
  /\ UNCHANGED <<fragmentsFlag_, pFragmentsRemainning_, fragment, isCondemn_,
                 faults>>

\* Mutant: the fragment packet is not reset.
HandleFragmentAgain ==
  /\ pc = "body" /\ ~TooLong
  /\ FragmentLength > 0
  /\ pc' = "loop"
  /\ Stays
  /\ UNCHANGED <<rd, reader, isCondemn_, handled, faults>>

\* The message was put together in the fragment packet.
HandleFragment ==
  /\ pc = "body" /\ ~TooLong
  /\ FragmentLength > 0
  /\ handled' = Append(handled, [kind |-> currMsgID_, lo |-> fragment.lo,
                                 hi |-> fragment.hi])
  /\ fragment' = [lo |-> 0, hi |-> 0]
  /\ pc' = "loop"
  /\ currMsgID_' = NoKind /\ currMsgLen_' = 0
  /\ Stays
  /\ UNCHANGED <<rd, fragmentsFlag_, pFragmentsRemainning_, isCondemn_, faults>>

-----------------------------------------------------------------------------

Init ==
  /\ sent = <<>> /\ total = 0 /\ got = 0
  /\ external \in BOOLEAN
  /\ recvPackets_ = <<>> /\ rd = 0 /\ pc = "idle"
  /\ fragmentsFlag_ = "UNKNOW" /\ pFragmentsRemainning_ = 0
  /\ currMsgID_ = NoKind /\ currMsgLen_ = 0
  /\ fragment = [lo |-> 0, hi |-> 0]
  /\ isCondemn_ = FALSE
  /\ handled = <<>>
  /\ faults = {}

Merge == MergeBody \/ MergeBodyPart \/ MergeNothing \/ MergeHeader

Parse ==
  \/ CacheId \/ ReadId \/ FindFails \/ FindMessage
  \/ CacheLength \/ ReadLength \/ CacheLength1 \/ ReadLength1

Handle == RefuseLong \/ CacheBody \/ HandleInPlace \/ HandleFragment

Step == PacketDone \/ Merge \/ Parse \/ Handle

Next ==
  \/ \E k \in Kinds : Send(k)
  \/ \E n \in 1..total : Receive(n)
  \/ Begin
  \/ Step

Spec == Init /\ [][Next]_vars

-----------------------------------------------------------------------------
(* Properties.                                                             *)

\* However the stream is cut into packets, what is handled is the peer's
\* messages, each whole and with its own id, in order; and none is left out
\* unless the channel is condemned.
HandledAsSent ==
  faults = {} =>
    /\ \A j \in 1..Len(handled) : \E i \in j..Len(sent) :
         /\ handled[j] = Body(sent[i])
         /\ ~isCondemn_ => i = j
    /\ \A i, j \in 1..Len(handled) : i < j => handled[i].hi < handled[j].lo

\* Between two loops of a healthy channel every message that has arrived to
\* its last byte has been handled, and the fragment packet holds exactly the
\* bytes of the one that has not.
NothingWithheld ==
  pc = "idle" /\ recvPackets_ = <<>> /\ faults = {} /\ ~isCondemn_ =>
    /\ \A i \in 1..Len(sent) :
         sent[i].at + Size(sent[i].kind) <= got => i <= Len(handled)
    /\ FragmentLength > 0 =>
         LET b == Body(sent[Len(handled) + 1])
         IN  /\ fragment = [lo |-> b.lo, hi |-> got]
             /\ pFragmentsRemainning_ = b.hi - got

-----------------------------------------------------------------------------
(* The inductive invariant.                                                 *)

Running == {"loop", "find", "length", "length1", "body"}

\* The position the reader has come to.
Pos == IF pc \in Running THEN rd
       ELSE IF recvPackets_ = <<>> THEN got ELSE recvPackets_[1].lo

EndOf(m) == m.at + Size(m.kind)

\* Where the first n messages end.
EndAfter(n) == IF n = 0 THEN 0 ELSE EndOf(sent[n])

\* The messages fill the stream, one behind the other.
Layout ==
  /\ total = EndAfter(Len(sent))
  /\ \A i \in 1..Len(sent) : sent[i].at = EndAfter(i - 1) /\ EndOf(sent[i]) <= total
  /\ \A i, j \in 1..Len(sent) : i < j => EndOf(sent[i]) <= sent[j].at

\* So do the packets, up to what was received.
PacketsInLine ==
  /\ got <= total
  /\ \A i \in 1..Len(recvPackets_) :
       recvPackets_[i].lo < recvPackets_[i].hi /\ recvPackets_[i].hi <= got
  /\ \A i \in 1..Len(recvPackets_) - 1 : recvPackets_[i].hi = recvPackets_[i + 1].lo
  /\ recvPackets_ # <<>> => recvPackets_[Len(recvPackets_)].hi = got

\* The reader is inside the packet in hand, and has an id where it needs one.
ReaderInPacket ==
  /\ fragment.lo <= fragment.hi
  /\ pc \in Running => recvPackets_ # <<>> /\ recvPackets_[1].lo <= rd /\ rd <= recvPackets_[1].hi
  /\ pc \in Running \ {"loop"} => currMsgID_ \in Kinds
  /\ got = 0 => /\ pc = "idle" /\ recvPackets_ = <<>> /\ handled = <<>>
                /\ currMsgID_ = NoKind /\ ~isCondemn_

\* Between two messages.
AtNone ==
  /\ pc \in {"loop", "idle"}
  /\ currMsgID_ = NoKind /\ currMsgLen_ = 0 /\ FragmentLength = 0
  /\ fragmentsFlag_ = "UNKNOW" /\ pFragmentsRemainning_ = 0
  /\ \A j \in 1..Len(handled) : handled[j].hi <= Pos
  /\ ~isCondemn_ => Pos = EndAfter(Len(handled))

\* Behind the id of m; only a variable message is left there at the end of a
\* packet.
AfterId(m) ==
  /\ currMsgLen_ = 0 /\ FragmentLength = 0 /\ pFragmentsRemainning_ = 0
  /\ Pos = m.at + IdSize
  /\ \/ pc = "find" /\ fragmentsFlag_ = "UNKNOW"
     \/ pc = "length" /\ fragmentsFlag_ = "UNKNOW" /\ m.kind.variable /\ m.kind.known
     \/ pc \in {"loop", "idle"} /\ fragmentsFlag_ \in {"UNKNOW", "LENGTH"} /\ m.kind.variable

\* Behind the length of a long m.
AfterLength(m) ==
  /\ pc = "length1" /\ m.kind.known /\ Long(m.kind)
  /\ FragmentLength = 0 /\ pFragmentsRemainning_ = 0 /\ fragmentsFlag_ = "UNKNOW"
  /\ Pos = m.at + IdSize + LenSize

\* At the body of m: none of it, a part of it, all of it is in the fragment
\* packet.
AtBody(m) ==
  /\ m.kind.known /\ currMsgLen_ = m.kind.len
  /\ \/ /\ FragmentLength = 0 /\ pFragmentsRemainning_ = 0
        /\ Pos = Body(m).lo
        /\ \/ pc = "body" /\ fragmentsFlag_ = "UNKNOW"
           \/ pc \in {"loop", "idle"} /\ m.kind.len > 0 /\ fragmentsFlag_ \in {"UNKNOW", "BODY"}
     \/ /\ pc \in {"loop", "idle"} /\ fragmentsFlag_ = "BODY"
        /\ FragmentLength > 0 /\ fragment = [lo |-> Body(m).lo, hi |-> Pos]
        /\ pFragmentsRemainning_ > 0 /\ Pos + pFragmentsRemainning_ = Body(m).hi
     \/ /\ pc \in {"loop", "body"} /\ fragmentsFlag_ = "UNKNOW" /\ pFragmentsRemainning_ = 0
        /\ FragmentLength > 0 /\ fragment = [lo |-> Body(m).lo, hi |-> Body(m).hi]
        /\ Pos = Body(m).hi

\* Reading message i, which is the next one unless the channel is condemned.
Reading(i) ==
  /\ currMsgID_ = sent[i].kind
  /\ ~isCondemn_ => i = Len(handled) + 1
  /\ \A j \in 1..Len(handled) : handled[j].hi <= sent[i].at
  /\ AfterId(sent[i]) \/ AfterLength(sent[i]) \/ AtBody(sent[i])

\* The reader is in step with the stream; a condemned channel is not read on
\* once its packets are through.
InStep ==
  faults = {} =>
    \/ isCondemn_ /\ pc \in {"idle", "derailed"}
    \/ AtNone
    \/ \E i \in Len(handled) + 1..Len(sent) : Reading(i)

BaseInv == TypeOK /\ Layout /\ PacketsInLine /\ ReaderInPacket

IInv == BaseInv /\ InStep /\ HandledAsSent

-----------------------------------------------------------------------------

\* processMessages comes to an end: the inner loop runs as long as the packet
\* or the fragment packet holds bytes, and neither is left holding them.
BatchEnds == (pc = "loop") ~> (pc \in {"idle", "wild", "derailed"})

\* How much processMessages has still to do: packets, bytes, and the stages of
\* the message in hand.
Left == IF pc = "idle" THEN 0 ELSE got - rd

Stage ==
  LET merge == IF fragmentsFlag_ # "UNKNOW" THEN 5 ELSE 0
  IN  CASE pc = "loop"    -> merge + (IF currMsgID_ = NoKind THEN 0 ELSE 4)
        [] pc = "find"    -> merge + 4
        [] pc = "length"  -> merge + 3
        [] pc = "length1" -> merge + 2
        [] pc = "body"    -> merge + 1
        [] OTHER          -> 0

ToDo == 10 * (Len(recvPackets_) + Left) + Stage

DoesSome == pc \in Running => ToDo \in Nat /\ ToDo' \in Nat /\ ToDo' < ToDo

\* Every step while processMessages runs leaves less to do, whatever the
\* stream holds and also once the reader has lost its place in it: a call
\* takes a bounded number of steps, and no message or packet is gone through
\* twice.
LoopProgress == [][DoesSome]_vars

\* The stream of messages: down once the channel is condemned or one of the
\* faults was met.
Bodies == [i \in 1..Len(sent) |-> Body(sent[i])]

Delivery ==
  INSTANCE MessageStream WITH
    sent <- Bodies,
    up   <- faults = {} /\ ~isCondemn_

\* Whatever the cuts, what the reader does is what MessageStream promises.
ImplementsMessageStream == Delivery!Spec

\* Only a channel that is condemned, or met one of the faults, loses its place
\* in the stream.
StaysInStep == pc = "derailed" => isCondemn_ \/ faults # {}

\* PacketReader.cpp:114 of a message id cut by the end of a packet: "we have to
\* cache it for the construction with the next packet".
HeaderReassembled == pc # "wild"
=============================================================================
