----------------------- MODULE NetworkInterface_proofs -----------------------
(***************************************************************************)
(* For any number of addresses, handler slots and channel slots: the types, *)
(* the soundness of the registry and the soundness of the reactor's         *)
(* callbacks are invariants of NetworkInterface!Spec.                       *)
(***************************************************************************)
EXTENDS NetworkInterface, FiniteSetTheorems, TLAPS

\* ++iterator arrives at a registered address or at the end.
LEMMA SuccessorType ==
  ASSUME NEW m, NEW k
  PROVE  Successor(m, k) \subseteq Registered(m) \cup {NULL}
BY DEF Successor

\* The records the constructors and destructors leave are of their types.
LEMMA RecordTypes ==
  ASSUME NEW h \in Handler, NEW s \in Scope, NEW a \in Addr, NEW c \in Chan,
         NEW p \in Chan \cup {NULL}, NEW d \in BOOLEAN
  PROVE  /\ [NewChannel(h, s) EXCEPT !.scope = "EXTERNAL"] \in ChannelRecord
         /\ FreedChannel(d) \in ChannelRecord
         /\ NewHandler(a, s, c) \in HandlerRecord
         /\ ClosedHandler(p) \in HandlerRecord
BY DEF NewChannel, FreedChannel, NewHandler, ClosedHandler, ChannelRecord,
       HandlerRecord, Scope

\* Hearing from a channel keeps the types.
LEMMA HeardType ==
  ASSUME TypeOK, NEW c \in Chan
  PROVE  [chan EXCEPT ![c].idle = FALSE, ![c].buffered = TRUE]
           \in [Chan -> ChannelRecord]
<1>1. chan \in [Chan -> ChannelRecord]
  BY DEF TypeOK
<1>2. [chan EXCEPT ![c].idle = FALSE] \in [Chan -> ChannelRecord]
  BY <1>1 DEF ChannelRecord
<1> DEFINE mid == [chan EXCEPT ![c].idle = FALSE]
<1>3. [mid EXCEPT ![c].buffered = TRUE] \in [Chan -> ChannelRecord]
  <2> HIDE DEF mid
  <2>1. mid \in [Chan -> ChannelRecord]
    BY <1>2 DEF mid
  <2> QED
    BY <2>1 DEF ChannelRecord
<1> QED
  BY <1>3 DEF mid

\* Setting a flag of a channel, or disarming its timer, keeps the types.
LEMMA FlagType ==
  ASSUME TypeOK, NEW c \in Chan, NEW b \in BOOLEAN
  PROVE  /\ [chan EXCEPT ![c].buffered = b] \in [Chan -> ChannelRecord]
         /\ [chan EXCEPT ![c].condemned = b] \in [Chan -> ChannelRecord]
         /\ [chan EXCEPT ![c].destroyed = b] \in [Chan -> ChannelRecord]
         /\ [chan EXCEPT ![c].idle = b] \in [Chan -> ChannelRecord]
<1>1. chan \in [Chan -> ChannelRecord]
  BY DEF TypeOK
<1>2. [chan[c] EXCEPT !.buffered = b] \in ChannelRecord
  BY <1>1 DEF ChannelRecord
<1>3. [chan[c] EXCEPT !.condemned = b] \in ChannelRecord
  BY <1>1 DEF ChannelRecord
<1>4. [chan[c] EXCEPT !.destroyed = b] \in ChannelRecord
  BY <1>1 DEF ChannelRecord
<1>5. [chan[c] EXCEPT !.idle = b] \in ChannelRecord
  BY <1>1 DEF ChannelRecord
<1> QED
  BY <1>1, <1>2, <1>3, <1>4, <1>5

\* Giving a channel up, whatever the reason, keeps the types.
LEMMA DiesType ==
  ASSUME TypeOK, NEW c \in Chan, NEW p \in Chan \cup {NULL}, Dies(c, p)
  PROVE  /\ channelMap_' \in [Key -> Chan \cup {NULL}]
         /\ numExtChannels_' \in Int
         /\ chan' \in [Chan -> ChannelRecord]
         /\ hnd' \in [Handler -> HandlerRecord]
         /\ freeCount' \in [Handler -> Nat]
         /\ deregAddr' \in Key
         /\ odd' \subseteq OddEvents
<1> DEFINE h == chan[c].ep
<1>1. h \in Handler
  BY DEF TypeOK, Dies, ChannelRecord
<1>2. PICK r \in RemoteAddr(h, deregAddr) :
        /\ channelMap_' = [channelMap_ EXCEPT ![r.key] = NULL]
        /\ numExtChannels_' = numExtChannels_ - 1
        /\ deregAddr' = r.key
        /\ odd' = IF r.stale THEN odd \cup {"peername"} ELSE odd
  BY DEF Dies, deregister_channel
<1>3. r.key \in Key
  BY <1>2 DEF RemoteAddr
<1>4. FreedChannel(TRUE) \in ChannelRecord /\ ClosedHandler(p) \in HandlerRecord
  BY DEF FreedChannel, ClosedHandler, ChannelRecord, HandlerRecord, Scope
<1>5. channelMap_' \in [Key -> Chan \cup {NULL}] /\ deregAddr' \in Key
  BY <1>2, <1>3 DEF TypeOK
<1>6. numExtChannels_' \in Int
  BY <1>2 DEF TypeOK
<1>7. chan' \in [Chan -> ChannelRecord]
  BY <1>4 DEF TypeOK, Dies
<1>8. hnd' \in [Handler -> HandlerRecord]
  BY <1>1, <1>4 DEF TypeOK, Dies, handle_close
<1>9. freeCount' \in [Handler -> Nat]
  BY <1>1 DEF TypeOK, Dies, handle_close
<1>10. odd' \subseteq OddEvents
  BY <1>2 DEF TypeOK, OddEvents
<1> QED
  BY <1>5, <1>6, <1>7, <1>8, <1>9, <1>10

\* Closing endpoint h of channel p on a timeout keeps the types.
LEMMA TimeoutType ==
  ASSUME TypeOK, NEW p \in Chan, NEW h \in Handler, NEW k \in Key,
         channelMap_' = [channelMap_ EXCEPT ![k] = NULL],
         numExtChannels_' = numExtChannels_ - 1,
         deregAddr' = k,
         odd' = odd \/ odd' = odd \cup {"peername"},
         hnd' = [hnd EXCEPT ![h] = ClosedHandler(hnd[h].pChannel_)],
         freeCount' = [freeCount EXCEPT ![h] = @ + 1],
         chan' = [chan EXCEPT ![p].timer = NULL],
         UNCHANGED <<regAddr, listening, phase, iter, accepted>>
  PROVE  TypeOK'
<1>1. ClosedHandler(hnd[h].pChannel_) \in HandlerRecord
  BY DEF TypeOK, ClosedHandler, HandlerRecord, Scope
<1>2. channelMap_' \in [Key -> Chan \cup {NULL}]
  BY DEF TypeOK
<1>3. numExtChannels_' \in Int /\ deregAddr' \in Key
  BY DEF TypeOK
<1>4. chan' \in [Chan -> ChannelRecord]
  BY SMTT(30) DEF TypeOK, ChannelRecord
<1>5. hnd' \in [Handler -> HandlerRecord]
  BY <1>1 DEF TypeOK
<1>6. freeCount' \in [Handler -> Nat]
  BY DEF TypeOK
<1>7. odd' \subseteq OddEvents
  BY DEF TypeOK, OddEvents
<1> QED
  BY <1>2, <1>3, <1>4, <1>5, <1>6, <1>7 DEF TypeOK

\* on_channel_timeout keeps the types.
LEMMA ExpiresType ==
  ASSUME TypeOK, NEW c \in Chan, TimerExpires(c)
  PROVE  TypeOK'
<1>1. PICK t \in Handler : t = chan[c].timer
  BY Zenon DEF TypeOK, TimerExpires, ChannelRecord
<1>2. PICK p \in Chan : p = hnd[t].pChannel_
  BY <1>1, Zenon DEF TypeOK, TimerExpires, HandlerRecord
<1>3. PICK h \in Handler : h = chan[p].ep
  BY <1>1, <1>2, Zenon DEF TypeOK, TimerExpires, ChannelRecord
<1>4. /\ deregister_channel(h)
      /\ handle_close(h, hnd[h].pChannel_)
      /\ chan' = [chan EXCEPT ![p].timer = NULL]
      /\ UNCHANGED <<regAddr, listening, phase, iter, accepted>>
  BY <1>1, <1>2, <1>3, Zenon DEF TimerExpires
<1>5. PICK r \in RemoteAddr(h, deregAddr) :
        /\ channelMap_' = [channelMap_ EXCEPT ![r.key] = NULL]
        /\ numExtChannels_' = numExtChannels_ - 1
        /\ deregAddr' = r.key
        /\ odd' = IF r.stale THEN odd \cup {"peername"} ELSE odd
  BY <1>4 DEF deregister_channel
<1>6. r.key \in Key
  BY DEF RemoteAddr
<1>7. odd' = odd \/ odd' = odd \cup {"peername"}
  BY <1>5
<1>8. /\ hnd' = [hnd EXCEPT ![h] = ClosedHandler(hnd[h].pChannel_)]
      /\ freeCount' = [freeCount EXCEPT ![h] = @ + 1]
  BY <1>4 DEF handle_close
<1> QED
  BY <1>4, <1>5, <1>6, <1>7, <1>8, TimeoutType, Zenon

\* ++iter leaves phase and iterator typed, and the iterator sound.
LEMMA AdvanceSound ==
  ASSUME TypeOK, IterSound, iter # NULL, phase \in {"sweep", "packets"},
         channelMap_' \in [Key -> Chan \cup {NULL}], Advance
  PROVE  /\ iter' \in Key \cup {NULL}
         /\ phase' \in {"events", "sweep", "packets", "stopped", "crashed"}
         /\ IterSound'
<1>1. CASE iter' \in Successor(channelMap_', iter) /\ UNCHANGED phase
  <2>1. iter' \in Registered(channelMap_') \cup {NULL}
    BY <1>1, SuccessorType
  <2>2. Registered(channelMap_') \subseteq Key
    BY DEF Registered
  <2> QED
    BY <1>1, <2>1, <2>2 DEF TypeOK, IterSound
<1>2. CASE phase' = "crashed" /\ UNCHANGED iter
  BY <1>2 DEF TypeOK, IterSound
<1> QED
  BY <1>1, <1>2 DEF Advance

\* The sweep and the packet loop stand at a registered channel.
LEMMA AtEntry ==
  ASSUME TypeOK, IterSound, iter # NULL, phase \in {"sweep", "packets"}
  PROVE  iter \in Key /\ channelMap_[iter] \in Chan
BY DEF TypeOK, IterSound, Registered

\* The acceptor keeps the types and does not touch a running loop.
LEMMA AcceptType ==
  ASSUME NIAssumption, TypeOK, AcceptStep
  PROVE  TypeOK' /\ IterSound'
<1>1. PICK a \in Addr, s \in Listeners, h \in Handler, c \in Chan :
        \/ AcceptRegister(a, s, h, c) \/ AcceptDuplicate(a, s, h, c)
        \/ AcceptOpenFails(a, s, h, c) \/ AcceptReissue(a, s, h, c)
  BY DEF AcceptStep
<1>2. s \in Scope /\ a \in Key
  BY DEF NIAssumption, Key
<1> DEFINE nc == [NewChannel(h, s) EXCEPT !.scope = "EXTERNAL"]
<1>3. /\ nc \in ChannelRecord /\ FreedChannel(FALSE) \in ChannelRecord
      /\ NewHandler(a, s, c) \in HandlerRecord
      /\ ClosedHandler(c) \in HandlerRecord
  BY <1>2, RecordTypes
<1> HIDE DEF nc
<1>4. CASE AcceptRegister(a, s, h, c)
  <2>1. /\ hnd' = [hnd EXCEPT ![h] = NewHandler(a, s, c)]
        /\ freeCount' = [freeCount EXCEPT ![h] = @ - 1]
        /\ freeCount[h] > 0
        /\ chan' = [chan EXCEPT ![c] = nc]
        /\ channelMap_' = [channelMap_ EXCEPT ![a] = c]
        /\ numExtChannels_' = numExtChannels_ + 1
        /\ regAddr' = a /\ accepted' = accepted + 1
        /\ UNCHANGED <<deregAddr, listening, phase, iter, odd>>
        /\ phase = "events"
    BY <1>4 DEF AcceptRegister, AcceptEnabled, nc
  <2>2. hnd' \in [Handler -> HandlerRecord] /\ chan' \in [Chan -> ChannelRecord]
    BY <1>3, <2>1 DEF TypeOK
  <2>3. freeCount' \in [Handler -> Nat]
    BY <2>1 DEF TypeOK
  <2>4. channelMap_' \in [Key -> Chan \cup {NULL}]
    BY <1>2, <2>1 DEF TypeOK
  <2> QED
    BY <1>2, <2>1, <2>2, <2>3, <2>4 DEF TypeOK, IterSound
<1>5. CASE AcceptDuplicate(a, s, h, c)
  <2>1. /\ hnd' = [hnd EXCEPT ![h] = ClosedHandler(c)]
        /\ chan' = [chan EXCEPT ![c] = FreedChannel(FALSE)]
        /\ channelMap_' = [channelMap_ EXCEPT ![a] = NULL]
        /\ numExtChannels_' = numExtChannels_ - 1
        /\ regAddr' = a /\ deregAddr' = a /\ accepted' = accepted + 1
        /\ odd' = odd \cup {"dup"}
        /\ UNCHANGED <<freeCount, listening, phase, iter>>
        /\ phase = "events"
    BY <1>5 DEF AcceptDuplicate, AcceptEnabled
  <2>2. hnd' \in [Handler -> HandlerRecord] /\ chan' \in [Chan -> ChannelRecord]
    BY <1>3, <2>1 DEF TypeOK
  <2>3. channelMap_' \in [Key -> Chan \cup {NULL}]
    BY <1>2, <2>1 DEF TypeOK
  <2>4. odd' \subseteq OddEvents
    BY <2>1 DEF TypeOK, OddEvents
  <2>5. numExtChannels_' \in Int /\ accepted' \in Nat
    BY <2>1 DEF TypeOK
  <2>6. IterSound'
    BY <2>1 DEF IterSound
  <2> QED
    BY <1>2, <2>1, <2>2, <2>3, <2>4, <2>5, <2>6 DEF TypeOK
<1>6. CASE AcceptOpenFails(a, s, h, c)
  <2>1. /\ hnd' = [hnd EXCEPT ![h] = ClosedHandler(c)]
        /\ \/ chan' = [chan EXCEPT ![c] = nc]
           \/ chan' = [chan EXCEPT ![c] = FreedChannel(FALSE)]
        /\ \/ channelMap_' = [channelMap_ EXCEPT ![regAddr] = c]
           \/ channelMap_' = [channelMap_ EXCEPT ![deregAddr] = NULL]
        /\ numExtChannels_' \in {numExtChannels_ + 1, numExtChannels_ - 1}
        /\ freeCount' = freeCount \/ freeCount' = [freeCount EXCEPT ![h] = @ + 1]
        /\ accepted' = accepted + 1 /\ odd' = odd \cup {"open"}
        /\ UNCHANGED <<regAddr, deregAddr, listening, phase, iter>>
        /\ phase = "events"
    BY <1>6 DEF AcceptOpenFails, AcceptEnabled, nc
  <2>0. chan \in [Chan -> ChannelRecord] /\ hnd \in [Handler -> HandlerRecord]
    BY DEF TypeOK
  <2>a. chan' \in [Chan -> ChannelRecord]
    BY <1>3, <2>0, <2>1
  <2>2. hnd' \in [Handler -> HandlerRecord] /\ chan' \in [Chan -> ChannelRecord]
    BY <1>3, <2>0, <2>1, <2>a
  <2>3. channelMap_' \in [Key -> Chan \cup {NULL}]
    BY <1>2, <2>1 DEF TypeOK
  <2>4. freeCount' \in [Handler -> Nat] /\ numExtChannels_' \in Int
    BY <2>1 DEF TypeOK
  <2>5. odd' \subseteq OddEvents
    BY <2>1 DEF TypeOK, OddEvents
  <2> QED
    BY <1>2, <2>1, <2>2, <2>3, <2>4, <2>5 DEF TypeOK, IterSound
<1>7. CASE AcceptReissue(a, s, h, c)
  BY <1>7 DEF AcceptReissue, Crash, TypeOK, IterSound
<1> QED
  BY <1>1, <1>4, <1>5, <1>6, <1>7

\* The two loops keep the types and leave the iterator at an entry or the end.
LEMMA LoopType ==
  ASSUME NIAssumption, TypeOK, IterSound, Sweep \/ Packets
  PROVE  TypeOK' /\ IterSound'
<1> DEFINE c == channelMap_[iter]
<1>1. CASE BeginSweep \/ BeginPackets
  <2>1. iter' \in Registered(channelMap_) \cup {NULL}
    BY <1>1, SuccessorType DEF BeginSweep, BeginPackets
  <2>2. Registered(channelMap_) \subseteq Key
    BY DEF Registered
  <2> QED
    BY <1>1, <2>1, <2>2 DEF BeginSweep, BeginPackets, TypeOK, IterSound, Registered
<1>2. CASE SweepKeeps \/ PacketsPass
  <2>1. /\ iter # NULL /\ phase \in {"sweep", "packets"} /\ Advance
        /\ UNCHANGED <<channelMap_, numExtChannels_, chan, hnd, freeCount,
                       regAddr, deregAddr, listening, accepted, odd>>
    BY <1>2 DEF SweepKeeps, PacketsPass
  <2>2. channelMap_' \in [Key -> Chan \cup {NULL}]
    BY <2>1 DEF TypeOK
  <2> QED
    BY <2>1, <2>2, AdvanceSound DEF TypeOK
<1>3. CASE SweepFlushes \/ SweepOverflows
  <2>1. /\ iter # NULL /\ phase \in {"sweep", "packets"} /\ Advance
        /\ \/ chan' = [chan EXCEPT ![c].buffered = FALSE]
           \/ chan' = [chan EXCEPT ![c].condemned = TRUE]
        /\ UNCHANGED <<channelMap_, numExtChannels_, hnd, freeCount,
                       regAddr, deregAddr, listening, accepted, odd>>
    BY <1>3 DEF SweepFlushes, SweepOverflows
  <2>2. channelMap_' \in [Key -> Chan \cup {NULL}]
    BY <2>1 DEF TypeOK
  <2>3. c \in Chan
    BY <2>1, AtEntry
  <2>4. chan' \in [Chan -> ChannelRecord]
    <3> HIDE DEF c
    <3>1. CASE chan' = [chan EXCEPT ![c].buffered = FALSE]
      BY <2>3, <3>1, FlagType, FALSE \in BOOLEAN
    <3>2. CASE chan' = [chan EXCEPT ![c].condemned = TRUE]
      BY <2>3, <3>2, FlagType, TRUE \in BOOLEAN
    <3> QED
      BY <2>1, <3>1, <3>2
  <2> QED
    BY <2>1, <2>2, <2>4, AdvanceSound DEF TypeOK
<1>4. CASE SweepKills
  <2>1. /\ iter # NULL /\ phase \in {"sweep", "packets"} /\ Advance
        /\ Dies(c, c)
        /\ UNCHANGED <<regAddr, listening, accepted>>
    BY <1>4 DEF SweepKills
  <2>2. c \in Chan
    BY <2>1, AtEntry
  <2> QED
    BY <2>1, <2>2, DiesType, AdvanceSound DEF TypeOK
<1>5. CASE PacketsDrop
  <2>1. /\ iter # NULL /\ phase \in {"sweep", "packets"}
        /\ numExtChannels_' = numExtChannels_ - 1
        /\ chan' = [chan EXCEPT ![c].destroyed = TRUE]
        /\ UNCHANGED <<hnd, freeCount, regAddr, listening, accepted>>
    BY <1>5 DEF PacketsDrop
  <2>2. c \in Chan
    BY <2>1, AtEntry
  <2>3. PICK r \in RemoteAddr(chan[c].ep, deregAddr) :
          /\ channelMap_' = [channelMap_ EXCEPT ![r.key] = NULL]
          /\ deregAddr' = r.key
          /\ odd' = odd \cup {"packets"} \cup IF r.stale THEN {"peername"} ELSE {}
    BY <1>5 DEF PacketsDrop
  <2>4. r.key \in Key
    BY <2>3 DEF RemoteAddr
  <2>5. chan' \in [Chan -> ChannelRecord]
    BY <2>1, <2>2, FlagType
  <2>6. channelMap_' \in [Key -> Chan \cup {NULL}] /\ odd' \subseteq OddEvents
    BY <2>3, <2>4 DEF TypeOK, OddEvents
  <2>7. PICK next \in Successor(channelMap_, iter) :
          \/ /\ next \in Registered(channelMap_') \cup {NULL}
             /\ iter' = next
             /\ UNCHANGED phase
          \/ /\ phase' = "crashed"
             /\ UNCHANGED iter
    BY <1>5 DEF PacketsDrop
  <2>8. next \in Key \cup {NULL}
    BY SuccessorType DEF Registered
  <2>9. IterSound'
    BY <2>7 DEF IterSound
  <2> QED
    BY <2>1, <2>3, <2>4, <2>5, <2>6, <2>7, <2>8, <2>9 DEF TypeOK
<1>6. CASE PacketsDangling
  BY <1>6 DEF PacketsDangling, Crash, TypeOK, IterSound
<1> QED
  BY <1>1, <1>2, <1>3, <1>4, <1>5, <1>6 DEF Sweep, Packets

\* Every step keeps the types and the iterator sound, on its own: the types do
\* not depend on the two promises below.
LEMMA TypeStep ==
  ASSUME NIAssumption, TypeOK, IterSound, [Next]_vars
  PROVE  TypeOK' /\ IterSound'
<1>1. CASE AcceptStep
  BY <1>1, AcceptType
<1>2. ASSUME NEW h \in Handler, HandleInput(h)
      PROVE  TypeOK' /\ IterSound'
  <2> DEFINE c == hnd[h].pChannel_
  <2>1. Readable(h)
    BY <1>2 DEF HandleInput, RecvData, RecvViolation, RecvCondemned, RecvEnd
  <2>2. c \in Chan /\ phase = "events"
    BY <2>1 DEF Readable, TypeOK, HandlerRecord
  <2>3. CASE RecvData(h)
    <3>1. /\ chan' = [chan EXCEPT ![c].idle = FALSE, ![c].buffered = TRUE]
          /\ UNCHANGED <<channelMap_, numExtChannels_, hnd, freeCount, regAddr,
                         deregAddr, listening, phase, iter, accepted, odd>>
      BY <2>3 DEF RecvData
    <3> HIDE DEF c
    <3>4. chan' \in [Chan -> ChannelRecord]
      BY <2>2, <3>1, HeardType
    <3> QED
      BY <2>2, <3>1, <3>4 DEF TypeOK, IterSound
  <2>4. CASE \E p \in Chan \cup {NULL} :
               /\ Dies(c, p)
               /\ UNCHANGED <<regAddr, listening, phase, iter, accepted>>
    BY <2>2, <2>4, DiesType DEF TypeOK, IterSound
  <2> QED
    BY <1>2, <2>2, <2>3, <2>4
    DEF HandleInput, RecvViolation, RecvCondemned, RecvEnd
<1>3. ASSUME NEW c \in Chan, HandleTimeout(c)
      PROVE  TypeOK' /\ IterSound'
  <2>1. CASE TimerStillActive(c)
    <3> DEFINE p == hnd[chan[c].timer].pChannel_
    <3>1. p \in Chan
      BY <2>1 DEF TimerStillActive, TypeOK, ChannelRecord, HandlerRecord
    <3>2. /\ chan' = [chan EXCEPT ![p].idle = TRUE]
          /\ phase = "events"
          /\ UNCHANGED <<channelMap_, numExtChannels_, hnd, freeCount, regAddr,
                         deregAddr, listening, phase, iter, accepted, odd>>
      BY <2>1 DEF TimerStillActive
    <3> HIDE DEF p
    <3>3. chan' \in [Chan -> ChannelRecord]
      BY <3>1, <3>2, FlagType, TRUE \in BOOLEAN
    <3> QED
      BY <3>2, <3>3 DEF TypeOK, IterSound
  <2>2. CASE TimerExpires(c)
    <3>1. phase = "events" /\ UNCHANGED phase
      BY <2>2, Zenon DEF TimerExpires
    <3> QED
      BY <2>2, <3>1, ExpiresType DEF IterSound
  <2>3. CASE TimerDangling(c)
    BY <2>3 DEF TimerDangling, Crash, TypeOK, IterSound
  <2> QED
    BY <1>3, <2>1, <2>2, <2>3 DEF HandleTimeout
<1>4. CASE Sweep \/ Packets
  BY <1>4, LoopType
<1>5. CASE EndLoop
  BY <1>5 DEF EndLoop, TypeOK, IterSound
<1>6. CASE CloseListeners
  BY <1>6 DEF CloseListeners, TypeOK, IterSound
<1>7. CASE Shutdown
  <2>1. /\ chan' = [c \in Chan |->
                IF \E k \in Key : channelMap_[k] = c
                THEN [chan[c] EXCEPT !.destroyed = TRUE] ELSE chan[c]]
        /\ channelMap_' = [k \in Key |-> NULL]
        /\ numExtChannels_' = 0 /\ listening' = {} /\ phase' = "stopped"
        /\ UNCHANGED <<hnd, freeCount, regAddr, deregAddr, iter, accepted, odd>>
    BY <1>7 DEF Shutdown
  <2>2. ASSUME NEW c \in Chan
        PROVE  /\ [chan[c] EXCEPT !.destroyed = TRUE] \in ChannelRecord
               /\ chan[c] \in ChannelRecord
    <3>1. chan[c] \in ChannelRecord
      BY DEF TypeOK
    <3> QED
      BY <3>1 DEF ChannelRecord
  <2>3. chan' \in [Chan -> ChannelRecord]
    BY <2>1, <2>2
  <2>4. channelMap_' \in [Key -> Chan \cup {NULL}]
    BY <2>1
  <2> QED
    BY <2>1, <2>3, <2>4 DEF TypeOK, IterSound
<1>8. ASSUME NEW h \in Handler, PeerCloses(h) \/ PeerResets(h)
      PROVE  TypeOK' /\ IterSound'
  <2>1. /\ \/ hnd' = [hnd EXCEPT ![h].peer = "fin"]
           \/ hnd' = [hnd EXCEPT ![h].peer = "reset"]
        /\ phase = "events"
        /\ UNCHANGED <<channelMap_, numExtChannels_, chan, freeCount, regAddr,
                       deregAddr, listening, phase, iter, accepted, odd>>
    BY <1>8 DEF PeerCloses, PeerResets
  <2>2. hnd' \in [Handler -> HandlerRecord]
    <3>1. /\ [hnd[h] EXCEPT !.peer = "fin"] \in HandlerRecord
          /\ [hnd[h] EXCEPT !.peer = "reset"] \in HandlerRecord
      BY DEF TypeOK, HandlerRecord
    <3>2. hnd \in [Handler -> HandlerRecord]
      BY DEF TypeOK
    <3> QED
      BY <2>1, <3>1, <3>2
  <2> QED
    BY <2>1, <2>2 DEF TypeOK, IterSound
<1>9. CASE UNCHANGED vars
  BY <1>9 DEF vars, TypeOK, IterSound
<1> QED
  BY <1>1, <1>2, <1>3, <1>4, <1>5, <1>6, <1>7, <1>8, <1>9 DEF Next

LEMMA InitType ==
  ASSUME NIAssumption, Init
  PROVE  TypeOK /\ IterSound
<1>1. FreedChannel(FALSE) \in ChannelRecord /\ ClosedHandler(NULL) \in HandlerRecord
  BY DEF FreedChannel, ClosedHandler, ChannelRecord, HandlerRecord, Scope
<1>2. /\ chan \in [Chan -> ChannelRecord] /\ hnd \in [Handler -> HandlerRecord]
      /\ channelMap_ \in [Key -> Chan \cup {NULL}]
      /\ freeCount \in [Handler -> Nat]
  BY <1>1 DEF Init
<1>3. /\ numExtChannels_ \in Int /\ accepted \in Nat
      /\ regAddr \in Key /\ deregAddr \in Key
      /\ listening \subseteq Listeners /\ odd \subseteq OddEvents
      /\ iter \in Key \cup {NULL}
  BY DEF Init, Key, ANY
<1>4. phase = "events"
  BY DEF Init
<1> QED
  BY <1>2, <1>3, <1>4 DEF TypeOK, IterSound

\* The types hold in every reachable state, for any sets of addresses, handlers
\* and channels; so does the loops' iterator's soundness, which they rest on.
THEOREM TypeCorrect == Spec => []TypeOK
<1>1. Init => TypeOK /\ IterSound
  BY InitType, NIAssumption
<1>2. TypeOK /\ IterSound /\ [Next]_vars => TypeOK' /\ IterSound'
  BY TypeStep, NIAssumption
<1> QED
  BY <1>1, <1>2, PTL DEF Spec

-----------------------------------------------------------------------------

\* A step that at most removes entries, does not touch the free list, and of
\* channels and handlers changes only what the two promises do not mention,
\* keeps both.  A channel may be flagged destroyed once its entry is gone.
LEMMA FlagsKeepSound ==
  ASSUME TypeOK, TypeOK', Clean, RegistrySound, CallbacksSound,
         UNCHANGED freeCount,
         \A k \in Registered(channelMap_)' :
           /\ channelMap_'[k] = channelMap_[k]
           /\ chan'[channelMap_[k]].destroyed = chan[channelMap_[k]].destroyed,
         \A c \in Chan :
           /\ chan'[c].used = chan[c].used /\ chan'[c].ep = chan[c].ep
           /\ chan'[c].timer = chan[c].timer,
         \A h \in Handler :
           /\ hnd'[h].sock = hnd[h].sock
           /\ hnd'[h].registered = hnd[h].registered
           /\ hnd'[h].pChannel_ = hnd[h].pChannel_
  PROVE  RegistrySound' /\ CallbacksSound'
<1>1. ASSUME NEW k \in Registered(channelMap_)'
      PROVE  EntrySound(k)'
  <2>1. k \in Registered(channelMap_) /\ channelMap_[k] \in Chan
    BY DEF Registered, TypeOK
  <2>2. EntrySound(k) /\ chan[channelMap_[k]].ep \in Handler
    BY <2>1 DEF RegistrySound, EntrySound, TypeOK, ChannelRecord
  <2> QED
    BY <2>1, <2>2 DEF EntrySound
<1>2. ASSUME NEW h \in Handler
      PROVE  /\ freeCount'[h] = (IF hnd'[h].sock = NULL THEN 1 ELSE 0)
             /\ hnd'[h].registered <=> hnd'[h].sock # NULL
             /\ hnd'[h].registered =>
                  /\ hnd'[h].pChannel_ # NULL
                  /\ chan'[hnd'[h].pChannel_].used
                  /\ chan'[hnd'[h].pChannel_].ep = h
                  /\ chan'[hnd'[h].pChannel_].timer = h
  <2>1. hnd[h].pChannel_ \in Chan \cup {NULL}
    BY DEF TypeOK, HandlerRecord
  <2> QED
    BY <2>1 DEF CallbacksSound
<1>3. ASSUME NEW c \in Chan, chan'[c].timer # NULL
      PROVE  hnd'[chan'[c].timer].registered /\ hnd'[chan'[c].timer].pChannel_ = c
  <2>1. chan[c].timer \in Handler
    BY <1>3 DEF TypeOK, ChannelRecord
  <2> QED
    BY <1>3, <2>1 DEF CallbacksSound
<1> QED
  BY <1>1, <1>2, <1>3 DEF RegistrySound, CallbacksSound

\* The heart of the argument.  Whoever closes a connection (the receive path,
\* the sweep or the timer) erases the address of the socket it closes and
\* disarms the timer of the channel that owns it: no other entry, handler or
\* timer leads to either, so none is left dangling.
LEMMA CloseKeepsSound ==
  ASSUME TypeOK, TypeOK', Clean, RegistrySound, CallbacksSound,
         NEW c \in Chan, NEW h \in Handler, NEW p,
         hnd[h].registered, hnd[h].pChannel_ = c,
         channelMap_' = [channelMap_ EXCEPT ![hnd[h].sock] = NULL],
         hnd' = [hnd EXCEPT ![h] = ClosedHandler(p)],
         freeCount' = [freeCount EXCEPT ![h] = @ + 1],
         chan'[c].timer = NULL,
         \A d \in Chan \ {c} : chan'[d] = chan[d]
  PROVE  RegistrySound' /\ CallbacksSound'
<1>1. chan[c].ep = h /\ chan[c].timer = h /\ hnd[h].sock # NULL /\ freeCount[h] = 0
  BY DEF CallbacksSound
<1>2. /\ hnd'[h].sock = NULL /\ hnd'[h].registered = FALSE /\ freeCount'[h] = 1
      /\ \A g \in Handler \ {h} : hnd'[g] = hnd[g] /\ freeCount'[g] = freeCount[g]
  BY <1>1 DEF TypeOK, ClosedHandler
<1>3. ASSUME NEW k \in Registered(channelMap_)'
      PROVE  EntrySound(k)'
  <2>1. /\ k \in Registered(channelMap_) /\ channelMap_[k] \in Chan
        /\ k # hnd[h].sock /\ channelMap_'[k] = channelMap_[k]
    BY DEF Registered, TypeOK
  <2>2. EntrySound(k) /\ chan[channelMap_[k]].ep \in Handler
    BY <2>1 DEF RegistrySound, EntrySound, TypeOK, ChannelRecord
  <2>3. channelMap_[k] # c
    BY <1>1, <2>1, <2>2 DEF EntrySound
  <2>4. chan[channelMap_[k]].ep # h
    BY <2>1, <2>2 DEF EntrySound
  <2> QED
    BY <1>2, <2>1, <2>2, <2>3, <2>4 DEF EntrySound
<1>4. ASSUME NEW g \in Handler
      PROVE  /\ freeCount'[g] = (IF hnd'[g].sock = NULL THEN 1 ELSE 0)
             /\ hnd'[g].registered <=> hnd'[g].sock # NULL
             /\ hnd'[g].registered =>
                  /\ hnd'[g].pChannel_ # NULL
                  /\ chan'[hnd'[g].pChannel_].used
                  /\ chan'[hnd'[g].pChannel_].ep = g
                  /\ chan'[hnd'[g].pChannel_].timer = g
  <2>1. hnd[g].pChannel_ \in Chan \cup {NULL}
    BY DEF TypeOK, HandlerRecord
  <2>2. CASE g = h
    BY <1>2, <2>2
  <2>3. CASE g # h
    <3>1. hnd[g].registered => hnd[g].pChannel_ # c
      BY <1>1, <2>3 DEF CallbacksSound
    <3> QED
      BY <1>2, <2>1, <2>3, <3>1 DEF CallbacksSound
  <2> QED
    BY <2>2, <2>3
<1>5. ASSUME NEW d \in Chan, chan'[d].timer # NULL
      PROVE  hnd'[chan'[d].timer].registered /\ hnd'[chan'[d].timer].pChannel_ = d
  <2>1. d # c
    BY <1>5
  <2>2. chan'[d] = chan[d] /\ chan[d].timer \in Handler
    BY <1>5, <2>1 DEF TypeOK, ChannelRecord
  <2>3. hnd[chan[d].timer].registered /\ hnd[chan[d].timer].pChannel_ = d
    BY <1>5, <2>2 DEF CallbacksSound
  <2> QED
    BY <1>2, <2>1, <2>2, <2>3
<1> QED
  BY <1>3, <1>4, <1>5 DEF RegistrySound, CallbacksSound

\* The pool gives a channel up for its handler: the receive path and the sweep.
LEMMA DiesKeepsSound ==
  ASSUME TypeOK, TypeOK', Clean, Clean', RegistrySound, CallbacksSound,
         NEW c \in Chan, NEW h \in Handler, NEW p,
         hnd[h].registered, hnd[h].pChannel_ = c, Dies(c, p)
  PROVE  RegistrySound' /\ CallbacksSound'
<1>1. chan[c].ep = h
  BY DEF CallbacksSound
<1>2. PICK r \in RemoteAddr(h, deregAddr) :
        /\ channelMap_' = [channelMap_ EXCEPT ![r.key] = NULL]
        /\ odd' = IF r.stale THEN odd \cup {"peername"} ELSE odd
  BY <1>1 DEF Dies, deregister_channel
<1>3. r.key = hnd[h].sock
  BY <1>2 DEF RemoteAddr, Clean
<1>4. /\ hnd' = [hnd EXCEPT ![h] = ClosedHandler(p)]
      /\ freeCount' = [freeCount EXCEPT ![h] = @ + 1]
      /\ chan' = [chan EXCEPT ![c] = FreedChannel(TRUE)]
  BY <1>1 DEF Dies, handle_close
<1>5. chan'[c].timer = NULL /\ \A d \in Chan \ {c} : chan'[d] = chan[d]
  BY <1>4 DEF TypeOK, FreedChannel
<1> QED
  BY <1>2, <1>3, <1>4, <1>5, CloseKeepsSound

\* on_channel_timeout, called for the timer of channel c, closes c itself.
LEMMA ExpiresKeepsSound ==
  ASSUME TypeOK, TypeOK', Clean, Clean', RegistrySound, CallbacksSound,
         NEW c \in Chan, TimerExpires(c)
  PROVE  RegistrySound' /\ CallbacksSound'
<1> DEFINE h == chan[c].timer
<1>1. h # NULL
  BY Zenon DEF TimerExpires
<1>2. h \in Handler /\ hnd[h].registered /\ hnd[h].pChannel_ = c
  BY <1>1 DEF CallbacksSound, TypeOK, ChannelRecord
<1>3. chan[c].ep = h
  BY <1>2 DEF CallbacksSound
<1>4. /\ deregister_channel(h)
      /\ hnd' = [hnd EXCEPT ![h] = ClosedHandler(c)]
      /\ freeCount' = [freeCount EXCEPT ![h] = @ + 1]
      /\ chan' = [chan EXCEPT ![c].timer = NULL]
  BY <1>2, <1>3 DEF TimerExpires, handle_close
<1> HIDE DEF h
<1>5. PICK r \in RemoteAddr(h, deregAddr) :
        /\ channelMap_' = [channelMap_ EXCEPT ![r.key] = NULL]
        /\ odd' = IF r.stale THEN odd \cup {"peername"} ELSE odd
  BY <1>4 DEF deregister_channel
<1>6. r.key = hnd[h].sock
  BY <1>5 DEF RemoteAddr, Clean
<1>7. chan'[c].timer = NULL /\ \A d \in Chan \ {c} : chan'[d] = chan[d]
  BY <1>4 DEF TypeOK, ChannelRecord
<1> QED
  BY <1>2, <1>4, <1>5, <1>6, <1>7, CloseKeepsSound

\* A new connection takes a handler and a channel nobody points at.
LEMMA RegisterKeepsSound ==
  ASSUME NIAssumption, TypeOK, TypeOK', Clean, RegistrySound, CallbacksSound,
         NEW a \in Addr, NEW s \in Listeners, NEW h \in Handler, NEW c \in Chan,
         AcceptRegister(a, s, h, c)
  PROVE  RegistrySound' /\ CallbacksSound'
<1>1. /\ hnd' = [hnd EXCEPT ![h] = NewHandler(a, s, c)]
      /\ freeCount' = [freeCount EXCEPT ![h] = @ - 1]
      /\ chan' = [chan EXCEPT ![c] = [NewChannel(h, s) EXCEPT !.scope = "EXTERNAL"]]
      /\ channelMap_' = [channelMap_ EXCEPT ![a] = c]
      /\ hnd[h].sock = NULL /\ ~chan[c].used
  BY DEF AcceptRegister, AcceptEnabled
<1>2. a # NULL /\ a \in Key /\ c # NULL /\ h # NULL
  BY DEF NIAssumption, Key
<1>3. ~hnd[h].registered /\ freeCount[h] = 1
  BY <1>1 DEF CallbacksSound
<1>4. /\ hnd'[h].sock = a /\ hnd'[h].registered /\ hnd'[h].pChannel_ = c
      /\ freeCount'[h] = 0
      /\ \A g \in Handler \ {h} : hnd'[g] = hnd[g] /\ freeCount'[g] = freeCount[g]
  BY <1>1, <1>3 DEF TypeOK, NewHandler
<1>5. /\ chan'[c].used /\ chan'[c].ep = h /\ chan'[c].timer = h
      /\ ~chan'[c].destroyed
      /\ \A d \in Chan \ {c} : chan'[d] = chan[d]
  BY <1>1 DEF TypeOK, NewChannel
<1>6. ASSUME NEW k \in Registered(channelMap_)'
      PROVE  EntrySound(k)'
  <2>1. CASE k = a
    <3>1. channelMap_'[k] = c
      BY <1>1, <1>2, <2>1 DEF TypeOK
    <3> QED
      BY <1>2, <1>4, <1>5, <2>1, <3>1 DEF EntrySound
  <2>2. CASE k # a
    <3>1. /\ k \in Registered(channelMap_) /\ channelMap_[k] \in Chan
          /\ channelMap_'[k] = channelMap_[k]
      BY <1>1, <2>2 DEF Registered, TypeOK
    <3>2. EntrySound(k) /\ chan[channelMap_[k]].ep \in Handler
      BY <3>1 DEF RegistrySound, EntrySound, TypeOK, ChannelRecord
    <3>3. channelMap_[k] # c /\ chan[channelMap_[k]].ep # h
      BY <1>1, <1>3, <3>1, <3>2 DEF EntrySound
    <3> QED
      BY <1>4, <1>5, <3>1, <3>2, <3>3 DEF EntrySound
  <2> QED
    BY <2>1, <2>2
<1>7. ASSUME NEW g \in Handler
      PROVE  /\ freeCount'[g] = (IF hnd'[g].sock = NULL THEN 1 ELSE 0)
             /\ hnd'[g].registered <=> hnd'[g].sock # NULL
             /\ hnd'[g].registered =>
                  /\ hnd'[g].pChannel_ # NULL
                  /\ chan'[hnd'[g].pChannel_].used
                  /\ chan'[hnd'[g].pChannel_].ep = g
                  /\ chan'[hnd'[g].pChannel_].timer = g
  <2>1. hnd[g].pChannel_ \in Chan \cup {NULL}
    BY DEF TypeOK, HandlerRecord
  <2>2. CASE g = h
    BY <1>2, <1>4, <1>5, <2>2
  <2>3. CASE g # h
    <3>1. hnd[g].registered => hnd[g].pChannel_ # c
      BY <1>1 DEF CallbacksSound
    <3> QED
      BY <1>4, <1>5, <2>1, <2>3, <3>1 DEF CallbacksSound
  <2> QED
    BY <2>2, <2>3
<1>8. ASSUME NEW d \in Chan, chan'[d].timer # NULL
      PROVE  hnd'[chan'[d].timer].registered /\ hnd'[chan'[d].timer].pChannel_ = d
  <2>1. CASE d = c
    BY <1>4, <1>5, <2>1
  <2>2. CASE d # c
    <3>1. chan'[d] = chan[d] /\ chan[d].timer \in Handler
      BY <1>5, <1>8, <2>2 DEF TypeOK, ChannelRecord
    <3>2. hnd[chan[d].timer].registered /\ hnd[chan[d].timer].pChannel_ = d
      BY <1>8, <3>1 DEF CallbacksSound
    <3> QED
      BY <1>3, <1>4, <3>1, <3>2
  <2> QED
    BY <2>1, <2>2
<1> QED
  BY <1>6, <1>7, <1>8 DEF RegistrySound, CallbacksSound

\* A colliding connection takes a free handler and a free channel and leaves
\* them free.  The entry of the other channel goes; that channel lives on.
LEMMA DuplicateKeepsSound ==
  ASSUME NIAssumption, TypeOK, TypeOK', Clean, RegistrySound, CallbacksSound,
         NEW a \in Addr, NEW s \in Listeners, NEW h \in Handler, NEW c \in Chan,
         AcceptDuplicate(a, s, h, c)
  PROVE  RegistrySound' /\ CallbacksSound'
<1>1. /\ hnd' = [hnd EXCEPT ![h] = ClosedHandler(c)]
      /\ chan' = [chan EXCEPT ![c] = FreedChannel(FALSE)]
      /\ channelMap_' = [channelMap_ EXCEPT ![a] = NULL]
      /\ freeCount' = freeCount
      /\ hnd[h].sock = NULL /\ ~chan[c].used
  BY DEF AcceptDuplicate, AcceptEnabled
<1>2. ~hnd[h].registered /\ freeCount[h] = 1
  BY <1>1 DEF CallbacksSound
<1>3. /\ hnd'[h].sock = NULL /\ hnd'[h].registered = FALSE
      /\ freeCount' = freeCount
      /\ \A g \in Handler \ {h} : hnd'[g] = hnd[g]
  BY <1>1 DEF TypeOK, ClosedHandler
<1>4. chan'[c].timer = NULL /\ \A d \in Chan \ {c} : chan'[d] = chan[d]
  BY <1>1 DEF TypeOK, FreedChannel
<1>5. ASSUME NEW k \in Registered(channelMap_)'
      PROVE  EntrySound(k)'
  <2>1. /\ k \in Registered(channelMap_) /\ channelMap_[k] \in Chan
        /\ channelMap_'[k] = channelMap_[k]
    BY <1>1 DEF Registered, TypeOK
  <2>2. EntrySound(k) /\ chan[channelMap_[k]].ep \in Handler
    BY <2>1 DEF RegistrySound, EntrySound, TypeOK, ChannelRecord
  <2>3. channelMap_[k] # c /\ chan[channelMap_[k]].ep # h
    BY <1>1, <1>2, <2>1, <2>2 DEF EntrySound
  <2> QED
    BY <1>3, <1>4, <2>1, <2>2, <2>3 DEF EntrySound
<1>6. ASSUME NEW g \in Handler
      PROVE  /\ freeCount'[g] = (IF hnd'[g].sock = NULL THEN 1 ELSE 0)
             /\ hnd'[g].registered <=> hnd'[g].sock # NULL
             /\ hnd'[g].registered =>
                  /\ hnd'[g].pChannel_ # NULL
                  /\ chan'[hnd'[g].pChannel_].used
                  /\ chan'[hnd'[g].pChannel_].ep = g
                  /\ chan'[hnd'[g].pChannel_].timer = g
  <2>1. hnd[g].pChannel_ \in Chan \cup {NULL}
    BY DEF TypeOK, HandlerRecord
  <2>2. CASE g = h
    BY <1>1, <1>2, <1>3, <2>2
  <2>3. CASE g # h
    <3>1. hnd[g].registered => hnd[g].pChannel_ # c
      BY <1>1 DEF CallbacksSound
    <3> QED
      BY <1>3, <1>4, <2>1, <2>3, <3>1 DEF CallbacksSound
  <2> QED
    BY <2>2, <2>3
<1>7. ASSUME NEW d \in Chan, chan'[d].timer # NULL
      PROVE  hnd'[chan'[d].timer].registered /\ hnd'[chan'[d].timer].pChannel_ = d
  <2>1. d # c
    BY <1>4, <1>7
  <2>2. chan'[d] = chan[d] /\ chan[d].timer \in Handler
    BY <1>4, <1>7, <2>1 DEF TypeOK, ChannelRecord
  <2>3. hnd[chan[d].timer].registered /\ hnd[chan[d].timer].pChannel_ = d
    BY <1>7, <2>2 DEF CallbacksSound
  <2> QED
    BY <1>2, <1>3, <2>2, <2>3
<1> QED
  BY <1>5, <1>6, <1>7 DEF RegistrySound, CallbacksSound

\* The packet loop drops the entry of the channel it flags destroyed, and no
\* other entry names that channel.
LEMMA DropKeepsSound ==
  ASSUME TypeOK, TypeOK', IterSound, Clean, Clean', RegistrySound, CallbacksSound,
         PacketsDrop
  PROVE  RegistrySound' /\ CallbacksSound'
<1> DEFINE c == channelMap_[iter]
<1>1. /\ iter # NULL /\ phase \in {"sweep", "packets"}
      /\ chan' = [chan EXCEPT ![c].destroyed = TRUE]
      /\ UNCHANGED <<hnd, freeCount>>
  BY DEF PacketsDrop
<1>2. iter \in Registered(channelMap_) /\ c \in Chan
  BY <1>1, AtEntry DEF IterSound, Registered
<1>3. EntrySound(iter)
  BY <1>2 DEF RegistrySound
<1>4. PICK r \in RemoteAddr(chan[c].ep, deregAddr) :
        /\ channelMap_' = [channelMap_ EXCEPT ![r.key] = NULL]
        /\ odd' = odd \cup {"packets"} \cup IF r.stale THEN {"peername"} ELSE {}
  BY DEF PacketsDrop
<1>5. r.key = iter
  BY <1>3, <1>4 DEF RemoteAddr, Clean, EntrySound
<1>6. ASSUME NEW k \in Registered(channelMap_)'
      PROVE  /\ channelMap_'[k] = channelMap_[k]
             /\ chan'[channelMap_[k]].destroyed = chan[channelMap_[k]].destroyed
  <2>1. /\ k \in Registered(channelMap_) /\ channelMap_[k] \in Chan
        /\ k # iter /\ channelMap_'[k] = channelMap_[k]
    BY <1>4, <1>5 DEF Registered, TypeOK
  <2>2. EntrySound(k)
    BY <2>1 DEF RegistrySound
  <2>3. channelMap_[k] # c
    BY <1>3, <2>1, <2>2 DEF EntrySound
  <2> QED
    BY <1>1, <1>2, <2>1, <2>3 DEF TypeOK
<1>7. \A d \in Chan : /\ chan'[d].used = chan[d].used /\ chan'[d].ep = chan[d].ep
                      /\ chan'[d].timer = chan[d].timer
  BY <1>1, <1>2 DEF TypeOK, ChannelRecord
<1> QED
  BY <1>1, <1>6, <1>7, FlagsKeepSound

\* Every step keeps the two promises.
LEMMA SoundStep ==
  ASSUME NIAssumption, IInv, [Next]_vars
  PROVE  RegistrySound' /\ CallbacksSound'
<1> USE DEF IInv
<1>1. TypeOK' /\ IterSound'
  BY TypeStep
<1>2. SUFFICES ASSUME Clean'
               PROVE  RegistrySound' /\ CallbacksSound'
  BY DEF RegistrySound, CallbacksSound
<1>3. ASSUME odd' = odd,
             UNCHANGED <<channelMap_, freeCount>>,
             \A c \in Chan :
               /\ chan'[c].used = chan[c].used /\ chan'[c].ep = chan[c].ep
               /\ chan'[c].timer = chan[c].timer
               /\ chan'[c].destroyed = chan[c].destroyed,
             \A h \in Handler :
               /\ hnd'[h].sock = hnd[h].sock
               /\ hnd'[h].registered = hnd[h].registered
               /\ hnd'[h].pChannel_ = hnd[h].pChannel_
      PROVE  RegistrySound' /\ CallbacksSound'
  <2>1. Clean
    BY <1>2, <1>3 DEF Clean
  <2>2. \A k \in Registered(channelMap_)' :
          /\ channelMap_'[k] = channelMap_[k]
          /\ chan'[channelMap_[k]].destroyed = chan[channelMap_[k]].destroyed
    BY <1>3 DEF Registered, TypeOK
  <2> QED
    BY <1>1, <1>3, <2>1, <2>2, FlagsKeepSound
<1>4. CASE AcceptStep
  <2>1. PICK a \in Addr, s \in Listeners, h \in Handler, c \in Chan :
          \/ AcceptRegister(a, s, h, c) \/ AcceptDuplicate(a, s, h, c)
          \/ AcceptOpenFails(a, s, h, c) \/ AcceptReissue(a, s, h, c)
    BY <1>4 DEF AcceptStep
  <2>2. CASE AcceptRegister(a, s, h, c)
    <3>1. Clean
      BY <1>2, <2>2 DEF Clean, AcceptRegister
    <3> QED
      BY <1>1, <2>2, <3>1, RegisterKeepsSound
  <2>3. CASE AcceptDuplicate(a, s, h, c)
    <3>1. Clean
      BY <1>2, <2>3 DEF Clean, AcceptDuplicate
    <3> QED
      BY <1>1, <2>3, <3>1, DuplicateKeepsSound
  <2>4. CASE AcceptOpenFails(a, s, h, c)
    BY <1>2, <2>4 DEF Clean, AcceptOpenFails
  <2>5. CASE AcceptReissue(a, s, h, c)
    BY <1>3, <2>5 DEF AcceptReissue, Crash
  <2> QED
    BY <2>1, <2>2, <2>3, <2>4, <2>5
<1>5. ASSUME NEW h \in Handler, HandleInput(h)
      PROVE  RegistrySound' /\ CallbacksSound'
  <2> DEFINE c == hnd[h].pChannel_
  <2>1. Readable(h)
    BY <1>5 DEF HandleInput, RecvData, RecvViolation, RecvCondemned, RecvEnd
  <2>2. c \in Chan /\ hnd[h].registered
    BY <2>1 DEF Readable, TypeOK, HandlerRecord
  <2>3. CASE RecvData(h)
    <3>1. /\ chan' = [chan EXCEPT ![c].idle = FALSE, ![c].buffered = TRUE]
          /\ UNCHANGED <<channelMap_, hnd, freeCount, odd>>
      BY <2>3 DEF RecvData
    <3>2. \A d \in Chan :
            /\ chan'[d].used = chan[d].used /\ chan'[d].ep = chan[d].ep
            /\ chan'[d].timer = chan[d].timer
            /\ chan'[d].destroyed = chan[d].destroyed
      BY <2>2, <3>1 DEF TypeOK, ChannelRecord
    <3> QED
      BY <1>3, <3>1, <3>2
  <2>4. ASSUME NEW p \in Chan \cup {NULL}, Dies(c, p)
        PROVE  RegistrySound' /\ CallbacksSound'
    <3>1. Clean
      BY <1>2, <2>4 DEF Clean, Dies, deregister_channel
    <3> QED
      BY <1>1, <1>2, <2>2, <2>4, <3>1, DiesKeepsSound
  <2> QED
    BY <1>5, <2>2, <2>3, <2>4
    DEF HandleInput, RecvViolation, RecvCondemned, RecvEnd
<1>6. ASSUME NEW c \in Chan, HandleTimeout(c)
      PROVE  RegistrySound' /\ CallbacksSound'
  <2>1. CASE TimerStillActive(c)
    <3> DEFINE p == hnd[chan[c].timer].pChannel_
    <3>1. p \in Chan
      BY <2>1 DEF TimerStillActive, TypeOK, ChannelRecord, HandlerRecord
    <3>2. /\ chan' = [chan EXCEPT ![p].idle = TRUE]
          /\ UNCHANGED <<channelMap_, hnd, freeCount, odd>>
      BY <2>1 DEF TimerStillActive
    <3> HIDE DEF p
    <3>3. \A d \in Chan :
            /\ chan'[d].used = chan[d].used /\ chan'[d].ep = chan[d].ep
            /\ chan'[d].timer = chan[d].timer
            /\ chan'[d].destroyed = chan[d].destroyed
      BY <3>1, <3>2 DEF TypeOK, ChannelRecord
    <3> QED
      BY <1>3, <3>2, <3>3
  <2>2. CASE TimerExpires(c)
    <3>1. Clean
      BY <1>2, <2>2, Zenon DEF Clean, TimerExpires, deregister_channel
    <3> QED
      BY <1>1, <1>2, <2>2, <3>1, ExpiresKeepsSound
  <2>3. CASE TimerDangling(c)
    BY <1>3, <2>3 DEF TimerDangling, Crash
  <2> QED
    BY <1>6, <2>1, <2>2, <2>3 DEF HandleTimeout
<1>7. CASE \/ BeginSweep \/ SweepKeeps \/ BeginPackets \/ PacketsPass
           \/ PacketsDangling \/ EndLoop \/ CloseListeners \/ UNCHANGED vars
  BY <1>3, <1>7 DEF BeginSweep, SweepKeeps, BeginPackets, PacketsPass,
     PacketsDangling, Crash, EndLoop, CloseListeners, vars
<1>8. CASE SweepFlushes \/ SweepOverflows
  <2> DEFINE c == channelMap_[iter]
  <2>1. /\ iter # NULL /\ phase \in {"sweep", "packets"}
        /\ \/ chan' = [chan EXCEPT ![c].buffered = FALSE]
           \/ chan' = [chan EXCEPT ![c].condemned = TRUE]
        /\ UNCHANGED <<channelMap_, hnd, freeCount, odd>>
    BY <1>8 DEF SweepFlushes, SweepOverflows
  <2>2. c \in Chan
    BY <2>1, AtEntry
  <2> HIDE DEF c
  <2>3. \A d \in Chan :
          /\ chan'[d].used = chan[d].used /\ chan'[d].ep = chan[d].ep
          /\ chan'[d].timer = chan[d].timer
          /\ chan'[d].destroyed = chan[d].destroyed
    BY <2>1, <2>2 DEF TypeOK, ChannelRecord
  <2> QED
    BY <1>3, <2>1, <2>3
<1>9. CASE SweepKills
  <2> DEFINE c == channelMap_[iter]
             h == chan[c].ep
  <2>1. iter # NULL /\ phase \in {"sweep", "packets"} /\ Dies(c, c)
    BY <1>9 DEF SweepKills
  <2>2. Clean
    BY <1>2, <2>1 DEF Clean, Dies, deregister_channel
  <2>3. iter \in Registered(channelMap_) /\ c \in Chan
    BY <2>1, AtEntry DEF IterSound, Registered
  <2>4. EntrySound(iter)
    BY <2>2, <2>3 DEF RegistrySound
  <2>5. h \in Handler /\ hnd[h].registered /\ hnd[h].pChannel_ = c
    BY <2>3, <2>4 DEF EntrySound, TypeOK, ChannelRecord
  <2> QED
    BY <1>1, <1>2, <2>1, <2>2, <2>3, <2>5, DiesKeepsSound
<1>10. CASE PacketsDrop
  <2>1. Clean
    BY <1>2, <1>10 DEF Clean, PacketsDrop
  <2> QED
    BY <1>1, <1>2, <1>10, <2>1, DropKeepsSound
<1>11. CASE Shutdown
  <2>1. /\ chan' = [c \in Chan |->
                IF \E k \in Key : channelMap_[k] = c
                THEN [chan[c] EXCEPT !.destroyed = TRUE] ELSE chan[c]]
        /\ channelMap_' = [k \in Key |-> NULL]
        /\ UNCHANGED <<hnd, freeCount, odd>>
    BY <1>11 DEF Shutdown
  <2>2. Registered(channelMap_)' = {} /\ Clean
    BY <1>2, <2>1 DEF Registered, Clean
  <2>3. \A d \in Chan : /\ chan'[d].used = chan[d].used /\ chan'[d].ep = chan[d].ep
                        /\ chan'[d].timer = chan[d].timer
    BY <2>1 DEF TypeOK, ChannelRecord
  <2> QED
    BY <1>1, <2>1, <2>2, <2>3, FlagsKeepSound
<1>12. ASSUME NEW h \in Handler, PeerCloses(h) \/ PeerResets(h)
       PROVE  RegistrySound' /\ CallbacksSound'
  <2>1. /\ \/ hnd' = [hnd EXCEPT ![h].peer = "fin"]
           \/ hnd' = [hnd EXCEPT ![h].peer = "reset"]
        /\ UNCHANGED <<channelMap_, chan, freeCount, odd>>
    BY <1>12 DEF PeerCloses, PeerResets
  <2>2. \A g \in Handler :
          /\ hnd'[g].sock = hnd[g].sock
          /\ hnd'[g].registered = hnd[g].registered
          /\ hnd'[g].pChannel_ = hnd[g].pChannel_
    BY <2>1, SMTT(30) DEF TypeOK, HandlerRecord
  <2> QED
    BY <1>3, <2>1, <2>2
<1> QED
  BY <1>4, <1>5, <1>6, <1>7, <1>8, <1>9, <1>10, <1>11, <1>12
  DEF Next, Sweep, Packets

\* IInv is inductive.
THEOREM Inductive == Spec => []IInv
<1>1. Init => IInv
  <2> SUFFICES ASSUME Init PROVE IInv
    OBVIOUS
  <2>1. TypeOK /\ IterSound
    BY InitType, NIAssumption
  <2>2. RegistrySound
    BY DEF Init, RegistrySound, Registered
  <2>3. CallbacksSound
    BY DEF Init, CallbacksSound, FreedChannel, ClosedHandler
  <2> QED
    BY <2>1, <2>2, <2>3 DEF IInv
<1>2. IInv /\ [Next]_vars => IInv'
  BY TypeStep, SoundStep, NIAssumption DEF IInv
<1> QED
  BY <1>1, <1>2, PTL DEF Spec

\* Until open() or getpeername fails, no entry of channelMap_ dangles.
THEOREM RegistryIsSound == Spec => []RegistrySound
<1>1. IInv => RegistrySound
  BY DEF IInv
<1> QED
  BY <1>1, Inductive, PTL

\* Until open() or getpeername fails, the reactor never calls into a recycled
\* handler, and no handler slot is freed twice.
THEOREM CallbacksAreSound == Spec => []CallbacksSound
<1>1. IInv => CallbacksSound
  BY DEF IInv
<1> QED
  BY <1>1, Inductive, PTL

-----------------------------------------------------------------------------
(* The counter.  What a step may do to the registry and to the sockets.     *)

\* Nothing.
Untouched ==
  /\ UNCHANGED <<channelMap_, numExtChannels_, odd>>
  /\ phase = "stopped" => phase' = "stopped"
  /\ \A h \in Handler :
       hnd'[h].sock = hnd[h].sock /\ hnd'[h].pChannel_ = hnd[h].pChannel_

\* An address is erased and the counter goes down; unless something unusual
\* has happened it is the address of the socket that closes.
Erases(k) ==
  /\ channelMap_' = [channelMap_ EXCEPT ![k] = NULL]
  /\ numExtChannels_' = numExtChannels_ - 1
  /\ phase # "stopped" /\ odd \subseteq odd'
  /\ \/ odd' # {}
     \/ \E h \in Handler, p \in Chan \cup {NULL} :
          k = hnd[h].sock /\ hnd' = [hnd EXCEPT ![h] = ClosedHandler(p)]

\* A channel is entered under an address that was free.
Enters(k, c) ==
  /\ channelMap_[k] = NULL
  /\ channelMap_' = [channelMap_ EXCEPT ![k] = c]
  /\ numExtChannels_' = numExtChannels_ + 1
  /\ phase # "stopped" /\ odd \subseteq odd'
  /\ \/ odd' # {}
     \/ \E h \in Handler, s \in Scope : hnd' = [hnd EXCEPT ![h] = NewHandler(k, s, c)]

\* Everything goes.
Clears ==
  /\ channelMap_' = [k \in Key |-> NULL] /\ numExtChannels_' = 0
  /\ phase' = "stopped"

Effect ==
  \/ Untouched
  \/ \E k \in Key : Erases(k)
  \/ \E k \in Key, c \in Chan : Enters(k, c)
  \/ Clears

\* Whoever gives a channel up deregisters it.
LEMMA DiesErases ==
  ASSUME TypeOK, NEW c \in Chan, NEW p \in Chan \cup {NULL}, Dies(c, p),
         phase # "stopped"
  PROVE  \E k \in Key : Erases(k)
<1> DEFINE h == chan[c].ep
<1>1. h \in Handler
  BY DEF TypeOK, Dies, ChannelRecord
<1>2. PICK r \in RemoteAddr(h, deregAddr) :
        /\ channelMap_' = [channelMap_ EXCEPT ![r.key] = NULL]
        /\ numExtChannels_' = numExtChannels_ - 1
        /\ odd' = IF r.stale THEN odd \cup {"peername"} ELSE odd
  BY DEF Dies, deregister_channel
<1>3. r.key \in Key /\ (odd' # {} \/ r.key = hnd[h].sock)
  BY <1>2 DEF RemoteAddr
<1>4. hnd' = [hnd EXCEPT ![h] = ClosedHandler(p)]
  BY DEF Dies, handle_close
<1>5. Erases(r.key)
  BY <1>1, <1>2, <1>3, <1>4 DEF Erases
<1> QED
  BY <1>3, <1>5

\* So does the timer.
LEMMA ExpiresErases ==
  ASSUME TypeOK, NEW c \in Chan, TimerExpires(c)
  PROVE  \E k \in Key : Erases(k)
<1>1. PICK t \in Handler : t = chan[c].timer
  BY Zenon DEF TypeOK, TimerExpires, ChannelRecord
<1>2. PICK q \in Chan : q = hnd[t].pChannel_
  BY <1>1, Zenon DEF TypeOK, TimerExpires, HandlerRecord
<1>3. PICK h \in Handler : h = chan[q].ep
  BY <1>1, <1>2, Zenon DEF TypeOK, TimerExpires, ChannelRecord
<1>4. deregister_channel(h) /\ handle_close(h, hnd[h].pChannel_) /\ phase = "events"
  BY <1>1, <1>2, <1>3, Zenon DEF TimerExpires
<1>5. PICK r \in RemoteAddr(h, deregAddr) :
        /\ channelMap_' = [channelMap_ EXCEPT ![r.key] = NULL]
        /\ numExtChannels_' = numExtChannels_ - 1
        /\ odd' = IF r.stale THEN odd \cup {"peername"} ELSE odd
  BY <1>4 DEF deregister_channel
<1>6. r.key \in Key /\ (odd' # {} \/ r.key = hnd[h].sock)
  BY <1>5 DEF RemoteAddr
<1>7. hnd' = [hnd EXCEPT ![h] = ClosedHandler(hnd[h].pChannel_)]
  BY <1>4 DEF handle_close
<1>8. hnd[h].pChannel_ \in Chan \cup {NULL}
  BY DEF TypeOK, HandlerRecord
<1>9. Erases(r.key)
  BY <1>4, <1>5, <1>6, <1>7, <1>8 DEF Erases
<1> QED
  BY <1>6, <1>9

\* What the acceptor does.
LEMMA AcceptEffect ==
  ASSUME TypeOK, AcceptStep
  PROVE  Effect
<1>1. PICK a \in Addr, s \in Listeners, h \in Handler, c \in Chan :
          \/ AcceptRegister(a, s, h, c) \/ AcceptDuplicate(a, s, h, c)
          \/ AcceptOpenFails(a, s, h, c) \/ AcceptReissue(a, s, h, c)
  BY DEF AcceptStep
<1>2. a \in Key /\ s \in Scope
  BY NIAssumption DEF Key
<1>3. CASE AcceptRegister(a, s, h, c)
  <2>1. Enters(a, c)
    BY <1>2, <1>3 DEF AcceptRegister, AcceptEnabled, Enters
  <2> QED
    BY <1>2, <2>1 DEF Effect
<1>4. CASE AcceptDuplicate(a, s, h, c)
  <2>1. Erases(a)
    BY <1>4 DEF AcceptDuplicate, AcceptEnabled, Erases
  <2> QED
    BY <1>2, <2>1 DEF Effect
<1>5. CASE AcceptOpenFails(a, s, h, c)
  <2>1. regAddr \in Key /\ deregAddr \in Key
    BY DEF TypeOK
  <2>2. Enters(regAddr, c) \/ Erases(deregAddr)
    BY <1>5 DEF AcceptOpenFails, AcceptEnabled, Enters, Erases
  <2> QED
    BY <2>1, <2>2 DEF Effect
<1>6. CASE AcceptReissue(a, s, h, c)
  BY <1>6 DEF AcceptReissue, AcceptEnabled, Crash, Untouched, Effect
<1> QED
  BY <1>1, <1>3, <1>4, <1>5, <1>6

\* Every step has one of the four effects.
LEMMA StepEffect ==
  ASSUME IInv, [Next]_vars
  PROVE  Effect
<1>1. TypeOK
  BY DEF IInv
<1>2. CASE AcceptStep
  BY <1>1, <1>2, AcceptEffect
<1>3. ASSUME NEW h \in Handler, HandleInput(h) PROVE Effect
  <2> DEFINE c == hnd[h].pChannel_
  <2>1. c \in Chan /\ phase = "events"
    BY <1>1, <1>3 DEF HandleInput, RecvData, RecvViolation, RecvCondemned, RecvEnd,
                      Readable, TypeOK, HandlerRecord
  <2>2. CASE RecvData(h)
    BY <2>1, <2>2 DEF RecvData, Untouched, Effect
  <2>3. ASSUME NEW p \in Chan \cup {NULL}, Dies(c, p) PROVE Effect
    BY <1>1, <2>1, <2>3, DiesErases DEF Effect
  <2> QED
    BY <1>3, <2>1, <2>2, <2>3
    DEF HandleInput, RecvViolation, RecvCondemned, RecvEnd
<1>4. ASSUME NEW c \in Chan, HandleTimeout(c) PROVE Effect
  <2>1. CASE TimerExpires(c)
    BY <1>1, <2>1, ExpiresErases DEF Effect
  <2>2. CASE TimerStillActive(c) \/ TimerDangling(c)
    BY <2>2, Zenon DEF TimerStillActive, TimerDangling, Crash, Untouched, Effect
  <2> QED
    BY <1>4, <2>1, <2>2 DEF HandleTimeout
<1>5. CASE \/ BeginSweep \/ SweepKeeps \/ SweepFlushes \/ SweepOverflows
           \/ BeginPackets \/ PacketsPass \/ PacketsDangling
           \/ EndLoop \/ CloseListeners \/ UNCHANGED vars
  BY <1>5 DEF BeginSweep, SweepKeeps, SweepFlushes, SweepOverflows, BeginPackets,
     PacketsPass, PacketsDangling, Crash, EndLoop, CloseListeners, vars,
     Untouched, Effect
<1>6. CASE SweepKills
  <2>1. /\ iter # NULL /\ phase = "sweep"
        /\ Dies(channelMap_[iter], channelMap_[iter])
    BY <1>6 DEF SweepKills
  <2>2. channelMap_[iter] \in Chan
    BY <1>1, <2>1, AtEntry DEF IInv
  <2> QED
    BY <1>1, <2>1, <2>2, DiesErases DEF Effect
<1>7. CASE PacketsDrop
  <2>1. PICK r \in RemoteAddr(chan[channelMap_[iter]].ep, deregAddr) :
          /\ channelMap_' = [channelMap_ EXCEPT ![r.key] = NULL]
          /\ odd' = odd \cup {"packets"} \cup IF r.stale THEN {"peername"} ELSE {}
    BY <1>7 DEF PacketsDrop
  <2>2. r.key \in Key
    BY DEF RemoteAddr
  <2>3. Erases(r.key)
    BY <1>7, <2>1 DEF PacketsDrop, Erases
  <2> QED
    BY <2>2, <2>3 DEF Effect
<1>8. CASE Shutdown
  BY <1>8 DEF Shutdown, Clears, Effect
<1>9. ASSUME NEW h \in Handler, PeerCloses(h) \/ PeerResets(h) PROVE Effect
  <2>1. /\ \/ hnd' = [hnd EXCEPT ![h].peer = "fin"]
           \/ hnd' = [hnd EXCEPT ![h].peer = "reset"]
        /\ UNCHANGED <<channelMap_, numExtChannels_, odd, phase>>
    BY <1>9 DEF PeerCloses, PeerResets
  <2>2. \A g \in Handler :
          hnd'[g].sock = hnd[g].sock /\ hnd'[g].pChannel_ = hnd[g].pChannel_
    BY <1>1, <2>1 DEF TypeOK, HandlerRecord
  <2> QED
    BY <2>1, <2>2 DEF Untouched, Effect
<1> QED
  BY <1>2, <1>3, <1>4, <1>5, <1>6, <1>7, <1>8, <1>9 DEF Next, Sweep, Packets

\* Erasing an entry, if there is one, takes one from their number.
LEMMA ErasedCount ==
  ASSUME NEW m \in [Key -> Chan \cup {NULL}], NEW k \in Key, IsFiniteSet(Registered(m))
  PROVE  LET e == [m EXCEPT ![k] = NULL]
         IN  /\ IsFiniteSet(Registered(e))
             /\ Cardinality(Registered(m)) \in Nat
             /\ Cardinality(Registered(e)) =
                  IF m[k] # NULL THEN Cardinality(Registered(m)) - 1
                  ELSE Cardinality(Registered(m))
<1>1. Registered([m EXCEPT ![k] = NULL]) = Registered(m) \ {k}
  BY DEF Registered
<1>2. k \in Registered(m) <=> m[k] # NULL
  BY DEF Registered
<1>3. /\ IsFiniteSet(Registered(m) \ {k}) /\ Cardinality(Registered(m)) \in Nat
      /\ Cardinality(Registered(m) \ {k}) =
           IF k \in Registered(m) THEN Cardinality(Registered(m)) - 1
           ELSE Cardinality(Registered(m))
  BY FS_RemoveElement, FS_CardinalityType
<1> QED
  BY <1>1, <1>2, <1>3

\* Entering one adds one.
LEMMA EnteredCount ==
  ASSUME NEW m \in [Key -> Chan \cup {NULL}], NEW k \in Key, NEW c \in Chan,
         m[k] = NULL, IsFiniteSet(Registered(m))
  PROVE  LET e == [m EXCEPT ![k] = c]
         IN  /\ IsFiniteSet(Registered(e))
             /\ Cardinality(Registered(m)) \in Nat
             /\ Cardinality(Registered(e)) = Cardinality(Registered(m)) + 1
<1>1. c # NULL
  BY NIAssumption
<1>2. Registered([m EXCEPT ![k] = c]) = Registered(m) \cup {k}
  BY <1>1 DEF Registered
<1>3. k \notin Registered(m)
  BY DEF Registered
<1>4. /\ IsFiniteSet(Registered(m) \cup {k}) /\ Cardinality(Registered(m)) \in Nat
      /\ Cardinality(Registered(m) \cup {k}) =
           IF k \in Registered(m) THEN Cardinality(Registered(m))
           ELSE Cardinality(Registered(m)) + 1
  BY FS_AddElement, FS_CardinalityType
<1> QED
  BY <1>2, <1>3, <1>4

\* While nothing unusual has happened an open socket has its own entry.
LEMMA OwnEntry ==
  ASSUME CountInv, odd = {}, phase # "stopped", NEW h \in Handler, hnd[h].sock # NULL
  PROVE  /\ channelMap_[hnd[h].sock] = hnd[h].pChannel_ /\ hnd[h].pChannel_ # NULL
         /\ \A g \in Handler : hnd[g].sock = hnd[h].sock => g = h
<1>1. CallbacksSound /\ Clean /\ OpenRegistered
  BY DEF CountInv, IInv, Clean
<1>2. ASSUME NEW g \in Handler, hnd[g].sock # NULL
      PROVE  /\ channelMap_[hnd[g].sock] = hnd[g].pChannel_ /\ hnd[g].pChannel_ # NULL
             /\ chan[hnd[g].pChannel_].ep = g
  BY <1>1, <1>2 DEF CallbacksSound, OpenRegistered
<1> QED
  BY <1>2

\* Every step keeps the counter and the open sockets' entries right.
LEMMA CountStep ==
  ASSUME CountInv, [Next]_vars
  PROVE  CountInv'
<1> DEFINE m == channelMap_
           S == Registered(channelMap_)
<1>1. /\ IInv /\ TypeOK /\ OpenRegistered /\ CountsAll /\ IsFiniteSet(S)
      /\ channelMap_ \in [Key -> Chan \cup {NULL}] /\ numExtChannels_ \in Int
  BY DEF CountInv, IInv, TypeOK
<1>2. IInv' /\ TypeOK'
  BY <1>1, TypeStep, SoundStep, NIAssumption DEF IInv
<1>3. Effect
  BY <1>1, StepEffect
<1>4. CASE Untouched
  BY <1>1, <1>2, <1>4 DEF Untouched, CountInv, CountsAll, OpenRegistered, Registered
<1>5. ASSUME NEW k \in Key, Erases(k) PROVE CountInv'
  <2>1. /\ channelMap_' = [m EXCEPT ![k] = NULL]
        /\ numExtChannels_' = numExtChannels_ - 1
        /\ phase # "stopped" /\ odd \subseteq odd'
    BY <1>5 DEF Erases
  <2>2. /\ IsFiniteSet(Registered(channelMap_'))
        /\ Cardinality(S) \in Nat
        /\ Cardinality(Registered(channelMap_')) =
             IF m[k] # NULL THEN Cardinality(S) - 1 ELSE Cardinality(S)
    BY <1>1, <2>1, ErasedCount
  <2>3. ASSUME odd' = {}
        PROVE  /\ odd = {} /\ m[k] # NULL
               /\ \A g \in Handler : hnd'[g].sock # NULL =>
                    channelMap_'[hnd'[g].sock] = hnd'[g].pChannel_
    <3>1. PICK h \in Handler, p \in Chan \cup {NULL} :
            k = hnd[h].sock /\ hnd' = [hnd EXCEPT ![h] = ClosedHandler(p)]
      BY <1>5, <2>3 DEF Erases
    <3>2. odd = {} /\ k # NULL
      BY <2>1, <2>3, NIAssumption DEF Key, ANY
    <3>3. /\ m[k] # NULL
          /\ \A g \in Handler : hnd[g].sock = k => g = h
      <4>1. hnd[h].sock # NULL
        BY <3>1, <3>2
      <4>2. /\ channelMap_[hnd[h].sock] = hnd[h].pChannel_ /\ hnd[h].pChannel_ # NULL
            /\ \A g \in Handler : hnd[g].sock = hnd[h].sock => g = h
        BY <2>1, <3>2, <4>1, OwnEntry
      <4> QED
        BY <3>1, <4>2
    <3>4. ASSUME NEW g \in Handler, hnd'[g].sock # NULL
          PROVE  channelMap_'[hnd'[g].sock] = hnd'[g].pChannel_
      <4>1. g # h
        BY <1>1, <3>1, <3>4 DEF TypeOK, ClosedHandler
      <4>2. hnd'[g] = hnd[g] /\ hnd[g].sock # k
        BY <1>1, <3>1, <3>3, <4>1 DEF TypeOK
      <4>3. m[hnd[g].sock] = hnd[g].pChannel_
        BY <2>1, <3>2, <3>4, <4>2, OwnEntry
      <4>4. hnd[g].sock \in Key
        BY <1>1, <3>4, <4>2 DEF TypeOK, HandlerRecord, Key
      <4> QED
        BY <1>1, <2>1, <4>2, <4>3, <4>4
    <3> QED
      BY <3>2, <3>3, <3>4
  <2>4. OpenRegistered'
    BY <2>3 DEF OpenRegistered
  <2>5. CountsAll'
    BY <1>1, <2>1, <2>2, <2>3 DEF CountsAll
  <2> QED
    BY <1>2, <2>2, <2>4, <2>5 DEF CountInv
<1>6. ASSUME NEW k \in Key, NEW c \in Chan, Enters(k, c) PROVE CountInv'
  <2>1. /\ m[k] = NULL /\ channelMap_' = [m EXCEPT ![k] = c]
        /\ numExtChannels_' = numExtChannels_ + 1
        /\ phase # "stopped" /\ odd \subseteq odd'
    BY <1>6 DEF Enters
  <2>2. /\ IsFiniteSet(Registered(channelMap_'))
        /\ Cardinality(S) \in Nat
        /\ Cardinality(Registered(channelMap_')) = Cardinality(S) + 1
    BY <1>1, <2>1, EnteredCount
  <2>3. ASSUME odd' = {}
        PROVE  /\ odd = {}
               /\ \A g \in Handler : hnd'[g].sock # NULL =>
                    channelMap_'[hnd'[g].sock] = hnd'[g].pChannel_
    <3>1. PICK h \in Handler, s \in Scope : hnd' = [hnd EXCEPT ![h] = NewHandler(k, s, c)]
      BY <1>6, <2>3 DEF Enters
    <3>2. odd = {}
      BY <2>1, <2>3
    <3>3. ASSUME NEW g \in Handler, hnd'[g].sock # NULL
          PROVE  channelMap_'[hnd'[g].sock] = hnd'[g].pChannel_
      <4>1. CASE g = h
        BY <1>1, <2>1, <3>1, <4>1 DEF TypeOK, NewHandler
      <4>2. CASE g # h
        <5>1. hnd'[g] = hnd[g]
          BY <1>1, <3>1, <4>2 DEF TypeOK
        <5>2. m[hnd[g].sock] = hnd[g].pChannel_ /\ hnd[g].pChannel_ # NULL
          BY <2>1, <3>2, <3>3, <5>1, OwnEntry
        <5>3. hnd[g].sock \in Key
          BY <1>1, <3>3, <5>1 DEF TypeOK, HandlerRecord, Key
        <5> QED
          BY <1>1, <2>1, <5>1, <5>2, <5>3
      <4> QED
        BY <4>1, <4>2
    <3> QED
      BY <3>2, <3>3
  <2>4. OpenRegistered'
    BY <2>3 DEF OpenRegistered
  <2>5. CountsAll'
    BY <1>1, <2>1, <2>2, <2>3 DEF CountsAll
  <2> QED
    BY <1>2, <2>2, <2>4, <2>5 DEF CountInv
<1>7. CASE Clears
  <2>1. Registered(channelMap_') = {}
    BY <1>7 DEF Clears, Registered
  <2>2. CountsAll' /\ IsFiniteSet(Registered(channelMap_'))
    BY <1>7, <2>1, FS_EmptySet DEF Clears, CountsAll
  <2>3. OpenRegistered'
    BY <1>7 DEF Clears, OpenRegistered
  <2> QED
    BY <1>2, <2>2, <2>3 DEF CountInv
<1> QED
  BY <1>3, <1>4, <1>5, <1>6, <1>7 DEF Effect

\* CountInv is inductive.
THEOREM CountInductive == Spec => []CountInv
<1>1. IInv /\ Init => CountInv
  <2> SUFFICES ASSUME IInv, Init PROVE CountInv
    OBVIOUS
  <2>1. Registered(channelMap_) = {}
    BY DEF Init, Registered
  <2>2. CountsAll /\ IsFiniteSet(Registered(channelMap_))
    BY <2>1, FS_EmptySet DEF Init, CountsAll
  <2>3. OpenRegistered
    BY DEF Init, OpenRegistered, ClosedHandler
  <2> QED
    BY <2>2, <2>3 DEF CountInv
<1>2. CountInv /\ [Next]_vars => CountInv'
  BY CountStep
<1> QED
  BY <1>1, <1>2, Inductive, PTL DEF Spec

\* No accepted connection is forgotten: until an unusual event every open
\* socket's channel is in channelMap_ under the socket's address.
THEOREM OpenAreRegistered == Spec => []OpenRegistered
<1>1. CountInv => OpenRegistered
  BY DEF CountInv
<1> QED
  BY <1>1, CountInductive, PTL

\* numExtChannels_ counts every registered channel, not the external ones its
\* name promises, until an unusual event, and never more than there are,
\* though deregister_channel counts before it erases.
THEOREM CountIsOfAll == Spec => []CountsAll
<1>1. CountInv => CountsAll
  BY DEF CountInv
<1> QED
  BY <1>1, CountInductive, PTL
=============================================================================
