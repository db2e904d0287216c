--------------------------- MODULE NetworkInterface ---------------------------
(***************************************************************************)
(* The connection lifecycle of src/net: the acceptor, the registry         *)
(* channelMap_ of NetworkInterface, the Channel and TCP_SOCK_Handler       *)
(* objects taken from the pools, the inactivity timer, and the sweep that  *)
(* flushes every registered channel once per loop of Nub::startLoop.       *)
(*                                                                         *)
(* Everything runs on the one thread of the ACE reactor.  A handler runs   *)
(* to its end before the next starts and is one action; the two loops over *)
(* channelMap_ are walked node by node because their bodies may change the *)
(* map under the iterator.  The peers and the operating system are the     *)
(* environment: they connect, send, close and reset at any time.           *)
(***************************************************************************)
EXTENDS Integers, FiniteSets

CONSTANTS
  Addr,        \* remote addresses (positive numbers: std::map's key order)
  Handler,     \* slots of TCP_SOCK_Handler_Pool
  Chan,        \* slots of Channel_Pool
  NULL,        \* the null pointer, map.end(), an invalid socket
  Listeners,   \* scopes the constructor opened a listening socket for
  Faults,      \* system calls that may fail: subset of {"open", "peername"}
  MaxAccept,   \* bound: connections accepted in one behaviour
  MaxDrift,    \* bound: how far numExtChannels_ is followed below zero
  MaxFree      \* bound: how often a slot's repeated free is followed

Scope == {"EXTERNAL", "INTERNAL"}
ANY   == 0               \* a default-constructed ACE_INET_Addr
Key   == Addr \cup {ANY}

ASSUME NIAssumption ==
  /\ Addr \subseteq Nat \ {0}
  /\ NULL \notin Nat \cup Handler \cup Chan
  /\ Listeners \subseteq Scope
  /\ Faults \subseteq {"open", "peername"}
  /\ MaxAccept \in Nat /\ MaxDrift \in Nat /\ MaxFree \in Nat

VARIABLES
  channelMap_,      \* registry: address -> channel, NULL where absent
  numExtChannels_,
  chan,             \* the Channel slots
  hnd,              \* the TCP_SOCK_Handler slots
  freeCount,        \* how often a handler slot is in the pool's free list
  regAddr,          \* the static addr of register_channel
  deregAddr,        \* the static addr of deregister_channel
  listening,        \* scopes whose acceptor is in the reactor
  phase,            \* what the thread does: "events", a loop, or its end
  iter,             \* iterator of the loop that is running
  accepted,         \* connections accepted so far (bounded by MaxAccept)
  odd               \* history: the unusual events that have happened

vars == <<channelMap_, numExtChannels_, chan, hnd, freeCount, regAddr,
          deregAddr, listening, phase, iter, accepted, odd>>

OddEvents == {"open", "peername", "dup", "packets"}

ChannelRecord ==
  [used : BOOLEAN, ep : Handler \cup {NULL}, timer : Handler \cup {NULL},
   scope : Scope, condemned : BOOLEAN, destroyed : BOOLEAN,
   idle : BOOLEAN, buffered : BOOLEAN]

HandlerRecord ==
  [sock : Addr \cup {NULL}, listener : Scope, peer : {"up", "fin", "reset"},
   registered : BOOLEAN, pChannel_ : Chan \cup {NULL}]

\* The variables hold values of their types.
TypeOK ==
  /\ channelMap_ \in [Key -> Chan \cup {NULL}]
  /\ numExtChannels_ \in Int
  /\ chan \in [Chan -> ChannelRecord]
  /\ hnd \in [Handler -> HandlerRecord]
  /\ freeCount \in [Handler -> Nat]
  /\ regAddr \in Key
  /\ deregAddr \in Key
  /\ listening \subseteq Listeners
  /\ phase \in {"events", "sweep", "packets", "stopped", "crashed"}
  /\ iter \in Key \cup {NULL}
  /\ accepted \in Nat
  /\ odd \subseteq OddEvents

-----------------------------------------------------------------------------
(* Objects.                                                                *)

\* A Channel just constructed on endpoint h: initialize() has armed the
\* inactivity timer on h and taken the time as lastRecvTime_.
NewChannel(h, s) ==
  [used |-> TRUE, ep |-> h, timer |-> h, scope |-> s,
   condemned |-> FALSE, destroyed |-> FALSE, idle |-> FALSE,
   buffered |-> FALSE]

\* A Channel after Channel_Pool->Dtor: clear_channel has cancelled the timer
\* and on_channel_left has cleared pEndPoint_; d is what isDestroyed_ held.
FreedChannel(d) ==
  [used |-> FALSE, ep |-> NULL, timer |-> NULL, scope |-> "EXTERNAL",
   condemned |-> FALSE, destroyed |-> d, idle |-> FALSE, buffered |-> FALSE]

\* Mutant: pChannel_ is left as the constructor finds it.
NewHandlerUnset(a, s, c) ==
  [sock |-> a, listener |-> s, peer |-> "up", registered |-> TRUE,
   pChannel_ |-> s]

NewHandler(a, s, c) ==
  [sock |-> a, listener |-> s, peer |-> "up", registered |-> TRUE,
   pChannel_ |-> c]

\* A handler after handle_close: out of the reactor, socket closed.
ClosedHandler(p) ==
  [sock |-> NULL, listener |-> "EXTERNAL", peer |-> "up",
   registered |-> FALSE, pChannel_ |-> p]

Registered(m) == {k \in Key : m[k] # NULL}

\* The positions ++iterator can reach from key k in map m (one, or end()).
Successor(m, k) ==
  LET after == {j \in Registered(m) : j > k}
  IN  IF after = {} THEN {NULL}
      ELSE {j \in after : \A i \in after : j <= i}

\* Mutant: the address register_channel found last is taken for the peer's.
RemoteAddrCached(h, static) == {[key |-> regAddr, stale |-> FALSE]}

\* get_remote_addr on handler h into a static that holds `static`: the peer's
\* address, or, when getpeername fails, whatever the static held before.
RemoteAddr(h, static) ==
  {r \in [key : Key, stale : BOOLEAN] :
     \/ ~r.stale /\ r.key = hnd[h].sock
     \/ /\ r.stale /\ r.key = static
        /\ \/ hnd[h].sock = NULL
           \/ hnd[h].peer = "reset" /\ "peername" \in Faults}

-----------------------------------------------------------------------------
(* Pieces of the handlers.                                                 *)

\* Mutant: the entry stays.
deregister_channelNoErase(h) ==
  \E r \in RemoteAddr(h, deregAddr) :
    /\ numExtChannels_ > -MaxDrift
    /\ numExtChannels_' = numExtChannels_ - 1
    /\ deregAddr' = r.key
    /\ odd' = IF r.stale THEN odd \cup {"peername"} ELSE odd
    /\ UNCHANGED channelMap_

\* deregister_channel for a channel whose endpoint is h.  Both ifs assign
\* EXTERNAL instead of comparing, so the counter always goes down, and it
\* does so before the erase is known to have found anything.
deregister_channel(h) ==
  \E r \in RemoteAddr(h, deregAddr) :
    /\ numExtChannels_ > -MaxDrift
    /\ channelMap_' = [channelMap_ EXCEPT ![r.key] = NULL]
    /\ numExtChannels_' = numExtChannels_ - 1
    /\ deregAddr' = r.key
    /\ odd' = IF r.stale THEN odd \cup {"peername"} ELSE odd

\* Mutant: the mask test returns before anything is closed.
handle_closeMasked(h, p) == UNCHANGED <<hnd, freeCount>>

\* handle_close with ALL_EVENTS_MASK: leave the reactor, close the socket,
\* give the slot back.  p is what pChannel_ holds afterwards.
handle_close(h, p) ==
  /\ freeCount[h] < MaxFree
  /\ hnd' = [hnd EXCEPT ![h] = ClosedHandler(p)]
  /\ freeCount' = [freeCount EXCEPT ![h] = @ + 1]

\* Channel::on_error on a channel that is not destroyed yet: destroy(), then
\* Channel_Pool->Dtor, ~Channel, clear_channel, on_channel_left.
Dies(c, p) ==
  /\ ~chan[c].destroyed
  /\ chan[c].ep # NULL
  /\ deregister_channel(chan[c].ep)
  /\ handle_close(chan[c].ep, p)
  /\ chan' = [chan EXCEPT ![c] = FreedChannel(TRUE)]

Crash ==
  /\ phase' = "crashed"
  /\ UNCHANGED <<channelMap_, numExtChannels_, chan, hnd, freeCount, regAddr,
                 deregAddr, listening, iter, accepted, odd>>

-----------------------------------------------------------------------------
(* The acceptor: TCP_Acceptor_Handler::handle_input.                        *)

\* TCP lets a peer connect from address a to listener s unless a connection
\* between the two is still up; the same address may reach both listeners.
MayConnect(a, s) ==
  \A g \in Handler :
    hnd[g].sock = a /\ hnd[g].listener = s => hnd[g].peer = "reset"

AcceptEnabled(a, s, h, c) ==
  /\ phase = "events"
  /\ s \in listening
  /\ accepted < MaxAccept
  /\ MayConnect(a, s)
  /\ freeCount[h] > 0
  /\ ~chan[c].used

\* open() succeeds and register_channel finds the address free.
AcceptRegister(a, s, h, c) ==
  /\ AcceptEnabled(a, s, h, c)
  /\ hnd[h].sock = NULL
  /\ channelMap_[a] = NULL
  /\ hnd' = [hnd EXCEPT ![h] = NewHandler(a, s, c)]
  /\ freeCount' = [freeCount EXCEPT ![h] = @ - 1]
  /\ chan' = [chan EXCEPT ![c] = [NewChannel(h, s) EXCEPT !.scope = "EXTERNAL"]]
  /\ channelMap_' = [channelMap_ EXCEPT ![a] = c]
  /\ numExtChannels_' = numExtChannels_ + 1
  /\ regAddr' = a
  /\ accepted' = accepted + 1
  /\ UNCHANGED <<deregAddr, listening, phase, iter, odd>>

\* register_channel finds another channel under the address.  The new channel
\* is given back to the pool, and its destructor deregisters the address:
\* the entry that goes is the other channel's.
AcceptDuplicate(a, s, h, c) ==
  /\ AcceptEnabled(a, s, h, c)
  /\ hnd[h].sock = NULL
  /\ channelMap_[a] # NULL
  /\ hnd' = [hnd EXCEPT ![h] = ClosedHandler(c)]
  /\ chan' = [chan EXCEPT ![c] = FreedChannel(FALSE)]
  /\ channelMap_' = [channelMap_ EXCEPT ![a] = NULL]
  /\ numExtChannels_' = numExtChannels_ - 1
  /\ regAddr' = a
  /\ deregAddr' = a
  /\ accepted' = accepted + 1
  /\ odd' = odd \cup {"dup"}
  /\ UNCHANGED <<freeCount, listening, phase, iter>>

\* open() fails: handle_close frees the handler, and the code goes on with
\* it.  Its socket is closed, so register_channel uses the address its static
\* was left with.
AcceptOpenFails(a, s, h, c) ==
  /\ AcceptEnabled(a, s, h, c)
  /\ "open" \in Faults
  /\ hnd[h].sock = NULL
  /\ hnd' = [hnd EXCEPT ![h] = ClosedHandler(c)]
  /\ \/ /\ channelMap_[regAddr] = NULL
        /\ chan' = [chan EXCEPT ![c] =
                      [NewChannel(h, s) EXCEPT !.scope = "EXTERNAL"]]
        /\ channelMap_' = [channelMap_ EXCEPT ![regAddr] = c]
        /\ numExtChannels_' = numExtChannels_ + 1
        /\ UNCHANGED freeCount
     \/ /\ channelMap_[regAddr] # NULL
        /\ chan' = [chan EXCEPT ![c] = FreedChannel(FALSE)]
        /\ channelMap_' = [channelMap_ EXCEPT ![deregAddr] = NULL]
        /\ numExtChannels_' = numExtChannels_ - 1
        /\ freeCount' = [freeCount EXCEPT ![h] = @ + 1]
  /\ accepted' = accepted + 1
  /\ odd' = odd \cup {"open"}
  /\ UNCHANGED <<regAddr, deregAddr, listening, phase, iter>>

\* The pool hands out a slot that was freed twice and is in use: the new
\* handler is constructed over a live one.  Not followed further.
AcceptReissue(a, s, h, c) ==
  /\ AcceptEnabled(a, s, h, c)
  /\ hnd[h].sock # NULL
  /\ Crash

-----------------------------------------------------------------------------
(* TCP_SOCK_Handler::handle_input and process_recv.                         *)

Readable(h) == phase = "events" /\ hnd[h].registered /\ hnd[h].pChannel_ # NULL

\* Bytes arrive and parse: the peer was heard, and update_recv_window puts a
\* reply into the buffered bundle.
RecvData(h) ==
  LET c == hnd[h].pChannel_
  IN  /\ Readable(h)
      /\ ~chan[c].condemned
      /\ hnd[h].peer # "reset"
      /\ chan' = [chan EXCEPT ![c].idle = FALSE, ![c].buffered = TRUE]
      /\ UNCHANGED <<channelMap_, numExtChannels_, hnd, freeCount, regAddr,
                     deregAddr, listening, phase, iter, accepted, odd>>

\* Bytes arrive that the reader condemns the channel for; the next turn of
\* the receive loop sees isCondemn_ and calls on_error.
RecvViolation(h) ==
  LET c == hnd[h].pChannel_
  IN  /\ Readable(h)
      /\ ~chan[c].condemned
      /\ hnd[h].peer # "reset"
      /\ Dies(c, c)
      /\ UNCHANGED <<regAddr, listening, phase, iter, accepted>>

\* The channel was condemned by the send side: on_error before recv.
RecvCondemned(h) ==
  LET c == hnd[h].pChannel_
  IN  /\ Readable(h)
      /\ chan[c].condemned
      /\ Dies(c, c)
      /\ UNCHANGED <<regAddr, listening, phase, iter, accepted>>

\* recv returns 0 (the peer closed) or WSAECONNRESET: on_error, pChannel_ = NULL.
RecvEnd(h) ==
  LET c == hnd[h].pChannel_
  IN  /\ Readable(h)
      /\ ~chan[c].condemned
      /\ hnd[h].peer # "up"
      /\ Dies(c, NULL)
      /\ UNCHANGED <<regAddr, listening, phase, iter, accepted>>

-----------------------------------------------------------------------------
(* TCP_SOCK_Handler::handle_timeout, called for the timer channel c armed.  *)
(* The timer has the period it tests for, so a channel heard of since the   *)
(* previous tick survives this one.                                         *)

\* Mutant: the timer is armed without an interval and fires once.
TimerStillActiveOneShot(c) ==
  LET h == chan[c].timer
      p == hnd[h].pChannel_
  IN  /\ phase = "events" /\ h # NULL
      /\ p # NULL
      /\ ~chan[p].idle
      /\ chan' = [chan EXCEPT ![p].idle = TRUE, ![c].timer = NULL]
      /\ UNCHANGED <<channelMap_, numExtChannels_, hnd, freeCount, regAddr,
                     deregAddr, listening, phase, iter, accepted, odd>>

TimerStillActive(c) ==
  LET h == chan[c].timer
      p == hnd[h].pChannel_
  IN  /\ phase = "events" /\ h # NULL
      /\ p # NULL
      /\ ~chan[p].idle
      /\ chan' = [chan EXCEPT ![p].idle = TRUE]
      /\ UNCHANGED <<channelMap_, numExtChannels_, hnd, freeCount, regAddr,
                     deregAddr, listening, phase, iter, accepted, odd>>

\* Mutant: on_channel_timeout without cancel_timer.
TimerExpiresUncancelled(c) ==
  LET h == chan[c].timer
      p == hnd[h].pChannel_
  IN  /\ phase = "events" /\ h # NULL
      /\ p # NULL
      /\ chan[p].idle
      /\ chan[p].ep # NULL
      /\ deregister_channel(chan[p].ep)
      /\ handle_close(chan[p].ep, hnd[chan[p].ep].pChannel_)
      /\ UNCHANGED <<chan, regAddr, listening, phase, iter, accepted>>

\* on_channel_timeout: cancel the timer, deregister, close the endpoint.  The
\* Channel is not given back to its pool and keeps its pEndPoint_.
TimerExpires(c) ==
  LET h == chan[c].timer
      p == hnd[h].pChannel_
  IN  /\ phase = "events" /\ h # NULL
      /\ p # NULL
      /\ chan[p].idle
      /\ chan[p].ep # NULL
      /\ deregister_channel(chan[p].ep)
      /\ handle_close(chan[p].ep, hnd[chan[p].ep].pChannel_)
      /\ chan' = [chan EXCEPT ![p].timer = NULL]
      /\ UNCHANGED <<regAddr, listening, phase, iter, accepted>>

\* The timer of a channel whose handler was freed under it finds no channel,
\* or one without an endpoint: a null pointer is followed.
TimerDangling(c) ==
  LET h == chan[c].timer
      p == hnd[h].pChannel_
  IN  /\ phase = "events" /\ h # NULL
      /\ \/ p = NULL
         \/ p # NULL /\ chan[p].idle /\ chan[p].ep = NULL
      /\ Crash

-----------------------------------------------------------------------------
(* The loop of Nub::startLoop(ni): handle_events, then                      *)
(* process_all_channels_buffered_sending_packets.                           *)

BeginSweep ==
  /\ phase = "events"
  /\ phase' = "sweep"
  /\ iter' \in Successor(channelMap_, -1)
  /\ UNCHANGED <<channelMap_, numExtChannels_, chan, hnd, freeCount, regAddr,
                 deregAddr, listening, accepted, odd>>

\* ++iter, after the body has run.  If the body erased the node under the
\* iterator the increment reads freed memory: the process fails, or the node
\* is still intact and leads to the next one.
Advance ==
  \/ /\ iter' \in Successor(channelMap_', iter)
     /\ UNCHANGED phase
  \/ /\ channelMap_'[iter] = NULL
     /\ phase' = "crashed"
     /\ UNCHANGED iter

\* send_buffered_bundle has nothing to do (destroyed, or no packets), or keeps
\* what it has: a last packet that waits for the next tick, a full socket.
SweepKeeps ==
  LET c == channelMap_[iter]
  IN  /\ phase = "sweep" /\ iter # NULL
      /\ chan[c].destroyed \/ ~chan[c].condemned
      /\ UNCHANGED <<channelMap_, numExtChannels_, chan, hnd, freeCount,
                     regAddr, deregAddr, listening, accepted, odd>>
      /\ Advance

\* All packets are sent.
SweepFlushes ==
  LET c == channelMap_[iter]
  IN  /\ phase = "sweep" /\ iter # NULL
      /\ ~chan[c].destroyed /\ ~chan[c].condemned
      /\ chan[c].buffered
      /\ chan' = [chan EXCEPT ![c].buffered = FALSE]
      /\ UNCHANGED <<channelMap_, numExtChannels_, hnd, freeCount, regAddr,
                     deregAddr, listening, accepted, odd>>
      /\ Advance

\* More packets stay behind than the send window allows: condemned.
SweepOverflows ==
  LET c == channelMap_[iter]
  IN  /\ phase = "sweep" /\ iter # NULL
      /\ ~chan[c].destroyed /\ ~chan[c].condemned
      /\ chan[c].buffered
      /\ chan' = [chan EXCEPT ![c].condemned = TRUE]
      /\ UNCHANGED <<channelMap_, numExtChannels_, hnd, freeCount, regAddr,
                     deregAddr, listening, accepted, odd>>
      /\ Advance

\* The channel is condemned, or the socket reports an error: on_error.
SweepKills ==
  LET c == channelMap_[iter]
  IN  /\ phase = "sweep" /\ iter # NULL
      /\ chan[c].condemned \/ chan[c].buffered
      /\ Dies(c, c)
      /\ UNCHANGED <<regAddr, listening, accepted>>
      /\ Advance

EndLoop ==
  /\ phase \in {"sweep", "packets"} /\ iter = NULL
  /\ phase' = "events"
  /\ UNCHANGED <<channelMap_, numExtChannels_, chan, hnd, freeCount, regAddr,
                 deregAddr, listening, iter, accepted, odd>>

-----------------------------------------------------------------------------
(* process_all_channels_packets, which the owner of the interface may call. *)

BeginPackets ==
  /\ phase = "events"
  /\ phase' = "packets"
  /\ iter' \in Successor(channelMap_, -1)
  /\ UNCHANGED <<channelMap_, numExtChannels_, chan, hnd, freeCount, regAddr,
                 deregAddr, listening, accepted, odd>>

\* A channel in order: its packets have been processed on arrival.
PacketsPass ==
  LET c == channelMap_[iter]
  IN  /\ phase = "packets" /\ iter # NULL
      /\ ~chan[c].destroyed /\ ~chan[c].condemned
      /\ UNCHANGED <<channelMap_, numExtChannels_, chan, hnd, freeCount,
                     regAddr, deregAddr, listening, accepted, odd>>
      /\ Advance

\* A condemned or destroyed channel is deregistered and flagged destroyed; it
\* keeps its slot, its endpoint and its timer.  The iterator has moved on
\* before the erase.
PacketsDrop ==
  LET c == channelMap_[iter]
  IN  /\ phase = "packets" /\ iter # NULL
      /\ chan[c].destroyed \/ chan[c].condemned
      /\ chan[c].ep # NULL
      /\ \E r \in RemoteAddr(chan[c].ep, deregAddr) :
           /\ channelMap_' = [channelMap_ EXCEPT ![r.key] = NULL]
           /\ deregAddr' = r.key
           /\ odd' = odd \cup {"packets"}
                         \cup IF r.stale THEN {"peername"} ELSE {}
      /\ numExtChannels_ > -MaxDrift
      /\ numExtChannels_' = numExtChannels_ - 1
      /\ chan' = [chan EXCEPT ![c].destroyed = TRUE]
      /\ \E next \in Successor(channelMap_, iter) :
           \/ /\ next \in Registered(channelMap_') \cup {NULL}
              /\ iter' = next
              /\ UNCHANGED phase
           \/ /\ next \notin Registered(channelMap_') \cup {NULL}
              /\ phase' = "crashed"
              /\ UNCHANGED iter
      /\ UNCHANGED <<hnd, freeCount, regAddr, listening, accepted>>

\* The entry dangles: its channel has left and has no endpoint to ask.
PacketsDangling ==
  LET c == channelMap_[iter]
  IN  /\ phase = "packets" /\ iter # NULL
      /\ chan[c].destroyed \/ chan[c].condemned
      /\ chan[c].ep = NULL
      /\ Crash

-----------------------------------------------------------------------------
(* The end, and the peers.  A peer's close or reset during a loop is taken  *)
(* as one just before it: no earlier turn of the loop looks at it.          *)

\* close_listenning_sockets.  With an internal listener only, the external
\* one's null pointer is followed.
CloseListeners ==
  /\ phase = "events"
  /\ listening # {}
  /\ \/ /\ "EXTERNAL" \in Listeners
        /\ listening' = {}
        /\ UNCHANGED phase
     \/ /\ Listeners = {"INTERNAL"}
        /\ phase' = "crashed"
        /\ UNCHANGED listening
  /\ UNCHANGED <<channelMap_, numExtChannels_, chan, hnd, freeCount, regAddr,
                 deregAddr, iter, accepted, odd>>

\* ~NetworkInterface after the loop has returned: deregister_all_channels.
Shutdown ==
  /\ phase = "events"
  /\ phase' = "stopped"
  /\ chan' = [c \in Chan |->
                IF \E k \in Key : channelMap_[k] = c
                THEN [chan[c] EXCEPT !.destroyed = TRUE] ELSE chan[c]]
  /\ channelMap_' = [k \in Key |-> NULL]
  /\ numExtChannels_' = 0
  /\ listening' = {}
  /\ UNCHANGED <<hnd, freeCount, regAddr, deregAddr, iter, accepted, odd>>

PeerCloses(h) ==
  /\ hnd[h].sock # NULL /\ hnd[h].peer = "up"
  /\ phase = "events"
  /\ hnd' = [hnd EXCEPT ![h].peer = "fin"]
  /\ UNCHANGED <<channelMap_, numExtChannels_, chan, freeCount, regAddr,
                 deregAddr, listening, phase, iter, accepted, odd>>

PeerResets(h) ==
  /\ hnd[h].sock # NULL /\ hnd[h].peer # "reset"
  /\ phase = "events"
  /\ hnd' = [hnd EXCEPT ![h].peer = "reset"]
  /\ UNCHANGED <<channelMap_, numExtChannels_, chan, freeCount, regAddr,
                 deregAddr, listening, phase, iter, accepted, odd>>

-----------------------------------------------------------------------------

Init ==
  /\ channelMap_ = [k \in Key |-> NULL]
  /\ numExtChannels_ = 0
  /\ chan = [c \in Chan |-> FreedChannel(FALSE)]
  /\ hnd = [h \in Handler |-> ClosedHandler(NULL)]
  /\ freeCount = [h \in Handler |-> 1]
  /\ regAddr = ANY
  /\ deregAddr = ANY
  /\ listening = Listeners
  /\ phase = "events"
  /\ iter = NULL
  /\ accepted = 0
  /\ odd = {}

AcceptStep ==
  \E a \in Addr, s \in Listeners, h \in Handler, c \in Chan :
    \/ AcceptRegister(a, s, h, c)
    \/ AcceptDuplicate(a, s, h, c)
    \/ AcceptOpenFails(a, s, h, c)
    \/ AcceptReissue(a, s, h, c)

HandleInput(h) ==
  \/ RecvData(h)
  \/ RecvViolation(h)
  \/ RecvCondemned(h)
  \/ RecvEnd(h)

HandleTimeout(c) ==
  \/ TimerStillActive(c)
  \/ TimerExpires(c)
  \/ TimerDangling(c)

Sweep ==
  \/ BeginSweep
  \/ SweepKeeps
  \/ SweepFlushes
  \/ SweepOverflows
  \/ SweepKills

Packets ==
  \/ BeginPackets
  \/ PacketsPass
  \/ PacketsDrop
  \/ PacketsDangling

Next ==
  \/ AcceptStep
  \/ \E h \in Handler : HandleInput(h)
  \/ \E c \in Chan : HandleTimeout(c)
  \/ Sweep
  \/ Packets
  \/ EndLoop
  \/ CloseListeners
  \/ Shutdown
  \/ \E h \in Handler : PeerCloses(h) \/ PeerResets(h)

Spec == Init /\ [][Next]_vars

\* The loop runs on, and within a handle_events every ready handle and every
\* expired timer is dispatched before the sweep; both are enabled only between
\* sweeps, hence strong fairness.  Peers owe nothing.
SweepBody == SweepKeeps \/ SweepFlushes \/ SweepOverflows \/ SweepKills
PacketsBody == PacketsPass \/ PacketsDrop \/ PacketsDangling

Fairness ==
  /\ WF_vars(BeginSweep) /\ WF_vars(SweepBody) /\ WF_vars(PacketsBody)
  /\ WF_vars(EndLoop)
  /\ \A h \in Handler : SF_vars(RecvEnd(h))
  /\ \A c \in Chan : SF_vars(HandleTimeout(c))

FairSpec == Spec /\ Fairness

-----------------------------------------------------------------------------
(* Properties.                                                             *)

Ended == phase \in {"stopped", "crashed"}

Connected(c) == \E h \in Handler : hnd[h].registered /\ hnd[h].pChannel_ = c

\* What the registry relies on: an entry names an allocated channel that is
\* not destroyed, whose endpoint is a handler in the reactor, connected to the
\* entry's address and pointing back at the channel, with the timer armed.
EntrySound(k) ==
  LET c == channelMap_[k]
      h == chan[c].ep
  IN  /\ chan[c].used /\ ~chan[c].destroyed
      /\ h # NULL
      /\ hnd[h].sock = k /\ hnd[h].registered /\ hnd[h].pChannel_ = c
      /\ chan[c].timer = h

\* open() and getpeername have not failed so far.
Clean == "open" \notin odd /\ "peername" \notin odd

\* As long as open() and getpeername have not failed, no entry of channelMap_
\* dangles, whatever connects, collides, times out or breaks: the sweep of
\* NetworkInterface.h:137 only ever follows pointers to live channels.
RegistrySound ==
  Clean => \A k \in Registered(channelMap_) : EntrySound(k)

\* Under the same condition the reactor never calls into a recycled handler: a
\* slot is in the free list at most once, exactly when its socket is closed,
\* and every armed timer and registered handler leads to a channel and back.
CallbacksSound ==
  Clean =>
    /\ \A h \in Handler :
         /\ freeCount[h] = (IF hnd[h].sock = NULL THEN 1 ELSE 0)
         /\ hnd[h].registered <=> hnd[h].sock # NULL
         /\ hnd[h].registered =>
              /\ hnd[h].pChannel_ # NULL
              /\ chan[hnd[h].pChannel_].used
              /\ chan[hnd[h].pChannel_].ep = h
              /\ chan[hnd[h].pChannel_].timer = h
    /\ \A c \in Chan :
         chan[c].timer # NULL =>
           hnd[chan[c].timer].registered /\ hnd[chan[c].timer].pChannel_ = c

\* The iterator of a running loop is at an entry or at the end.
IterSound ==
  phase \in {"sweep", "packets"} => iter \in Registered(channelMap_) \cup {NULL}

\* The inductive invariant: the two promises above rest on each other (a
\* channel leaves through its entry in the sweep, through its handler in the
\* callbacks), and the loops on the iterator.
IInv == TypeOK /\ IterSound /\ RegistrySound /\ CallbacksSound

\* No accepted connection is forgotten: without collisions, failing calls or a
\* packet loop, every open socket's channel is in the registry under the
\* socket's address, where the sweep finds it.
OpenRegistered ==
  odd = {} /\ phase # "stopped" =>
    \A h \in Handler :
      hnd[h].sock # NULL => channelMap_[hnd[h].sock] = hnd[h].pChannel_

\* What numExtChannels_ does count, the assignments in the two ifs being what
\* they are: all registered channels, the internal ones too, until one of the
\* unusual events, and never more than those, not even after them.
CountsAll ==
  /\ odd = {} => numExtChannels_ = Cardinality(Registered(channelMap_))
  /\ numExtChannels_ <= Cardinality(Registered(channelMap_))

\* What CountsAll needs: a connection that closes while nothing unusual has
\* happened takes an entry with it, and entries can be counted.
CountInv ==
  IInv /\ OpenRegistered /\ CountsAll /\ IsFiniteSet(Registered(channelMap_))

\* NetworkInterface.h:64: "the number of external channels stored in this
\* network interface", and NetworkInterface.cpp:327: "if it is external
\* channel, increment by 1".  A channel is external when the listening socket
\* it was accepted from is; nothing unusual need have happened.
CountsExternal ==
  odd = {} =>
    numExtChannels_ =
      Cardinality({k \in Registered(channelMap_) :
                     hnd[chan[channelMap_[k]].ep].listener = "EXTERNAL"})

\* A condemned channel is disconnected.
CondemnedLeaves ==
  \A c \in Chan : (Connected(c) /\ chan[c].condemned) ~> (~Connected(c) \/ Ended)

\* The server closes its end after the peer closed or reset.
HangupNoticed ==
  \A h \in Handler :
    (hnd[h].sock # NULL /\ hnd[h].peer # "up") ~> (hnd[h].sock = NULL \/ Ended)

\* A channel that stays silent is disconnected by the inactivity timer.
SilenceReaped ==
  \A c \in Chan : (Connected(c) /\ chan[c].idle)
                    ~> (~Connected(c) \/ ~chan[c].idle \/ Ended)

\* NetworkInterface.h:128: "this method will go through all the channels and
\* process its packets": the loops over channelMap_ do not break off.
LoopsFinish == phase # "crashed"
=============================================================================
