---------------------------- MODULE ChannelQueue ----------------------------
(***************************************************************************)
(* The other way to send through a channel: Channel::send(Bundle* ) queues  *)
(* bundles in bundles_ and sends what the socket takes; what is left waits  *)
(* for a write event, which is to call Channel::process_send.  Beside it    *)
(* DelayedChannels, which calls send once more per tick for the channels    *)
(* added to it.  All run in the reactor's thread, so a call is one step.    *)
(*                                                                         *)
(* TCP_SOCK_Handler::handle_output returns without calling process_send:    *)
(* the program as it stands has no WriteEvent.  The action is kept as what  *)
(* Channel offers, so that all of process_send is covered; without it there *)
(* are fewer behaviours, never more.                                        *)
(*                                                                         *)
(* The packets queued on a connection are numbered; a bundle holds an       *)
(* interval of them.  A channel is named by its peer.                       *)
(***************************************************************************)
EXTENDS Integers, Sequences

CONSTANTS
  Chan,        \* peer addresses
  NoAddr,      \* the address before any getpeername has succeeded
  Bundles,     \* the objects of Bundle_Pool
  Critical,    \* g_sendWindowMessagesOverflowCritical
  Overflow,    \* g_extSendWindowMessagesOverflow, or g_int... for the scope
  MaxPackets,  \* bound: packets of a bundle
  MaxSent      \* bound: packets queued on one connection

ASSUME CQAssumption ==
  /\ NoAddr \notin Chan
  /\ Critical \in Nat /\ Overflow \in Nat
  /\ MaxPackets \in Nat /\ MaxSent \in Nat

VARIABLES
  open,              \* the channel is registered and not destroyed
  bundles_,
  is_notified_send_, \* set and cleared with the handler's WRITE_MASK
  isCondemn_,
  pool,              \* bundles free for the application
  reachable,         \* getpeername succeeds
  channeladdrs_, channel_addr_,
  walk,              \* addresses DelayedChannels::process has still to visit
  written,           \* packets queued on the connection
  wire,              \* number of the next packet send was not called for
  intact,            \* the socket has had the packets whole, in order, once
  cut                \* of some packet it took a part only: the rest is lost

stream == <<written, wire, intact, cut>>
queue == <<open, bundles_, is_notified_send_, isCondemn_, pool, stream>>
delayed == <<channeladdrs_, channel_addr_, walk>>
vars == <<queue, reachable, delayed>>

\* A bundle and the numbers of its packets: from lo up to but not hi.
Queued == [id : Bundles, lo : Nat, hi : Nat]

Addr == Chan \cup {NoAddr}

\* The variables hold values of their types.
TypeOK ==
  /\ open \in [Chan -> BOOLEAN]
  /\ bundles_ \in [Chan -> Seq(Queued)]
  /\ is_notified_send_ \in [Chan -> BOOLEAN]
  /\ isCondemn_ \in [Chan -> BOOLEAN]
  /\ pool \subseteq Bundles
  /\ reachable \in [Chan -> BOOLEAN]
  /\ channeladdrs_ \subseteq Addr /\ channel_addr_ \in Addr /\ walk \subseteq Addr
  /\ written \in [Chan -> Nat] /\ wire \in [Chan -> Nat]
  /\ intact \in [Chan -> BOOLEAN] /\ cut \in [Chan -> BOOLEAN]

IdsOf(q) == {q[i].id : i \in 1..Len(q)}

\* The packets of q go on from number w without gaps.
Chain(q, w) ==
  /\ Len(q) > 0 => q[1].lo = w
  /\ \A i \in 1..Len(q) - 1 : q[i].hi = q[i + 1].lo

-----------------------------------------------------------------------------
(* process_send over a queue q: bundles before i have been sent and given   *)
(* back, and j packets of bundle i; i = Len(q) + 1 when all were sent.      *)

All(q, i) == i = Len(q) + 1

Positions(q) ==
  {<<Len(q) + 1, 0>>} \cup
  UNION {{<<i, j>> : j \in 0..q[i].hi - q[i].lo - 1} : i \in 1..Len(q)}

\* Mutants: the packet that met the full socket is rewound; the bundle in
\* hand keeps its sent packets; the last bundle sent is not erased.
RestRewound(q, i, j) ==
  IF All(q, i) THEN <<>> ELSE [SubSeq(q, i, Len(q)) EXCEPT ![1].lo = @ + j - 1]

RestWhole(q, i, j) == SubSeq(q, i, Len(q))

RestSent(q, i, j) == SubSeq(q, IF i > 1 THEN i - 1 ELSE 1, Len(q))

\* What both calls of erase leave.
Rest(q, i, j) ==
  IF All(q, i) THEN <<>> ELSE [SubSeq(q, i, Len(q)) EXCEPT ![1].lo = @ + j]

\* The socket is given the packets before that position.  It may take only a
\* part of one: the reason stays REASON_SUCCESS, the loop goes on to the next
\* packet, and the rest is erased with the packet or given back with its
\* bundle, neither sent nor queued.
Gives(c, q, i, j) ==
  LET given == SubSeq(q, 1, IF j = 0 THEN i - 1 ELSE i)
      end   == IF j > 0 THEN q[i].lo + j
               ELSE IF i > 1 THEN q[i - 1].hi ELSE wire[c]
  IN  \E part \in BOOLEAN :
        /\ part => end # wire[c]
        /\ wire' = [wire EXCEPT ![c] = end]
        /\ intact' = [intact EXCEPT ![c] = @ /\ Chain(given, wire[c]) /\ ~part]
        /\ cut' = [cut EXCEPT ![c] = @ \/ part]

Sent(q, i) == IdsOf(SubSeq(q, 1, i - 1))

\* An error other than a full socket: on_error below a write event,
\* set_channel_condem below send, which goes on to use the channel.
Destroys(c) == is_notified_send_[c]

\* Mutant: the window is compared one late.
OverflowsLate(n) == Critical > 0 /\ n > Critical /\ Overflow > 0 /\ n > Overflow + 1

\* The window: zero switches a limit off.
Overflows(n) == Critical > 0 /\ n > Critical /\ Overflow > 0 /\ n > Overflow

-----------------------------------------------------------------------------
(* Channel::send of a bundle or of NULL: new is <<bundle>> or <<>>.         *)

\* Mutant: the new bundle is forgotten.
SendRefusedLeaks(c, new) ==
  /\ isCondemn_[c]
  /\ pool' = (pool \ IdsOf(new)) \cup IdsOf(bundles_[c])
  /\ bundles_' = [bundles_ EXCEPT ![c] = <<>>]
  /\ UNCHANGED <<open, is_notified_send_, isCondemn_, stream>>

\* A condemned channel gives its bundles back, and the new one.
SendRefused(c, new) ==
  /\ isCondemn_[c]
  /\ pool' = pool \cup IdsOf(bundles_[c]) \cup IdsOf(new)
  /\ bundles_' = [bundles_ EXCEPT ![c] = <<>>]
  /\ UNCHANGED <<open, is_notified_send_, isCondemn_, stream>>

Accepts(c, new) ==
  /\ ~isCondemn_[c]
  /\ written' = [written EXCEPT ![c] = IF new = <<>> THEN @ ELSE new[1].hi]

\* Nothing to send, or a write event is awaited: only the window is checked.
SendWaits(c, new) ==
  LET q == bundles_[c] \o new
  IN  /\ Accepts(c, new)
      /\ q = <<>> \/ is_notified_send_[c]
      /\ bundles_' = [bundles_ EXCEPT ![c] = q]
      /\ pool' = pool \ IdsOf(new)
      /\ isCondemn_' = [isCondemn_ EXCEPT ![c] = Overflows(Len(q))]
      /\ UNCHANGED <<open, is_notified_send_, wire, intact, cut>>

\* process_send at once; what the socket does not take waits for the write
\* event, unless the channel is condemned.  The window is checked with the
\* size the queue had before.
SendNow(c, new, pos, fails) ==
  LET q == bundles_[c] \o new
      i == pos[1]
      j == pos[2]
  IN  /\ Accepts(c, new)
      /\ q # <<>> /\ ~is_notified_send_[c]
      /\ fails => ~All(q, i)
      /\ Gives(c, q, i, j)
      /\ bundles_' = [bundles_ EXCEPT ![c] = Rest(q, i, j)]
      /\ pool' = (pool \ IdsOf(new)) \cup Sent(q, i)
      /\ open' = [open EXCEPT ![c] = ~(fails /\ Destroys(c))]
      /\ is_notified_send_' = [is_notified_send_ EXCEPT ![c] =
            Rest(q, i, j) # <<>> /\ ~fails]
      /\ isCondemn_' = [isCondemn_ EXCEPT ![c] = fails \/ Overflows(Len(q))]

send(c, new) ==
  /\ open[c]
  /\ \/ SendRefused(c, new)
     \/ SendWaits(c, new)
     \/ \E pos \in Positions(bundles_[c] \o new), fails \in BOOLEAN :
          SendNow(c, new, pos, fails)
  /\ UNCHANGED reachable

\* The application fills a bundle with n packets and sends it.
SendBundle(c, b, n) ==
  /\ walk = {}
  /\ b \in pool
  /\ written[c] + n <= MaxSent
  /\ send(c, <<[id |-> b, lo |-> written[c], hi |-> written[c] + n]>>)
  /\ UNCHANGED delayed

-----------------------------------------------------------------------------
(* process_send below a write event.                                        *)

\* on_error: the channel is taken down.  clear_channel no longer calls
\* clearBundles, so what is queued is neither sent nor given back.
Gone(c) ==
  /\ open' = [open EXCEPT ![c] = FALSE]
  /\ bundles_' = [bundles_ EXCEPT ![c] = <<>>]
  /\ is_notified_send_' = [is_notified_send_ EXCEPT ![c] = FALSE]
  /\ isCondemn_' = [isCondemn_ EXCEPT ![c] = FALSE]
  /\ written' = [written EXCEPT ![c] = 0]
  /\ wire' = [wire EXCEPT ![c] = 0]
  /\ intact' = [intact EXCEPT ![c] = TRUE]
  /\ cut' = [cut EXCEPT ![c] = FALSE]

Writable(c) == walk = {} /\ open[c] /\ is_notified_send_[c]

WriteCondemned(c) ==
  /\ Writable(c) /\ isCondemn_[c]
  /\ Gone(c)
  /\ UNCHANGED <<pool, reachable, delayed>>

\* Mutant: the write event stays registered when all is sent.
StillWaitsAlways(q, i) == TRUE

\* on_bundles_sent_completely clears the flag.
StillWaits(q, i) == ~All(q, i)

\* Sent completely, or the socket is full again.
WriteSends(c, pos) ==
  LET q == bundles_[c]
      i == pos[1]
  IN  /\ Writable(c) /\ ~isCondemn_[c]
      /\ Gives(c, q, i, pos[2])
      /\ bundles_' = [bundles_ EXCEPT ![c] = Rest(q, i, pos[2])]
      /\ pool' = pool \cup Sent(q, i)
      /\ is_notified_send_' = [is_notified_send_ EXCEPT ![c] = StillWaits(q, i)]
      /\ UNCHANGED <<open, isCondemn_, written, reachable, delayed>>

WriteFails(c, pos) ==
  LET q == bundles_[c]
  IN  /\ Writable(c) /\ ~isCondemn_[c]
      /\ ~All(q, pos[1])
      /\ Destroys(c)
      /\ pool' = pool \cup Sent(q, pos[1])
      /\ Gone(c)
      /\ UNCHANGED <<reachable, delayed>>

WriteEvent(c) ==
  \/ WriteCondemned(c)
  \/ \E pos \in Positions(bundles_[c]) : WriteFails(c, pos) \/ WriteSends(c, pos)

-----------------------------------------------------------------------------
(* DelayedChannels.  channel_addr_ is a member that getpeername fills; when *)
(* that fails it still names the peer of an earlier call.                   *)

Peer(c) == IF reachable[c] THEN c ELSE channel_addr_

DelayedAdd(c) ==
  /\ walk = {} /\ open[c]
  /\ channel_addr_' = Peer(c)
  /\ channeladdrs_' = channeladdrs_ \cup {Peer(c)}
  /\ UNCHANGED <<queue, reachable, walk>>

send_delayed_channel(c) ==
  /\ walk = {} /\ open[c]
  /\ channel_addr_' = Peer(c)
  /\ channeladdrs_' = channeladdrs_ \ {Peer(c)}
  /\ \/ Peer(c) \in channeladdrs_ /\ send(c, <<>>)
     \/ Peer(c) \notin channeladdrs_ /\ UNCHANGED <<queue, reachable>>
  /\ UNCHANGED walk

\* Nub::startLoop runs the task.
ProcessBegins ==
  /\ walk = {} /\ channeladdrs_ # {}
  /\ walk' = channeladdrs_
  /\ UNCHANGED <<queue, reachable, channeladdrs_, channel_addr_>>

\* One address: the channel registered under it, if any, sends.
ProcessVisits(a) ==
  /\ a \in walk
  /\ walk' = walk \ {a}
  /\ channeladdrs_' = IF walk' = {} THEN {} ELSE channeladdrs_
  /\ \/ a \in Chan /\ send(a, <<>>)
     \/ (a \in Chan => ~open[a]) /\ UNCHANGED <<queue, reachable>>
  /\ UNCHANGED channel_addr_

-----------------------------------------------------------------------------
(* The connection around the queue.                                         *)

\* The sweep, the receive path or the timer takes the channel down.
Leaves(c) ==
  /\ walk = {} /\ open[c]
  /\ Gone(c)
  /\ UNCHANGED <<pool, reachable, delayed>>

\* A new connection from that address.
Connects(c) ==
  /\ walk = {} /\ ~open[c]
  /\ open' = [open EXCEPT ![c] = TRUE]
  /\ reachable' = [reachable EXCEPT ![c] = TRUE]
  /\ UNCHANGED <<bundles_, is_notified_send_, isCondemn_, pool, stream, delayed>>

\* The peer is gone, which getpeername knows before anybody here does.
PeerGoes(c) ==
  /\ open[c] /\ reachable[c]
  /\ reachable' = [reachable EXCEPT ![c] = FALSE]
  /\ UNCHANGED <<queue, delayed>>

Init ==
  /\ open = [c \in Chan |-> FALSE]
  /\ bundles_ = [c \in Chan |-> <<>>]
  /\ is_notified_send_ = [c \in Chan |-> FALSE]
  /\ isCondemn_ = [c \in Chan |-> FALSE]
  /\ pool = Bundles
  /\ reachable = [c \in Chan |-> FALSE]
  /\ channeladdrs_ = {} /\ channel_addr_ = NoAddr /\ walk = {}
  /\ written = [c \in Chan |-> 0] /\ wire = [c \in Chan |-> 0]
  /\ intact = [c \in Chan |-> TRUE] /\ cut = [c \in Chan |-> FALSE]

Next ==
  \/ \E c \in Chan :
       \/ \E b \in Bundles, n \in 0..MaxPackets : SendBundle(c, b, n)
       \/ WriteEvent(c)
       \/ DelayedAdd(c) \/ send_delayed_channel(c)
       \/ Leaves(c) \/ Connects(c) \/ PeerGoes(c)
  \/ ProcessBegins
  \/ \E a \in Addr : ProcessVisits(a)

Spec == Init /\ [][Next]_vars

-----------------------------------------------------------------------------
(* Properties.                                                             *)

\* A bundle is in one queue, once, or free: never sent by two channels, never
\* filled anew while it waits, never given back twice.
OwnedOnce ==
  \A c \in Chan :
    /\ IdsOf(bundles_[c]) \cap pool = {}
    /\ \A i, j \in 1..Len(bundles_[c]) :
         bundles_[c][i].id = bundles_[c][j].id => i = j
    /\ \A d \in Chan \ {c} : IdsOf(bundles_[c]) \cap IdsOf(bundles_[d]) = {}

\* Through full sockets, errors and write events process_send calls the
\* socket's send for every packet once and in order, and what is queued is
\* what it was not called for.  So the peer has everything before the queue,
\* as long as the socket never took a part of a packet: process_send does not
\* send the rest, though it says of the bundle that "all packets in this
\* bundle are sent completely" (Channel.cpp:638).
QueueInOrder ==
  \A c \in Chan : open[c] =>
    /\ ~cut[c] => intact[c]
    /\ Chain(bundles_[c], wire[c])
    /\ bundles_[c] # <<>> => bundles_[c][Len(bundles_[c])].hi = written[c]
    /\ bundles_[c] = <<>> /\ ~isCondemn_[c] => wire[c] = written[c]

\* Bundles wait exactly where a write event is registered for them: no queue
\* is left without one, and no event is registered for an empty queue, which
\* a level-triggered reactor would report over and over.  (That the event is
\* registered is all Channel does; handle_output does not act on it.)
WaitsForEvent ==
  \A c \in Chan : open[c] /\ ~isCondemn_[c] =>
    (is_notified_send_[c] <=> bundles_[c] # <<>>)

\* The window bounds the queue of a peer that does not read, although it is
\* compared with a size taken before the sending.
WindowBounds ==
  Critical > 0 /\ Overflow > 0 =>
    \A c \in Chan :
      Len(bundles_[c]) <= (IF Critical > Overflow THEN Critical ELSE Overflow) + 1

\* A channel that is down has nothing left of its connection.
ClosedIsClear ==
  \A c \in Chan : ~open[c] =>
    /\ bundles_[c] = <<>> /\ ~is_notified_send_[c] /\ ~isCondemn_[c]
    /\ written[c] = 0 /\ wire[c] = 0 /\ intact[c] /\ ~cut[c]

\* Only a channel that is condemned for it is past its window.
WithinWindow ==
  Critical > 0 /\ Overflow > 0 =>
    \A c \in Chan : ~isCondemn_[c] =>
      Len(bundles_[c]) <= IF Critical > Overflow THEN Critical ELSE Overflow

IInv ==
  /\ TypeOK /\ OwnedOnce /\ QueueInOrder /\ WaitsForEvent /\ WindowBounds
  /\ ClosedIsClear /\ WithinWindow

\* The bundles that are free or queued.
Held == pool \cup UNION {IdsOf(bundles_[c]) : c \in Chan}

\* Wherever process_send stops and whatever send refuses, no bundle leaks: one
\* that is neither free nor queued any more was queued on a channel that went
\* down in this step, whose queue nobody gives back.
BundlesKept ==
  [][\A b \in Held :
       \/ b \in Held'
       \/ \E c \in Chan : open[c] /\ ~open'[c] /\ b \in IdsOf(bundles_[c])]_vars
=============================================================================
