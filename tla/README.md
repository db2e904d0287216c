# A verification project for the networking core of kidding-engine

kidding-engine is a game-server framework in C++ on top of ACE. Its own core is `src/net`: a
server accepts TCP connections, keeps a `Channel` for each, cuts the byte stream into
messages, dispatches them, and buffers what is to be sent until the next turn of the main
loop. This directory models that core in TLA+, checks the models with TLC on small instances
and proves every safety property among the results, and the refinements, with TLAPS for all
instances.

## 1. Inventory

| component | state | operations | what is hard |
|---|---|---|---|
| `NetworkInterface` | `channelMap_` (address → channel), `numExtChannels_`, two listening sockets | `register_channel`, `deregister_channel`, `on_channel_left`, `on_channel_timeout`, two loops over the map, `close_listenning_sockets` | the loops' bodies change the map; keys are asked from the socket again and again, which may fail |
| `TCP_Acceptor_Handler`, `TCP_SOCK_Handler` | socket, `pChannel_` | `handle_input`, `process_recv`, `handle_timeout`, `handle_close`, `open` | callbacks into pooled objects; two listeners share one map |
| `Channel` | endpoint, timer, condemned/destroyed flags, bundle, received packets, reader | `send_buffered_bundle`, `process_packets`, `update_recv_window`, `on_error`, `clear_channel`, `destroy` | partial sends, windows, freeing itself from within its own methods, a static flag shared by all channels |
| `Bundle`, `Packet` | packets, the current one, length and packet count of the message | `start_new_curr_message`, `<<`, `end_new_curr_message`, `calculate_avaiable_space_of_curr_packet` | messages over packet borders, length known only at the end, extended lengths |
| `PacketReader` | fragment flag, fragment packet, id and length of the message in hand | `processMessages` | the stream may be cut anywhere |
| `ErrorStatMgr` | a record per (address, error) | `addReport`, `reportPendingExceptions`, timer | no error lost, none told twice, none kept waiting |
| `Nub` | main loop, timers | `startLoop` | order of events and sweep |
| `Channel` queue | `bundles_`, `is_notified_send_` | `send(Bundle*)`, `process_send`, `clearBundles` | a socket full in the middle of a bundle, two ways to end on an error, a window compared with an old size |
| `DelayedChannels`, `Tasks` | addresses to send for in this tick | `add`, `send_delayed_channel`, `process` | addresses asked from a socket whose peer is gone |
| `Messages`, `FixedMessages` | per table: next id, map from ids to messages; names with fixed ids | `add_msg`, `find`, `loadConfig` | order of registration, ids skipped, the file found late |
| object pools (`ace_object_pool.h`) | free list, count | `Ctor`, `Dtor` | an object freed twice or used after it was freed |
| `Watcher`, `Profile`, `Resource*`, ciphers, `py_script`, `EntityDef` | – | – | not part of the protocol |

Everything runs on the one thread of the ACE reactor, so there are no data races. What is
concurrent is the outside: peers connect, send, close and reset at any time, sockets take as
much as they like, timers are late. The reactor calls `handle_input` and `handle_timeout`;
between two rounds of events `Nub::startLoop` sweeps over `channelMap_` and lets each channel
send. Handlers and channels hold pointers to each other and both are recycled through pools,
so a callback that comes in the wrong order reaches someone else's object.

What makes the components correct: no pointer in the registry, the reactor or a timer leads to a
recycled object; no connection is forgotten; a connection that is condemned, hung up or silent goes
away; the peer gets the written bytes in order and once; a message declares the length of its body;
whatever the cuts, each message is handled once and whole; an error is told of, once, and in time; a
bundle has one owner, does not leak and its packets go out once; both ends agree on the ids of
messages. The places where this code makes these hard are the `hazards` of PROJECT.json, with their
lines.

## 2. Modules

| module | models |
|---|---|
| `NetworkInterface` | connection lifecycle: acceptor, registry, pools, timer, both loops, shutdown |
| `ByteStream` | abstract: what a channel promises its peer |
| `ChannelSend` | the bundle's write cursor and `send_buffered_bundle`; implements `ByteStream` |
| `Bundle` | framing of messages in packets |
| `FramedStream` | abstract: the stream of whole messages between two ends |
| `BundleStream` | the packets of `Bundle` joined; implements `FramedStream` |
| `MessageStream` | abstract: what the receiving end promises the message handlers |
| `PacketReader` | reassembly of messages from packets; reads a `FramedStream`, implements `MessageStream` |
| `ErrorStatsMgr` | rate-limited error lines |
| `ChannelRecv` | `handle_input` and `process_recv`, composed with `PacketReader`; implements `MessageStream` |
| `ChannelQueue` | the queue of bundles of `Channel::send(Bundle*)`, `process_send`, `DelayedChannels` |
| `Messages` | ids of messages: `Messages::add_msg`, `FixedMessages` |
| `NetworkInterface_proofs`, `ChannelSend_proofs`, `Bundle_proofs`, `PacketReader_proofs`, `ErrorStatsMgr_proofs`, `ChannelQueue_proofs`, `Messages_proofs` | theorems about the module they are named after |
| `ChannelRecv_proofs` | theorems about `ChannelRecv`, on top of those about `PacketReader` |
| `MC*` | instances for TLC |

**NetworkInterface.** Objects are slots of the pools. A handler that the reactor calls runs to
its end and is one action; `AcceptRegister`, `AcceptDuplicate` and `AcceptOpenFails` are the
outcomes of `TCP_Acceptor_Handler::handle_input`, `Recv*` those of `process_recv`, `Timer*`
those of `handle_timeout`. The two loops are walked node by node, since their bodies erase
nodes: `Advance` is the `++iter` after the body, which fails or survives when the node under it
has been freed. `regAddr` and `deregAddr` are the static addresses of the two functions, which
keep their old value when `getpeername` fails. Two constructs are kept as the code has them:
`if (scope = EXTERNAL)` always counts (a finding: `CountsAll` is what the counter does count,
`CountsExternal` what its comments say), and closing a newcomer whose address is already in the
map erases the entry of the one that was there. `odd` is a history variable naming the unusual
events that have happened; properties that hold only without one of them say so. Behaviour
after a crash, and the content of messages, are left out. Two connections collide in the map
when a peer connects from one address to both listeners, or connects again after a reset the
server has not noticed yet.

**ChannelSend and ByteStream.** Bytes are numbered, a packet is an interval of them with the
distance of `rd_ptr` from the buffer's base. A tick either does nothing, holds the last packet
back, flushes, blocks after `m` packets and `k` bytes, or fails. `should_wait_next_tick` is one
variable for all channels, as the `static` in the code. `damaged` marks a channel whose bytes
went into a continuation block ACE chains behind a full buffer, which `SEND_METHOD` never sends.
ByteStream is the promise: prefix delivery in order until the stream goes down. Whether bytes go
out at all depends on the shared flag: `Drains` promises it for what lies before the last packet
of a channel whose peer reads, and for the last packet only once the other channels have nothing
buffered, since one that comes along with a short packet in every sweep holds it back. A damaged or
closed channel is mapped to a stream that is down.

**Bundle.** The packets are their fill levels; the message has its packet count, its length and the
place of the placeholder, as in the code. `clean` says that the header fitted into the packet it
began in; `FramedAsWritten` and `CleanNeverAborts` are about such messages, since the code gets the
others wrong: a variable message that begins when its packet is exactly full looks for its length
field in the packet before and fails its assertion (`EndAborts`). `Wrap` is the modulus of
`MessageLength1`, in which an empty body after a cut placeholder wraps. Ids and lengths have two
bytes in the code and in the model. A fixed message has no length field:
`g_packetAlwaysContainLength` is false (net_common.cpp:53) and nothing sets it; the reader's model
relies on the same.

**FramedStream and BundleStream.** FramedStream is the format both ends have to agree on: a message
begins where the last one ended and takes its id, its lengths and its body. `PacketReader` extends
it, so that the peer of the reader can do nothing but `Sends`. `BundleStream` adds to `Bundle` a
history that follows the bytes: `base` is the stream position of each packet, a new packet begins
where the last ended, the extended length inserted at the end of a long message pushes the packets
behind it, a flush leaves the position where it was. A message joins the stream with the length it
declares and the stream gets as long as the packets are, so a message that declares too little, or a
mark without an extended length, is no step of FramedStream. The stream is followed as long as
messages are clean (`ok`), for the reasons given above.

**PacketReader.** The peer's stream is a sequence of messages at known positions; a packet is an
interval of positions. The actions are the branches of `processMessages`; `pc` is the place in
it. A field read where the peer wrote it has the value written; elsewhere the reader is
`derailed`. `faults` records the four cases the reader does not master: a header field cut by a
packet's end, an extended length that begins exactly there, what remains of a body above the
16 bits it is kept in, and a refused message whose id stays set for the rest of the batch.
The properties say that it is right in all the others. `ImplementsMessageStream` says the same as a
refinement: each message handled is the next one of the peer, whole, and the stream goes down,
for good, with the first fault or when the channel is condemned.

**ErrorStatsMgr.** Time stamps are ages, up to one past the lifetime, where the code stops telling
them apart. `Interval` is `Period` seconds although the records compare `Period` milliseconds: the
constant is called 2 s and used as both. Which of the two is meant for the distance between two
lines the code does not say, and no property claims either; `ToldInTime` is about the other bound,
how long an error may wait to be told of, which the mix of units could have broken.

**ChannelRecv.** Extends `PacketReader`: a `recv` that returns bytes is the reader's `Receive`,
`process_packets` its `Begin` (the websocket branch of `hand_shake` is dead: `isWebSocketProtocol`
returns false, net_common.cpp:22-26), and since `update_recv_window` processes each packet at once,
`recv` is called only when the reader is idle. The outcomes of `checkSocketErrors` are actions:
nothing there (`RecvWouldBlock`), an error after which the loop tries again (`RecvFails`), reset or
end of file (`RecvEnds`). A channel condemned by the reader is taken down by the next round of the
same loop (`RecvCondemned`). The window's limits are left out because they are guarded by
`protocolType_ == EXTERNAL`, which no TCP channel satisfies. The reply that `update_recv_window`
writes for every packet is a write to the bundle, as in `ChannelSend`.

**ChannelQueue.** A bundle is a pooled object with an interval of the packets of its connection;
`wire` is the next packet the socket has not had. `SendRefused`, `SendWaits` and `SendNow` are
the branches of `Channel::send`; a position `<<i, j>>` says how far `process_send` came before
the socket was full or failed, so one action stands for every such place. `DelayedChannels`
walks its addresses one by one. `channel_addr_` keeps its value when `getpeername` fails, as
the member does. Two things to know of the code: `handle_output` returns without calling
`process_send`, so the program as it stands never takes `WriteEvent` (kept because it is what
`Channel` offers, and because without it there are only fewer behaviours), and `send` carries
the comment `@Unused`: the public interface and `DelayedChannels` are what reaches it. When the socket
takes a part of a packet the code loses the rest; the model does too (`cut`), and `QueueInOrder`
promises whole packets only where that never happened, and the order of the calls of `send`
everywhere. A queue is lost with its channel, since `clear_channel` does not call `clearBundles`;
`BundlesKept` says that this is the only way to lose a bundle.

**Messages.** Tables are globals, filled in an order the linker chooses, and each tries to load the
file of fixed ids unless it is loaded. `NextFree` is the loop that skips fixed ids, `Successor` the
16-bit increment. `early` counts what a table was given before the file was there; such names may
later be overwritten by a fixed one, so `IdsByRank` and `EndsAgree` are stated for tables without
any, `FixedFound` for all. Each name is added to a table once, as the registration macros do;
`add_msg` does not look for the name and would give it a second id. `EndsAgree` is what the ids are
for: two tables stand for the two ends, and a message that both have been given after the same free
names has one id; with both tables the same it says that no message is found under two ids.

## 3. Runs

| run | checks | bounds and why they are enough |
|---|---|---|
| `lifecycle_faults` | `TypeOK`, `RegistrySound`, `CallbacksSound`, `OpenRegistered` | 2 addresses × 2 listeners × 2 slots each, 3 accepts: a collision, a slot reused after a timeout or a failure, an iterator before and behind an erased node |
| `lifecycle_live` | `CondemnedLeaves`, `HangupNoticed`, `SilenceReaped` | one listener, 2 accepts, no failing calls |
| `sweep_completes` | `LoopsFinish` violated | finding |
| `count_external` | `CountsExternal` violated | finding |
| `send_stream` | `TypeOK`, `StreamIntact`, `CurrentIsLast`, `Drains`, `ImplementsByteStream` | two channels sharing the flag, packets of 3 bytes, 5 bytes each: a full and a short packet, every split, a write behind a partial send |
| `room_writable` | `RoomIsWritable` violated | finding |
| `frame_messages` | `FramedAsWritten`, `CleanNeverAborts`, `ImplementsFramedStream` | packets of 6, bodies up to 12, long from 8, two clean messages and any number of others: headers at every offset, bodies over three packets, a length inserted before a packet that is followed by others, a flush between two messages |

| `header_cut` | `HeaderReassembled` violated | finding |
| `error_lines` | `TypeOK`, `NothingLost`, `ToldInTime`, `PendingPrinted` | two keys, period 2, lifetime 8, timer up to 2 late: a record dropped, raised again, printed by the timer and by the next error |
| `recv_loop` | `TypeOK`, `HandledAsSent`, `NothingWithheld`, `StaysInStep`, `BatchEnds`, `CondemnedClosed`, `ImplementsMessageStream`, `NothingAfterRefusal`, `HandlerReturns`, `EveryMessageHandled` | two messages of every kind (fixed, variable, empty, long, too long, two unknown), every cut, every outcome of `recv` between them: a body in several packets, a refusal with bytes behind it in the same packet and in the next |
| `queue_send` | `TypeOK`, `OwnedOnce`, `QueueInOrder`, `WaitsForEvent`, `WindowBounds`, `BundlesKept` | two channels, three bundles of 0 to 2 packets, 3 packets per connection, both limits 1: a queue of two bundles stopped inside each, a packet taken in part, a bundle reused, an overflow, an address that names the other channel |
| `message_ids` | `TypeOK`, `IdsByRank`, `EndsAgree`, `FixedFound` | two tables, two fixed ids (the first and one in the middle), two free names, ids modulo 5: every order, the file found first, second or never, the counter wraps after the last id |

Deadlock is not checked where the system may stop: the lifecycle ends with shutdown, a bundle
with a failed assertion, a reader with its stream.

Fairness. `lifecycle_live`: the main loop goes on (weak fairness of the sweep and its body), and the
reactor dispatches every ready socket and every expired timer in a round of events, which is enabled
only between sweeps, hence strong fairness of `RecvEnd` and `HandleTimeout`. Nothing is assumed of
peers. `send_stream`: only that the loop goes on (weak fairness of the sweep and of a channel's turn
in it). That a peer reads is a premise of `Drains`, for the channel it is about (`PeerReads`: a
socket offered bytes again and again takes some again and again), and nothing is assumed of the
other peers; without the premise about the others' buffers TLC finds the starvation described above.
`error_lines`: time passes and the timer is dispatched. `recv_loop`: the reactor calls a handler
whose socket is readable, the reader runs on and a condemned channel is noticed when the loop comes
round (weak fairness); the peer need never close or reset; of the network it is assumed that what
was sent arrives (strong fairness of a `recv` that returns bytes). Errors may persist:
`HandlerReturns` has the behaviours in which `recv` fails again and again for ever as its stated
exception, since the loop retries an unknown error at once. The peer's messages are bounded
(`MaxMsgs`), so that it does not outrun the server for ever.

Findings (section `findings` of PROJECT.json): a channel that dies in the sweep takes the iterator's
node with it (`sweep_completes`); an assignment where a comparison is meant counts connections of
the internal listener as external (`count_external`); after a partial send the room of a packet is
overestimated (`room_writable`); a header field cut by a packet's end is continued through an unset
pointer (`header_cut`). Other places where the code does not do what its comments say are built into
the models as they are and listed among the hazards: a timed-out channel keeps the endpoint it gave
back, a message that begins at a packet's end looks for its length in the packet before,
`process_send` loses the rest of a packet taken in part, the minimum period between error lines is
compared in another unit than its comment names.

## 4. Proofs

All theorems hold for every value of the constants that satisfies the named assumptions: any
number of channels, messages, packets and bytes, where TLC has two or three. Each inductive
invariant was first checked by TLC on the instance of the module's run, and so were the properties
that only a theorem states (`CountsAll`, `LoopProgress`, `FieldsInPlace`,
`LookupSound`, `RecvTypeOK`, `Bundle`'s `TypeOK`). The reader's theorems are about batches of any
number of packets, of which `handle_input`, and so the run, makes batches of one.

- `NetworkInterface_proofs` (`NIAssumption`: addresses are positive, the null value is none of the
  objects): `TypeCorrect`, `RegistryIsSound`, `CallbacksAreSound`. Neither of the two promises is
  inductive by itself: a channel leaves through its registry entry in the sweep and through its
  handler in a callback, so each needs the other to know that the object it erases is the one it
  means; the loops need that the iterator stands at an entry or at the end. The inductive invariant
  is `TypeOK /\ IterSound /\ RegistrySound /\ CallbacksSound`. `OpenAreRegistered` and
  `CountIsOfAll` (what the counter counts) come from a second one, `CountInv`. A step is first
  classified by its effect on map and counter (an entry comes with an increment, goes with a
  decrement, goes without one, or neither changes); the counting itself is then about cardinalities
  of finite sets only. `CountsAll` needs `OpenRegistered`: the decrement is taken for a socket that
  closes, and without an entry for it the counter would fall below the map.
- `ChannelSend_proofs` (`CSAssumption`: sizes and limits are natural numbers, a packet has room
  for a byte): `TypeCorrect`, `StreamIsIntact`, `CurrentPacketIsLast`, and `Refinement`, that
  every channel implements `ByteStream`. `StreamIntact` relates the bundle to what the peer has;
  to preserve it when a part of the bundle goes out one needs that no packet is empty
  (`PacketsNonEmpty`) and that packets lie in order between what was sent and what was written
  (`PacketsBetween`). A step touches one channel (and the flag they share), so the invariant is
  proved for that channel and carried over for the rest. In the refinement a write is `Write`, a
  tick that sends is `Deliver` of as many bytes, a channel that is closed or whose block was
  chained takes `GoDown` and from then on only `Down`, everything else stutters.
- `Bundle_proofs` (`BUAssumption`): `TypeCorrect`, `FramesAreRight`, `CleanMessagesEnd`. The
  strengthening is `CountersAgree`: for an open message with a clean header the length counted
  so far is the body's plus four, and counting packets back finds the placeholder's packet.
  `WritesFramedStream`: the packets joined are a `FramedStream`, and `FieldsAreInPlace`: the length
  lies behind the id and the extended length behind the length. The invariant `BSIInv` adds that
  packets lie one behind the other (`InLine`) and that the stream ends with the last message or
  with what is written of the next, whose length field is two bytes behind its beginning
  (`StreamInv`). `Grows` is the one lemma about writing, whether into the packet at hand or into a new
  one; at the end of a long message the packet found by counting back is the one it began in
  (`LongFacts`), so exactly the packets behind that one are pushed.
- `PacketReader_proofs` (`PRAssumption`: fields are not empty, and a field is at most one byte
  larger than the largest `MessageLength`, 2, 2 and 4 against 65535 in the code, so that what
  remains of it fits the 16 bits): `TypeCorrect`, `MessagesAsSent`, `NoneWithheld`, `KeepsInStep`.
  The invariant has two layers. `BaseInv` holds of every behaviour: the messages fill the stream one
  behind the other (`Layout`), the packets the part of it that was received (`PacketsInLine`), and
  the reader is inside the packet in hand (`ReaderInPacket`). `InStep` holds until the first fault:
  the reader is between two messages (`AtNone`) or at one of the places of a message that is the
  next one to handle (`Reading`): behind its id, behind its length, or at its body with none, a part
  or all of it in the fragment packet. The length the reader keeps across packets, the flag and what
  remains are each tied to that place, which is what `HandledAsSent` alone does not know. A
  condemned channel may be at any later message: the rest of its packet was dropped. That a field is
  read from the right message follows from `Layout`: no two messages begin at the same position. The
  case analysis also shows that the merge through the unset pointer (`header_cut`) takes a fault
  before it: `MergeHeader` is not enabled in a state of `IInv` without one. `DeliversMessages`: the
  reader implements `MessageStream`. A step that handles a message keeps the count of
  `HandledAsSent`, so it is the message after those handled; a send only adds one behind
  (`BodiesGrow`); a fault or a condemned channel is for good (`DownStaysDown`). `LoopEnds`: while
  `processMessages` runs every step lowers a natural number (`ToDo`: ten times the bytes and packets
  left, plus the place in the loop), faults or not. This is the half of `BatchEnds` that is a safety
  property; that some step is enabled until the batch is done is TLC's. `ReadsFramedStream`: the
  peer assumed by the reader sends a `FramedStream`, the one `Bundle` writes.
- `ChannelRecv_proofs`: `RecvIsReader`, that every behaviour of `handle_input` is one of
  `PacketReader`, hence `ReceivedAsSent` without a second proof; `RecvTypeCorrect`,
  `CondemnedAreClosed`, `RefusalIsFinal` from `RecvIInv`, which adds `Settled`: at most one
  packet is in hand, and none while the handler waits or the channel is condemned. The refinement
  carries over as well: `RecvDelivers`, `RecvLoopEnds`.
- `ErrorStatsMgr_proofs` (`ESAssumption`, and `LifetimeAssumption`: the period is not longer than the
  lifetime, 2 ms against 10 s): `TypeCorrect`, `NoErrorLost`, `NoneWaitsLong`. The strengthening
  `KeyInv` bounds the age of the last line about an accumulated error by the time since the timer
  was due and a period, and says that the error was raised since that line, so that a record old
  enough to be dropped has been printed in the same pass.
- `ChannelQueue_proofs` (`CQAssumption`): `TypeCorrect`, `EachOwnedOnce`, `PacketsInOrder`,
  `NoneForgotten`, `QueueIsBounded`, and the action property `NoneLeaks`. The five invariants
  are proved together: what remains after `process_send` stopped at a position is one sequence,
  and its lemma says that it keeps the order, owns a subset of the bundles and begins with the
  packet the socket did not take. Added are `ClosedIsClear` (a slot that is reused starts from
  nothing) and `WithinWindow` (only a channel condemned for it is past the limit, so that a
  healthy one can be one bundle over after the next `send` and no more). `NoneLeaks` needs the
  invariant only for `TypeOK`: what remains of a queue and what was given back are together what
  was there.
- `Messages_proofs` (`MSAssumption`: finitely many names, fewer than ids, at least two ids, the
  fixed ids distinct and none of them 0): `TypeCorrect`, `IdsAreByRank`, `LookupIsSound`,
  `FixedAreFound`, `EndsAlwaysAgree`. `TableInv` holds of every table: what is found was added,
  nothing is found twice, names are early exactly until the file is loaded. `SettledInv` says that
  the free ids below the counter are as many as the free names added and that the others are still
  empty. With that a free name not added yet leaves a free id above the counter (`RoomLeft`, by
  counting names and ids), so the loop of `add_msg` stops there before the counter goes round
  (`NextFreeFacts`; that there is a first such id is the well-foundedness of the naturals). Two ends
  agree because the rank determines the free id (`RankUnique`: of two free ids the larger has more
  of them below it).

Only model-checked: the properties under fairness (`CondemnedLeaves`, `HangupNoticed`,
`SilenceReaped`, `Drains`, `BatchEnds`, `PendingPrinted`, `HandlerReturns`,
`EveryMessageHandled`), which are beyond the prover. The four violations are TLC's counterexamples.

## 5. Not modelled

- Vendored libraries (python, openssl, apr, log4cxx, g3dlite, expat, jemalloc, ...): about 99 % of
  the repository's million lines and none of the program's own logic. What is the program's own
  and has state that a protocol depends on is `src/net`, and that is what the models cover.
- `src/net`: UDP handlers and `udp_send_single_bundle`; `tcp_send_single_bundle`, which nothing
  calls and whose loop leaves only when everything is sent; the search for a free port in the
  constructor; the `>>` readers, dumps and byte values of `Bundle`; encryption filters, which are
  empty in the code; `NetStats` (counters); lengths in fixed messages
  (`g_packetAlwaysContainLength`) and the websocket branch of `hand_shake`, both dead; a name added
  twice to a table; how many bytes of a packet `process_send` loses.
- `src/common`: object pools beyond their free lists (all are instantiated with `ACE_Null_Mutex`
  and used from one thread); `Watcher`, `Profile`, `Resource*`: instrumentation and file access;
  ciphers, digests and formatting: computation over bytes.
- `src/py_script`, `src/EntityDef`: bindings whose state is the Python interpreter's.
- Tests and experiments.

## 6. Plan

Every invariant, every action property and every refinement of the passing runs has its theorem.
What can follow:

1. One module for both ends: `BundleStream` and `ChannelSend` on one side, `ChannelRecv` on the other,
   with `FramedStream` and `ByteStream` between them, which the theorems now only share.
2. Byte values of scalars split over two packets (`Bundle.h:291`).
3. Two disagreements with comments that are modelled but have no run of their own: the rest of a
   packet that `process_send` loses (`Channel.cpp:617` against `:638`), and lines about one error
   2 ms apart where `ErrorStatsMgr.cpp:7` says 2 seconds.
