----------------------------- MODULE ChannelSend -----------------------------
(***************************************************************************)
(* The sending half of a channel: the packets of buffered_sending_bundle_,  *)
(* filled by the << operators of Bundle and emptied by                      *)
(* Channel::send_buffered_bundle, which the sweep of NetworkInterface calls *)
(* once per loop for every registered channel.  The flag                    *)
(* should_wait_next_tick is a static of that function: one for all channels.*)
(*                                                                         *)
(* Bytes are numbered as they are written; a packet holds an interval of    *)
(* them.  The socket takes any number of whole packets and of bytes of the  *)
(* next one, or fails.                                                      *)
(***************************************************************************)
EXTENDS Integers, Sequences

CONSTANTS
  Chan,
  MaxSize,     \* Bundle::currPacketMaxSize
  Slack,       \* room of the packet's buffer beyond MaxSize
  Critical,    \* g_sendWindowMessagesOverflowCritical
  Overflow,    \* g_extSendWindowMessagesOverflow, or g_int... for the scope
  MaxBytes     \* bound: bytes written to one channel

ASSUME CSAssumption ==
  /\ MaxSize \in Nat \ {0} /\ Slack \in Nat
  /\ Critical \in Nat /\ Overflow \in Nat /\ MaxBytes \in Nat

VARIABLES
  packets_,               \* per channel: the packets of its bundle
  pCurrPacket_,           \* per channel: whether the pointer is set
  should_wait_next_tick,
  isCondemn_,
  open,                   \* the channel has not been given back
  todo,                   \* channels the running sweep has still to visit
  written,                \* bytes written so far
  wire,                   \* the peer's next byte: end of what was sent last
  intact,                 \* what was sent came in order and without gaps
  damaged                 \* bytes went into a block that is never sent

vars == <<packets_, pCurrPacket_, should_wait_next_tick, isCondemn_, open,
          todo, written, wire, intact, damaged>>

\* lo, hi: the numbers of the bytes at rd_ptr and wr_ptr; off: rd_ptr - base;
\* chained: the CDR stream has moved on to a continuation block.
Packet == [lo : Nat, hi : Nat, off : Nat, chained : BOOLEAN]

length(p) == p.hi - p.lo

\* The variables hold values of their types.
TypeOK ==
  /\ packets_ \in [Chan -> Seq(Packet)]
  /\ pCurrPacket_ \in [Chan -> BOOLEAN]
  /\ should_wait_next_tick \in BOOLEAN
  /\ isCondemn_ \in [Chan -> BOOLEAN]
  /\ open \in [Chan -> BOOLEAN]
  /\ todo \subseteq Chan
  /\ written \in [Chan -> Nat]
  /\ wire \in [Chan -> Nat]
  /\ intact \in [Chan -> BOOLEAN]
  /\ damaged \in [Chan -> BOOLEAN]

LastPacket(c) == packets_[c][Len(packets_[c])]

-----------------------------------------------------------------------------
(* Writing: one turn of the copying loop of a << operator.                  *)

\* calculate_avaiable_space_of_curr_packet: a new packet is needed when there
\* is none or the write position has reached the maximum ...
NeedsPacket(c) ==
  pCurrPacket_[c] => LastPacket(c).off + length(LastPacket(c)) >= MaxSize

\* ... but the room left is counted from the unsent length.
RemainSize(c) ==
  MaxSize - (IF NeedsPacket(c) THEN 0 ELSE length(LastPacket(c)))

\* The bytes start a new packet.
WriteFresh(c, k) ==
  /\ open[c] /\ todo = {}
  /\ written[c] + k <= MaxBytes
  /\ NeedsPacket(c)
  /\ k <= RemainSize(c)
  /\ packets_' = [packets_ EXCEPT ![c] =
        Append(@, [lo |-> written[c], hi |-> written[c] + k, off |-> 0,
                   chained |-> FALSE])]
  /\ pCurrPacket_' = [pCurrPacket_ EXCEPT ![c] = TRUE]
  /\ written' = [written EXCEPT ![c] = @ + k]
  /\ UNCHANGED <<should_wait_next_tick, isCondemn_, open, todo, wire, intact,
                 damaged>>

Fits(p, k) == ~p.chained /\ p.off + length(p) + k <= MaxSize + Slack

\* The bytes join the current packet.
WriteJoins(c, k) ==
  /\ open[c] /\ todo = {}
  /\ written[c] + k <= MaxBytes
  /\ ~NeedsPacket(c)
  /\ k <= RemainSize(c)
  /\ Fits(LastPacket(c), k)
  /\ packets_' = [packets_ EXCEPT ![c][Len(packets_[c])].hi = @ + k]
  /\ written' = [written EXCEPT ![c] = @ + k]
  /\ UNCHANGED <<pCurrPacket_, should_wait_next_tick, isCondemn_, open, todo,
                 wire, intact, damaged>>

\* ACE_OutputCDR finds no room in the buffer and chains a second block; the
\* senders only know the first.
WriteChains(c, k) ==
  /\ open[c] /\ todo = {}
  /\ written[c] + k <= MaxBytes
  /\ ~NeedsPacket(c)
  /\ k <= RemainSize(c)
  /\ ~Fits(LastPacket(c), k)
  /\ packets_' = [packets_ EXCEPT ![c][Len(packets_[c])].chained = TRUE]
  /\ damaged' = [damaged EXCEPT ![c] = TRUE]
  /\ written' = [written EXCEPT ![c] = @ + k]
  /\ UNCHANGED <<pCurrPacket_, should_wait_next_tick, isCondemn_, open, todo,
                 wire, intact>>

-----------------------------------------------------------------------------
(* send_buffered_bundle.                                                    *)

Visits(c) == c \in todo /\ todo' = todo \ {c}

\* What the socket was given is in order: it starts at the peer's next byte
\* and has no gaps.
Chain(q, w) ==
  /\ Len(q) > 0 => q[1].lo = w
  /\ \A i \in 1..Len(q) - 1 : q[i].hi = q[i + 1].lo

\* The socket has taken m whole packets and k bytes of the next.
Sends(c, m, k) ==
  LET given == SubSeq(packets_[c], 1, IF k > 0 THEN m + 1 ELSE m)
  IN  /\ wire' = [wire EXCEPT ![c] =
            IF k > 0 THEN packets_[c][m + 1].lo + k
            ELSE IF m > 0 THEN packets_[c][m].hi ELSE @]
      /\ intact' = [intact EXCEPT ![c] = @ /\ Chain(given, wire[c])]

Short(c) == length(LastPacket(c)) < MaxSize

\* The flag after the reset at the top: set if there are several packets.
Flag(c) == should_wait_next_tick \/ Len(packets_[c]) > 1

\* The last packet is held back.
Holds(c) == Short(c) /\ Flag(c)

\* The flag when the last packet has been offered to the socket or not.
FlagAfter(c, offered) == IF offered /\ Short(c) THEN TRUE ELSE Flag(c)

Active(c) == open[c] /\ ~isCondemn_[c] /\ packets_[c] # <<>>

\* Nothing to send.
TickIdle(c) ==
  /\ Visits(c)
  /\ ~open[c] \/ (~isCondemn_[c] /\ packets_[c] = <<>>)
  /\ UNCHANGED <<packets_, pCurrPacket_, should_wait_next_tick, isCondemn_,
                 open, written, wire, intact, damaged>>

\* on_error: the channel goes back to its pool, and with it its packets.
Gone(c) ==
  /\ open' = [open EXCEPT ![c] = FALSE]
  /\ packets_' = [packets_ EXCEPT ![c] = <<>>]
  /\ pCurrPacket_' = [pCurrPacket_ EXCEPT ![c] = FALSE]

TickCondemned(c) ==
  /\ Visits(c)
  /\ open[c] /\ isCondemn_[c]
  /\ Gone(c)
  /\ UNCHANGED <<should_wait_next_tick, isCondemn_, written, wire, intact,
                 damaged>>

\* Mutant: the held packet leaves the flag set.
TickHoldsForever(c) ==
  LET n == Len(packets_[c])
  IN  /\ Visits(c)
      /\ Active(c) /\ Holds(c)
      /\ Sends(c, n - 1, 0)
      /\ packets_' = [packets_ EXCEPT ![c] = <<LastPacket(c)>>]
      /\ should_wait_next_tick' = TRUE
      /\ UNCHANGED <<pCurrPacket_, isCondemn_, open, written, damaged>>

\* All packets but the last are sent; the last waits for the next tick.
TickHolds(c) ==
  LET n == Len(packets_[c])
  IN  /\ Visits(c)
      /\ Active(c) /\ Holds(c)
      /\ Sends(c, n - 1, 0)
      /\ packets_' = [packets_ EXCEPT ![c] = <<LastPacket(c)>>]
      /\ should_wait_next_tick' = FALSE
      /\ UNCHANGED <<pCurrPacket_, isCondemn_, open, written, damaged>>

\* Mutant: pCurrPacket_ keeps pointing at the packet given back to the pool.
TickFlushesStale(c) ==
  /\ Visits(c)
  /\ Active(c) /\ ~Holds(c)
  /\ Sends(c, Len(packets_[c]), 0)
  /\ packets_' = [packets_ EXCEPT ![c] = <<>>]
  /\ should_wait_next_tick' = FlagAfter(c, TRUE)
  /\ UNCHANGED <<pCurrPacket_, isCondemn_, open, written, damaged>>

\* Everything is sent.
TickFlushes(c) ==
  /\ Visits(c)
  /\ Active(c) /\ ~Holds(c)
  /\ Sends(c, Len(packets_[c]), 0)
  /\ packets_' = [packets_ EXCEPT ![c] = <<>>]
  /\ pCurrPacket_' = [pCurrPacket_ EXCEPT ![c] = FALSE]
  /\ should_wait_next_tick' = FlagAfter(c, TRUE)
  /\ UNCHANGED <<isCondemn_, open, written, damaged>>

\* Mutants: the sent bytes of the split packet are offered again; the split
\* packet is erased with the sent ones if others follow; rd_ptr moves the
\* wrong way.
RestRepeats(c, m, k) == SubSeq(packets_[c], m + 1, Len(packets_[c]))

RestDrops(c, m, k) ==
  LET n == Len(packets_[c])
  IN  SubSeq(packets_[c], IF m + 2 <= n THEN m + 2 ELSE n, n)

RestRewinds(c, m, k) ==
  [SubSeq(packets_[c], m + 1, Len(packets_[c])) EXCEPT ![1].lo = @ - k]

\* What stays behind: packets after the first m, rd_ptr of the next moved by k.
Rest(c, m, k) ==
  [i \in 1..Len(packets_[c]) - m |->
     IF i = 1
     THEN [packets_[c][m + 1] EXCEPT !.lo = @ + k, !.off = @ + k]
     ELSE packets_[c][m + i]]

\* Packet m + 1 is offered to the socket in this tick.
Offered(c, m) == m < Len(packets_[c]) - 1 \/ (m = Len(packets_[c]) - 1 /\ ~Holds(c))

\* The send window: zero switches a limit off.
Overflows(n) == Critical > 0 /\ n > Critical /\ Overflow > 0 /\ n > Overflow

\* The socket is full after m packets and k bytes of the next.
TickBlocks(c, m, k) ==
  LET n == Len(packets_[c])
  IN  /\ Visits(c)
      /\ Active(c)
      /\ Offered(c, m)
      /\ k < length(packets_[c][m + 1])
      /\ Sends(c, m, k)
      /\ packets_' = [packets_ EXCEPT ![c] = Rest(c, m, k)]
      /\ should_wait_next_tick' = FlagAfter(c, m = n - 1)
      /\ isCondemn_' = [isCondemn_ EXCEPT ![c] = Overflows(n - m)]
      /\ UNCHANGED <<pCurrPacket_, open, written, damaged>>

\* The socket fails after m packets: the exception is reported, on_error.
TickFails(c, m) ==
  /\ Visits(c)
  /\ Active(c)
  /\ Offered(c, m)
  /\ Sends(c, m, 0)
  /\ Gone(c)
  /\ should_wait_next_tick' = FlagAfter(c, m = Len(packets_[c]) - 1)
  /\ UNCHANGED <<isCondemn_, written, damaged>>

\* The receive path or the timer takes the channel away between two sweeps.
Leaves(c) ==
  /\ todo = {}
  /\ open[c]
  /\ Gone(c)
  /\ UNCHANGED <<should_wait_next_tick, isCondemn_, todo, written, wire,
                 intact, damaged>>

BeginSweep ==
  /\ todo = {}
  /\ todo' = {c \in Chan : open[c]}
  /\ UNCHANGED <<packets_, pCurrPacket_, should_wait_next_tick, isCondemn_,
                 open, written, wire, intact, damaged>>

-----------------------------------------------------------------------------

Init ==
  /\ packets_ = [c \in Chan |-> <<>>]
  /\ pCurrPacket_ = [c \in Chan |-> FALSE]
  /\ should_wait_next_tick = TRUE
  /\ isCondemn_ = [c \in Chan |-> FALSE]
  /\ open = [c \in Chan |-> TRUE]
  /\ todo = {}
  /\ written = [c \in Chan |-> 0]
  /\ wire = [c \in Chan |-> 0]
  /\ intact = [c \in Chan |-> TRUE]
  /\ damaged = [c \in Chan |-> FALSE]

Write(c) ==
  \E k \in 1..MaxSize : WriteFresh(c, k) \/ WriteJoins(c, k) \/ WriteChains(c, k)

Tick(c) ==
  \/ TickIdle(c)
  \/ TickCondemned(c)
  \/ TickHolds(c)
  \/ TickFlushes(c)
  \/ \E m \in 0..Len(packets_[c]) - 1 :
       TickFails(c, m) \/ \E k \in 0..MaxSize + Slack : TickBlocks(c, m, k)

Next == BeginSweep \/ \E c \in Chan : Write(c) \/ Tick(c) \/ Leaves(c)

Spec == Init /\ [][Next]_vars

\* Nub::startLoop goes on and every sweep ends.  Nothing is assumed of the
\* sockets: a peer may never read.
Fairness ==
  /\ WF_vars(BeginSweep)
  /\ \A c \in Chan : WF_vars(Tick(c))

FairSpec == Spec /\ Fairness

-----------------------------------------------------------------------------
(* Properties.                                                             *)

\* Through every pattern of full sockets, partial sends and held packets, the
\* bytes buffered are exactly the ones not sent yet, in order, and what was
\* sent was in order; unless ACE has chained a block the senders do not know.
StreamIntact ==
  \A c \in Chan :
    open[c] /\ ~damaged[c] =>
      /\ intact[c]
      /\ Chain(packets_[c], wire[c])
      /\ packets_[c] = <<>> => wire[c] = written[c]
      /\ packets_[c] # <<>> => LastPacket(c).hi = written[c]

\* pCurrPacket_ never points at a packet that was given back to the pool: it
\* is set exactly while the bundle has packets, and then means the last one.
CurrentIsLast ==
  \A c \in Chan : pCurrPacket_[c] <=> packets_[c] # <<>>

\* No packet in the container is empty, so every send makes progress; and only
\* the first, after a partial send, starts behind its buffer's base.
PacketsNonEmpty ==
  \A c \in Chan : \A i \in 1..Len(packets_[c]) :
    /\ packets_[c][i].lo < packets_[c][i].hi
    /\ i > 1 => packets_[c][i].off = 0

\* What is buffered lies between what the peer has and what was written, and
\* earlier packets hold earlier bytes.
PacketsBetween ==
  \A c \in Chan : open[c] /\ ~damaged[c] =>
    /\ wire[c] <= written[c]
    /\ \A i \in 1..Len(packets_[c]) :
         wire[c] <= packets_[c][i].lo /\ packets_[c][i].hi <= written[c]
    /\ \A i, j \in 1..Len(packets_[c]) :
         i < j => packets_[c][i].hi <= packets_[c][j].lo

IInv == TypeOK /\ StreamIntact /\ CurrentIsLast /\ PacketsNonEmpty /\ PacketsBetween

\* The peer of c keeps reading: a socket that is offered bytes again and again
\* takes some again and again.
PeerReads(c) == SF_vars(Tick(c) /\ wire'[c] > wire[c])

Taken(c, b) == wire[c] >= b \/ ~open[c] \/ damaged[c]

\* If the peer of c keeps reading, every byte before the last packet of c goes
\* out, whatever the other channels and their peers do.  The last packet goes
\* out too once the others have nothing buffered; not before: a channel that
\* comes along in every sweep with a short packet, because its peer does not
\* read or because it is written to, sets the flag all channels share, and
\* the last packet of c is held back in every sweep.
Drains ==
  \A c \in Chan : PeerReads(c) =>
    \A b \in 1..MaxBytes :
      /\ (Len(packets_[c]) > 1 /\ b <= LastPacket(c).lo) ~> Taken(c, b)
      /\ <>[](\A d \in Chan \ {c} : packets_[d] = <<>>)
           => (b <= written[c]) ~> Taken(c, b)

\* Each channel's stream is the one ByteStream describes.
Stream(c) ==
  INSTANCE ByteStream WITH
    written   <- written[c],
    delivered <- IF intact[c] THEN wire[c] ELSE -1,
    up        <- open[c] /\ ~damaged[c]

ImplementsByteStream ==
  /\ \A c \in Chan : Stream(c)!Init
  /\ [][\A c \in Chan : [Stream(c)!Next]_(Stream(c)!vars)]_vars

\* Bundle.h:151: calculate_avaiable_space_of_curr_packet returns "the
\* actually-writable space size in current packet".
RoomIsWritable == \A c \in Chan : ~damaged[c]
=============================================================================
