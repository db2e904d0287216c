---------------------------- MODULE ChannelRecv -----------------------------
(***************************************************************************)
(* The receiving half of a connection: TCP_SOCK_Handler::handle_input calls *)
(* process_recv until the socket has nothing more; every packet received    *)
(* goes through update_recv_window, which has PacketReader process it       *)
(* before the next recv.  The reader is the one of PacketReader; a recv     *)
(* that returns bytes is its Receive, process_packets its Begin.            *)
(*                                                                         *)
(* recv returns bytes, 0, or an error: nothing there, reset, or another one *)
(* after which the loop goes on.  The limits of the receive window do not   *)
(* apply: the scope they are for is compared with protocolType_, which is   *)
(* never EXTERNAL on a TCP channel, and the others only warn.  The reply    *)
(* update_recv_window writes after each packet is a Write of ChannelSend.   *)
(***************************************************************************)
EXTENDS PacketReader

VARIABLES
  handler,     \* handle_input: not running, in its first or a later recv
  gone,        \* on_error has taken the channel down
  errors       \* flips with every error after which recv is tried again

recvVars == <<vars, handler, gone, errors>>

\* The variables hold values of their types.
RecvTypeOK ==
  /\ TypeOK
  /\ handler \in {"waiting", "first", "more"}
  /\ gone \in BOOLEAN /\ errors \in BOOLEAN

-----------------------------------------------------------------------------

\* The reactor finds the socket readable.
HandleInput ==
  /\ handler = "waiting" /\ ~gone
  /\ handler' = "first"
  /\ UNCHANGED <<vars, gone, errors>>

\* process_recv is entered: what was received before has been processed.
Enters == handler # "waiting" /\ pc = "idle" /\ recvPackets_ = <<>>

Usable == Enters /\ ~isCondemn_

\* Mutant: the handler returns after one packet.
AfterPacketReturns == "waiting"

\* process_recv returns true.
AfterPacket == "more"

\* recv returns n bytes: on_packet_received, update_recv_window.
RecvBytes(n) ==
  /\ Usable
  /\ Receive(n)
  /\ handler' = AfterPacket
  /\ UNCHANGED <<gone, errors>>

\* update_recv_window processes the packet at once.
Processes == (Begin \/ Step) /\ UNCHANGED <<handler, gone, errors>>

\* Nothing there, or refused or unreachable: reported if bytes were expected,
\* RECV_STATE_BREAK.
RecvWouldBlock ==
  /\ Usable
  /\ handler' = "waiting"
  /\ UNCHANGED <<vars, gone, errors>>

\* Another error is reported: RECV_STATE_CONTINUE, and recv is tried again at
\* once, as often as the error comes.
RecvFails ==
  /\ Usable
  /\ handler' = "more"
  /\ errors' = ~errors
  /\ UNCHANGED <<vars, gone>>

\* Reset, or all read and the peer has closed: on_error.
RecvEnds ==
  /\ Usable
  /\ gone' = TRUE
  /\ handler' = "waiting"
  /\ UNCHANGED <<vars, errors>>

\* Mutant: the condemned channel is left as it is and the loop goes on.
RecvCondemnedGoesOn ==
  /\ Enters /\ isCondemn_
  /\ handler' = "more"
  /\ UNCHANGED <<vars, gone, errors>>

\* A channel the reader has condemned goes down before the next recv.
RecvCondemned ==
  /\ Enters /\ isCondemn_
  /\ gone' = TRUE
  /\ handler' = "waiting"
  /\ UNCHANGED <<vars, errors>>

PeerSends(k) == Send(k) /\ UNCHANGED <<handler, gone, errors>>

RecvInit == Init /\ handler = "waiting" /\ gone = FALSE /\ errors = FALSE

ProcessRecv ==
  \/ \E n \in 1..total : RecvBytes(n)
  \/ RecvWouldBlock \/ RecvFails \/ RecvEnds \/ RecvCondemned

RecvNext ==
  \/ \E k \in Kinds : PeerSends(k)
  \/ HandleInput
  \/ ProcessRecv
  \/ Processes

RecvSpec == RecvInit /\ [][RecvNext]_recvVars

\* The reactor calls a handler whose socket is readable, recv returns with one
\* outcome or another, the reader runs on, and what the peer sent arrives in
\* the end.  The peer need never close, and errors may come for ever.
RecvFairness ==
  /\ WF_recvVars(HandleInput)
  /\ WF_recvVars(ProcessRecv)
  /\ WF_recvVars(Processes)
  /\ SF_recvVars(\E n \in 1..total : RecvBytes(n))

RecvFairSpec == RecvSpec /\ RecvFairness

-----------------------------------------------------------------------------
(* The inductive invariant.                                                 *)

\* At most one packet is in hand, none where handle_input is not running or
\* the channel is condemned.
Settled ==
  /\ Len(recvPackets_) <= 1
  /\ handler = "waiting" \/ isCondemn_ => pc = "idle" /\ recvPackets_ = <<>>

-----------------------------------------------------------------------------
(* Properties.                                                             *)

Lost == pc \in {"wild", "derailed"}

\* handle_input does not return while the channel it worked for is condemned
\* and alive: the loop always comes round to the recv that takes it down.
CondemnedClosed == handler = "waiting" => ~isCondemn_ \/ gone

RecvIInv == IInv /\ Settled /\ CondemnedClosed

\* No message is handled for a channel once one of its messages was refused:
\* processMessages itself would go on with the next packet.
NothingAfterRefusal == [][isCondemn_ => handled' = handled]_recvVars

\* handle_input returns to the reactor, however much is received and whatever
\* the reader makes of it, unless errors it tries again after keep coming: a
\* single one, or any number that ends, does not keep the thread.
HandlerReturns ==
  \/ []<><<RecvFails>>_recvVars
  \/ (handler # "waiting") ~> (handler = "waiting" \/ Lost)

\* Every message the peer sent is handled, unless the connection ends or
\* meets a case the reader does not master.
EveryMessageHandled ==
  (Len(handled) < Len(sent)) ~>
    (Len(handled) = Len(sent) \/ isCondemn_ \/ gone \/ faults # {} \/ Lost)
=============================================================================
