------------------------------- MODULE Bundle -------------------------------
(***************************************************************************)
(* How Bundle lays messages out in packets: the id, for a variable message  *)
(* a placeholder for the length, the body, and at the end the length filled *)
(* in, found again by counting packets back from the last.  A length of     *)
(* NETWORK_MESSAGE_MAX_SIZE or more is written as that mark, and an         *)
(* extended length is inserted behind it.                                   *)
(***************************************************************************)
EXTENDS Integers, Sequences

CONSTANTS
  PacketSize,  \* currPacketMaxSize
  Len1Size,    \* NETWORK_MESSAGE_LENGTH1_SIZE; ids and lengths have two bytes
  MaxSize,     \* NETWORK_MESSAGE_MAX_SIZE
  Wrap,        \* modulus of MessageLength1
  MaxBody,     \* bound: bytes of a body
  MaxPackets   \* bound: packets of the bundle when a message starts

ASSUME BUAssumption ==
  /\ PacketSize \in Nat /\ PacketSize >= 4
  /\ Len1Size \in Nat
  /\ MaxSize \in Nat /\ MaxSize > PacketSize
  /\ MaxBody \in Nat /\ MaxPackets \in Nat
  /\ Wrap \in Nat /\ Wrap > MaxBody

VARIABLES
  used,                \* packets_: bytes in each, the last is pCurrPacket_
  phase,
  variable,            \* the type of the current message
  currMsgPacketCount_,
  currMsgLength_,
  currMsgLengthPos_,   \* packet and offset of the placeholder
  body,                \* bytes of the current message's body
  clean,               \* nothing went wrong with the current message's header
  frame                \* the last variable message finished

vars == <<used, phase, variable, currMsgPacketCount_, currMsgLength_,
          currMsgLengthPos_, body, clean, frame>>

NoFrame == [len |-> 0, body |-> 0, inPlace |-> TRUE, clean |-> TRUE]

\* The variables hold values of their types.
TypeOK ==
  /\ used \in Seq(Nat)
  /\ phase \in {"idle", "open", "aborted"}
  /\ variable \in BOOLEAN
  /\ currMsgPacketCount_ \in Nat
  /\ currMsgLength_ \in Nat
  /\ currMsgLengthPos_ \in [packet : Nat, offset : Nat]
  /\ body \in 0..MaxBody
  /\ clean \in BOOLEAN
  /\ frame \in [len : Nat, body : 0..MaxBody, inPlace : BOOLEAN, clean : BOOLEAN]

-----------------------------------------------------------------------------
(* The writer: the packets, the packets opened for the message, its length. *)

Writer == [used : Seq(Nat), count : Nat, length : Nat]

Fill(w) == w.used[Len(w.used)]

Full(w) == Fill(w) >= PacketSize

\* Mutant: a new packet is not counted to the message.
OpenUncounted(w) ==
  IF Full(w)
  THEN [used |-> Append(w.used, 0), count |-> w.count, length |-> w.length]
  ELSE w

\* A full packet is left for a new one.
Open(w) ==
  IF Full(w)
  THEN [used |-> Append(w.used, 0), count |-> w.count + 1, length |-> w.length]
  ELSE w

Room(w, n) == IF PacketSize - Fill(w) < n THEN PacketSize - Fill(w) ELSE n

\* n bytes into the current packet, m of them counted to the message.
Put(w, n, m) ==
  [used |-> [w.used EXCEPT ![Len(w.used)] = @ + n],
   count |-> w.count, length |-> w.length + m]

\* operator<<(UShort): cut in two at the end of a packet, and then both parts
\* are taken from the packet's rd_ptr in place of the value.
Short(w) ==
  LET o == Open(w)
      n == Room(o, 2)
      p == Put(o, n, n)
  IN  IF n = 2 THEN p ELSE Put(Open(p), 2 - n, 2 - n)

\* write_short_placeholder takes two bytes, whatever room was found.
Placeholder(w) == LET o == Open(w) IN Put(o, 2, Room(o, 2))

-----------------------------------------------------------------------------

Writes(w, opened) ==
  /\ used' = w.used
  /\ currMsgPacketCount_' = w.count + opened
  /\ currMsgLength_' = w.length

Packets == IF used = <<>> THEN <<0>> ELSE used

NewWriter == [used |-> Packets, count |-> 0, length |-> 0]

\* The header fits behind what is in the packet.
Fits(w, n) == Fill(w) + n <= PacketSize

StartFixed ==
  LET w == NewWriter
      i == Short(w)
  IN  /\ phase = "idle"
      /\ Len(used) <= MaxPackets
      /\ phase' = "open"
      /\ variable' = FALSE
      /\ Writes(i, 1)
      /\ clean' = Fits(w, 2)
      /\ body' = 0
      /\ UNCHANGED <<currMsgLengthPos_, frame>>

StartVariable ==
  LET w == NewWriter
      i == Short(w)
      p == Placeholder(i)
  IN  /\ phase = "idle"
      /\ Len(used) <= MaxPackets
      /\ phase' = "open"
      /\ variable' = TRUE
      /\ Writes(p, 1)
      /\ currMsgLengthPos_' = [packet |-> Len(p.used), offset |-> Fill(p) - 2]
      /\ clean' = Fits(w, 4)
      /\ body' = 0
      /\ UNCHANGED frame

\* One turn of a copying loop, of at most n bytes.
Write(n) ==
  LET w == [used |-> used, count |-> currMsgPacketCount_, length |-> currMsgLength_]
      o == Open(w)
      m == Room(o, n)
  IN  /\ phase = "open"
      /\ body + n <= MaxBody
      /\ Writes(Put(o, m, m), 0)
      /\ body' = body + m
      /\ UNCHANGED <<phase, variable, currMsgLengthPos_, clean, frame>>

-----------------------------------------------------------------------------
(* end_new_curr_message.                                                    *)

Ends ==
  /\ phase = "open"
  /\ phase' = "idle"
  /\ currMsgPacketCount_' = 0
  /\ currMsgLength_' = 0
  /\ currMsgLengthPos_' = [packet |-> 0, offset |-> 0]
  /\ body' = 0
  /\ UNCHANGED <<variable, clean>>

\* A message of fixed length carries no length field, since
\* g_packetAlwaysContainLength is false (net_common.cpp:53) and nothing sets it.
EndFixed ==
  /\ ~variable
  /\ Ends
  /\ UNCHANGED <<used, frame>>

\* pPacket, the packet taken for the first of the message.
First == Len(used) - currMsgPacketCount_ + 1

\* Mutant: the length counts the id.
PayloadWithId == (currMsgLength_ - 2) % Wrap

\* The length without id and length, in MessageLength1.
Payload == (currMsgLength_ - 4) % Wrap

\* ACE_OutputCDR::replace finds the position in pPacket.
Replaces == currMsgLengthPos_.packet = First

\* Mutant: a length equal to the mark is written as an ordinary one.
EndShortAtMark ==
  /\ variable
  /\ Payload <= MaxSize /\ Replaces
  /\ Ends
  /\ frame' = [len |-> Payload, body |-> body, inPlace |-> TRUE, clean |-> clean]
  /\ UNCHANGED used

EndShort ==
  /\ variable
  /\ Payload < MaxSize /\ Replaces
  /\ Ends
  /\ frame' = [len |-> Payload, body |-> body, inPlace |-> TRUE, clean |-> clean]
  /\ UNCHANGED used

\* Where the extended length goes: behind the length, but in a packet without
\* room for it behind the first header of the packet.
ExtendedAt ==
  IF Len1Size > PacketSize - used[First] THEN 4 ELSE currMsgLengthPos_.offset + 2

EndLong ==
  /\ variable
  /\ Payload >= MaxSize /\ Replaces
  /\ Ends
  /\ used' = [i \in 1..Len(used) |->
                IF i = First THEN used[i] + Len1Size ELSE used[i]]
  /\ frame' = [len |-> Payload, body |-> body,
               inPlace |-> ExtendedAt = currMsgLengthPos_.offset + 2,
               clean |-> clean /\ currMsgLengthPos_.offset = 2]

\* The assertion around replace fails.
EndAborts ==
  /\ phase = "open"
  /\ variable /\ ~Replaces
  /\ phase' = "aborted"
  /\ UNCHANGED <<used, variable, currMsgPacketCount_, currMsgLength_,
                 currMsgLengthPos_, body, clean, frame>>

\* send_buffered_bundle has sent everything.
Flush ==
  /\ phase = "idle"
  /\ used' = <<>>
  /\ UNCHANGED <<phase, variable, currMsgPacketCount_, currMsgLength_,
                 currMsgLengthPos_, body, clean, frame>>

Init ==
  /\ used = <<>> /\ phase = "idle"
  /\ variable = FALSE
  /\ currMsgPacketCount_ = 0 /\ currMsgLength_ = 0
  /\ currMsgLengthPos_ = [packet |-> 0, offset |-> 0]
  /\ body = 0
  /\ clean = TRUE
  /\ frame = NoFrame

Next ==
  \/ StartFixed \/ StartVariable
  \/ \E n \in 1..MaxBody : Write(n)
  \/ EndFixed \/ EndShort \/ EndLong \/ EndAborts
  \/ Flush

Spec == Init /\ [][Next]_vars

-----------------------------------------------------------------------------
(* Properties.                                                             *)

\* A variable message whose header fitted into the packet it began in, and
\* that, if long, began the packet, declares the length of its body, at its
\* own place, however many packets the body took and whatever was before it.
FramedAsWritten == frame.clean => frame.len = frame.body /\ frame.inPlace

\* end_new_curr_message never fails on such a message.
CleanNeverAborts == phase = "aborted" => ~clean

\* The counters of an open message agree with what has been written.
CountersAgree ==
  phase = "open" =>
    /\ used # <<>>
    /\ variable /\ clean => currMsgLength_ = body + 4 /\ Replaces

IInv == TypeOK /\ FramedAsWritten /\ CleanNeverAborts /\ CountersAgree
=============================================================================
