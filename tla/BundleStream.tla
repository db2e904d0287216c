---------------------------- MODULE BundleStream ----------------------------
(***************************************************************************)
(* The packets of Bundle, joined, as a stream of messages: what Bundle lays *)
(* out is what PacketReader expects.  The variables are a history; the      *)
(* stream is followed as long as every message was clean.                   *)
(***************************************************************************)
EXTENDS Bundle

CONSTANT MaxMsgs  \* bound: messages of the stream

VARIABLES
  base,     \* stream position of the first byte of each packet
  flushed,  \* bytes of the packets sent before
  start,    \* stream position of the id of the current message
  sent, total,
  ok        \* every message so far was clean

stream == <<base, flushed, start, sent, total, ok>>

Framed == INSTANCE FramedStream
  WITH Kinds <- [variable : BOOLEAN, len : 0..MaxBody], IdSize <- 2, LenSize <- 2

\* The position behind the last byte written.
End == IF used = <<>> THEN flushed ELSE base[Len(used)] + used[Len(used)]

\* A packet opened begins where the last one ended.
PacketsAt ==
  base' = IF ~ok' THEN <<>>
          ELSE IF Len(used') > Len(base) THEN Append(base, End) ELSE base

Starts ==
  /\ Len(sent) < MaxMsgs
  /\ StartFixed \/ StartVariable
  /\ ok' = (ok /\ clean')
  /\ PacketsAt
  /\ start' = IF ok' THEN End ELSE 0
  /\ UNCHANGED <<flushed, sent, total>>

WritesBody ==
  /\ \E n \in 1..MaxBody : Write(n)
  /\ UNCHANGED <<flushed, start, sent, total, ok>>
  /\ PacketsAt

\* The message as it declares itself.
Declared == [variable |-> variable, len |-> IF variable THEN frame'.len ELSE body]

\* The message becomes one of the stream, which is as long as the packets are.
Joins ==
  /\ start' = 0
  /\ sent' = IF ok' THEN Append(sent, [kind |-> Declared, at |-> start]) ELSE sent
  /\ total' = IF ok' THEN End' ELSE total
  /\ UNCHANGED flushed

EndsInPlace ==
  /\ EndFixed \/ EndShort
  /\ UNCHANGED <<base, ok>>
  /\ Joins

\* The inserted length pushes the packets behind its own.
EndsLonger ==
  /\ EndLong
  /\ ok' = (ok /\ frame'.clean)
  /\ base' = IF ~ok' THEN <<>>
             ELSE [i \in 1..Len(base) |-> IF i > First THEN base[i] + Len1Size ELSE base[i]]
  /\ Joins

Aborts == EndAborts /\ UNCHANGED stream

Flushes ==
  /\ Flush
  /\ base' = <<>>
  /\ flushed' = IF ok THEN End ELSE flushed
  /\ UNCHANGED <<start, sent, total, ok>>

BSInit ==
  /\ Init
  /\ base = <<>> /\ flushed = 0 /\ start = 0
  /\ sent = <<>> /\ total = 0 /\ ok = TRUE

BSNext == Starts \/ WritesBody \/ EndsInPlace \/ EndsLonger \/ Aborts \/ Flushes

BSSpec == BSInit /\ [][BSNext]_<<vars, stream>>

-----------------------------------------------------------------------------
(* Properties.                                                             *)

\* The messages ended by end_new_curr_message, with the lengths they declare,
\* make a stream as PacketReader expects it: each begins where the last ended
\* and is as long as its id, its lengths and the body it declares.
ImplementsFramedStream == Framed!StreamSpec

\* The place of the length, as a position of the stream.
LengthAt == base[currMsgLengthPos_.packet] + currMsgLengthPos_.offset

\* What end_new_curr_message fills in lies where PacketReader looks for it:
\* the length behind the id, the extended length behind the length.
FieldsInPlace ==
  [][ sent' # sent /\ variable =>
        /\ LengthAt = start + 2
        /\ EndLong => base[First] + ExtendedAt = start + 4 ]_<<vars, stream>>

\* The packets lie in the stream one behind the other.
InLine ==
  ok =>
    /\ base \in Seq(Nat) /\ Len(base) = Len(used)
    /\ \A i \in 1..Len(used) - 1 : base[i + 1] = base[i] + used[i]
    /\ used # <<>> => base[1] = flushed

\* The stream ends with the last message, or with what is written of the next.
StreamInv ==
  ok =>
    /\ phase = "idle" => End = total
    /\ phase = "open" =>
         /\ clean
         /\ start = total
         /\ End = total + (IF variable THEN 4 ELSE 2) + body
         /\ variable => LengthAt = total + 2 /\ currMsgLengthPos_.packet \in 1..Len(used)

\* The history variables hold values of their types.
BSTypeOK ==
  /\ base \in Seq(Nat) /\ flushed \in Nat /\ start \in Nat /\ total \in Nat
  /\ sent \in Seq([kind : [variable : BOOLEAN, len : 0..MaxBody], at : Nat])
  /\ ok \in BOOLEAN

\* The inductive invariant.
BSIInv == IInv /\ BSTypeOK /\ InLine /\ StreamInv
=============================================================================
