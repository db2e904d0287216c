---------------------------- MODULE FramedStream ----------------------------
(***************************************************************************)
(* The stream between two ends: whole messages one behind the other, each   *)
(* an id, for a variable one a length, for a long one an extended length,   *)
(* and the body.  Bundle writes such a stream (BundleStream), PacketReader  *)
(* reads one.                                                               *)
(***************************************************************************)
EXTENDS Integers, Sequences

CONSTANTS
  Kinds,       \* messages: their fields variable and len
  IdSize, LenSize, Len1Size,
  MaxSize      \* NETWORK_MESSAGE_MAX_SIZE, the largest MessageLength

VARIABLES
  sent,        \* the messages: [kind, at], at the position of the id
  total        \* bytes of the stream

Long(k) == k.variable /\ k.len >= MaxSize

HeaderSize(k) ==
  IdSize + (IF k.variable THEN LenSize ELSE 0) + (IF Long(k) THEN Len1Size ELSE 0)

Size(k) == HeaderSize(k) + k.len

Sends(k) ==
  /\ sent' = Append(sent, [kind |-> k, at |-> total])
  /\ total' = total + Size(k)

StreamInit == sent = <<>> /\ total = 0

StreamSpec == StreamInit /\ [][\E k \in Kinds : Sends(k)]_<<sent, total>>
=============================================================================
