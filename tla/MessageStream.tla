--------------------------- MODULE MessageStream ----------------------------
(***************************************************************************)
(* What the receiving end of a channel promises the message handlers: the   *)
(* peer's messages come in the order they were sent, each whole and once,   *)
(* none skipped, until the stream is down.  Nothing is promised of a stream *)
(* that is down.                                                            *)
(***************************************************************************)
EXTENDS Integers, Sequences

VARIABLES
  sent,        \* the peer's messages
  handled,     \* those given to their handlers
  up

vars == <<sent, handled, up>>

Init == sent = <<>> /\ handled = <<>> /\ up = TRUE

\* t is s with one more element.
Extends(t, s) == Len(t) = Len(s) + 1 /\ \A i \in 1..Len(s) : t[i] = s[i]

Send ==
  /\ up /\ up'
  /\ Extends(sent', sent)
  /\ UNCHANGED handled

Handle ==
  /\ up /\ up'
  /\ Len(handled) < Len(sent)
  /\ handled' = Append(handled, sent[Len(handled) + 1])
  /\ UNCHANGED sent

GoDown == up /\ ~up'

Down == ~up /\ ~up'

Next == Send \/ Handle \/ GoDown \/ Down

Spec == Init /\ [][Next]_vars
=============================================================================
