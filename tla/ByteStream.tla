----------------------------- MODULE ByteStream -----------------------------
(***************************************************************************)
(* What a channel promises its peer: the bytes handed to the bundle reach   *)
(* the socket in order, each once, none skipped, until the stream is down.  *)
(* Nothing is promised of a stream that is down.                            *)
(***************************************************************************)
EXTENDS Integers

VARIABLES
  written,     \* bytes the application has put into the bundle
  delivered,   \* length of the prefix of them the socket has taken
  up

vars == <<written, delivered, up>>

Init == written = 0 /\ delivered = 0 /\ up

Write ==
  /\ up /\ up'
  /\ written' > written
  /\ UNCHANGED delivered

Deliver ==
  /\ up /\ up'
  /\ delivered' > delivered /\ delivered' <= written
  /\ UNCHANGED written

GoDown == up /\ ~up'

Down == ~up /\ ~up'

Next == Write \/ Deliver \/ GoDown \/ Down

Spec == Init /\ [][Next]_vars
=============================================================================
