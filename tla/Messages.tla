------------------------------ MODULE Messages ------------------------------
(***************************************************************************)
(* Message ids: Messages::add_msg gives every message of a table its id.    *)
(* Names listed in messages_fixed.xml have the id written there, the others *)
(* take the next id that is not written there.  All tables of a process     *)
(* share one FixedMessages, which the constructor of a table loads unless   *)
(* an earlier one has.  Tables are globals: the order in which they are     *)
(* built and filled is the linker's, and the file may not be found yet.     *)
(***************************************************************************)
EXTENDS Integers, Sequences, FiniteSets

CONSTANTS
  Tables,      \* the Messages objects
  Names,       \* message names
  NoMsg,       \* no entry in msgs_
  Config,      \* messages_fixed.xml: from the fixed names to their ids
  Wrap         \* modulus of MessageID

ASSUME MSAssumption ==
  /\ Wrap \in Nat \ {0, 1}
  /\ IsFiniteSet(Names) /\ Cardinality(Names) < Wrap
  /\ NoMsg \notin Names
  /\ DOMAIN Config \subseteq Names
  /\ \A m, n \in DOMAIN Config :
       Config[n] \in 1..Wrap - 1 /\ (Config[m] = Config[n] => m = n)

VARIABLES
  loaded_,
  built,       \* tables whose constructor has run
  msgID_,      \* per table: the next id
  msgs_,       \* per table: the map from ids to messages
  order,       \* per table: the names in the order they were added
  early        \* per table: how many of them before the file was loaded

vars == <<loaded_, built, msgID_, msgs_, order, early>>

Ids == 0..Wrap - 1

\* The variables hold values of their types: an id has the width of MessageID.
TypeOK ==
  /\ loaded_ \in BOOLEAN
  /\ built \subseteq Tables
  /\ msgID_ \in [Tables -> Ids]
  /\ msgs_ \in [Tables -> [Ids -> Names \cup {NoMsg}]]
  /\ order \in [Tables -> Seq(Names)]
  /\ early \in [Tables -> Nat]

-----------------------------------------------------------------------------

\* infomap_ is empty until the file has been read.
Fixed == IF loaded_ THEN DOMAIN Config ELSE {}

\* FixedMessages::isFixed(msgid).
isFixed(id) == \E n \in Fixed : Config[n] = id

\* loadConfig finds the file or not; once loaded it is not read again.
Construct(t) ==
  /\ t \notin built
  /\ built' = built \cup {t}
  /\ loaded_' \in {loaded_, TRUE}
  /\ UNCHANGED <<msgID_, msgs_, order, early>>

Added(t) == {order[t][i] : i \in 1..Len(order[t])}

\* The message goes into the map under its id, over whatever is there.  The
\* registration macros add each name to a table once; add_msg itself does not
\* look for the name and would give it a second id.
Enters(t, n, id) ==
  /\ t \in built /\ n \notin Added(t)
  /\ msgs_' = [msgs_ EXCEPT ![t][id] = n]
  /\ order' = [order EXCEPT ![t] = Append(@, n)]
  /\ early' = [early EXCEPT ![t] = IF loaded_ THEN @ ELSE @ + 1]
  /\ UNCHANGED <<loaded_, built>>

\* Mutant: a fixed message uses up an id as well.
AddFixedCounts(t, n) ==
  /\ n \in Fixed
  /\ Enters(t, n, Config[n])
  /\ msgID_' = [msgID_ EXCEPT ![t] = (@ + 1) % Wrap]

AddFixed(t, n) ==
  /\ n \in Fixed
  /\ Enters(t, n, Config[n])
  /\ UNCHANGED msgID_

\* Mutant: the fixed ids are not skipped.
NextFreeAny(id) == id

\* The loop over isFixed: the first id from here on that is nobody's.
NextFree(id) ==
  LET skips == CHOOSE d \in Ids :
                 /\ ~isFixed((id + d) % Wrap)
                 /\ \A e \in 0..d - 1 : isFixed((id + e) % Wrap)
  IN  (id + skips) % Wrap

\* Mutant: the counter has no width.
SuccessorWide(id) == id + 1

\* msgID_++
Successor(id) == (id + 1) % Wrap

AddFree(t, n) ==
  LET id == NextFree(msgID_[t])
  IN  /\ n \notin Fixed
      /\ Enters(t, n, id)
      /\ msgID_' = [msgID_ EXCEPT ![t] = Successor(id)]

Init ==
  /\ loaded_ = FALSE
  /\ built = {}
  /\ msgID_ = [t \in Tables |-> 1]
  /\ msgs_ = [t \in Tables |-> [id \in Ids |-> NoMsg]]
  /\ order = [t \in Tables |-> <<>>]
  /\ early = [t \in Tables |-> 0]

Next ==
  \E t \in Tables :
    \/ Construct(t)
    \/ \E n \in Names : AddFixed(t, n) \/ AddFree(t, n)

Spec == Init /\ [][Next]_vars

-----------------------------------------------------------------------------
(* Properties.                                                             *)

\* No name was added before the file that fixes others was there.
Settled(t) == loaded_ => early[t] = 0

\* The names of t without a fixed id among the first i.
FreeUpTo(t, i) == {order[t][j] : j \in 1..i} \ Fixed

\* The ids that are not fixed, up to id; none is 0, which PacketReader takes
\* for "no message".
FreeIds(id) == {j \in 1..id : ~isFixed(j)}

\* The k-th free name added has the k-th free id, wherever fixed names were
\* added between them and whatever other tables did: so two ends that add
\* their free names in the same order agree on every id.
IdsByRank ==
  \A t \in Tables : Settled(t) =>
    \A i \in 1..Len(order[t]) :
      LET n == order[t][i]
      IN  n \notin Fixed =>
            \E id \in 1..Wrap - 1 :
              /\ msgs_[t][id] = n
              /\ ~isFixed(id)
              /\ Cardinality(FreeIds(id)) = Cardinality(FreeUpTo(t, i))

\* No message of a settled table has been overwritten by another, and none
\* is found under two ids.
LookupSound ==
  \A t \in Tables : Settled(t) =>
    \A n \in Added(t) : Cardinality({id \in Ids : msgs_[t][id] = n}) = 1

\* Even in a table begun before the file was loaded, a fixed message added
\* after is found under the id the file gives it, and stays there.
FixedFound ==
  \A t \in Tables : \A i \in early[t] + 1..Len(order[t]) :
    order[t][i] \in DOMAIN Config => msgs_[t][Config[order[t][i]]] = order[t][i]

\* Two settled tables that have been given the same free names before a message
\* (the same file goes without saying) have it under the same id: what one end
\* sends, the other looks up under the name it was sent for.
EndsAgree ==
  \A t, u \in Tables : Settled(t) /\ Settled(u) =>
    \A i \in 1..Len(order[t]), j \in 1..Len(order[u]) :
      /\ order[t][i] = order[u][j]
      /\ order[t][i] \in Fixed \/ FreeUpTo(t, i) = FreeUpTo(u, j)
      => \A a, b \in Ids : msgs_[t][a] = order[t][i] /\ msgs_[u][b] = order[t][i] => a = b

-----------------------------------------------------------------------------
(* The inductive invariant.                                                 *)

\* The first id the counter has not passed: it goes round to 0.
Limit(t) == IF msgID_[t] = 0 THEN Wrap ELSE msgID_[t]

\* Of any table: what is found was added, no name is found twice, and names
\* are early exactly until the file is loaded.
TableInv(t) ==
  /\ \A id \in Ids : msgs_[t][id] # NoMsg => msgs_[t][id] \in Added(t)
  /\ \A i, j \in Ids : msgs_[t][i] = msgs_[t][j] /\ msgs_[t][i] # NoMsg => i = j
  /\ early[t] <= Len(order[t])
  /\ ~loaded_ => early[t] = Len(order[t])

\* Of a settled one: a fixed id is only its owner's, the other ids are taken up
\* to the counter, and there are as many of these as free names were added.
SettledInv(t) ==
  /\ \A id \in Ids : isFixed(id) /\ msgs_[t][id] # NoMsg =>
       msgs_[t][id] \in Fixed /\ Config[msgs_[t][id]] = id
  /\ \A id \in Ids : ~isFixed(id) /\ (id = 0 \/ id >= Limit(t)) => msgs_[t][id] = NoMsg
  /\ Cardinality(FreeIds(Limit(t) - 1)) = Cardinality(FreeUpTo(t, Len(order[t])))

IInv ==
  /\ TypeOK
  /\ \A t \in Tables : TableInv(t) /\ (Settled(t) => SettledInv(t))
  /\ IdsByRank
  /\ FixedFound
=============================================================================
