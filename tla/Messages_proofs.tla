-------------------------- MODULE Messages_proofs ---------------------------
(***************************************************************************)
(* The proofs about Messages.  There are at least as many free ids as free  *)
(* names, so the counter of a settled table finds one before it goes round. *)
(***************************************************************************)
EXTENDS Messages, FiniteSetTheorems, WellFoundedInduction, TLAPS

\* A set of numbers has a least one.
LEMMA Least ==
  ASSUME NEW S \in SUBSET Nat, S # {}
  PROVE  \E x \in S : \A y \in S : x <= y
<1> DEFINE R == OpToRel(<, Nat)
<1>1. IsWellFoundedOn(R, Nat)
  BY NatLessThanWellFounded
<1>2. \A x, y \in Nat : x < y => <<x, y>> \in R
  BY DEF OpToRel
<1> HIDE DEF R
<1>3. PICK x \in S : \A y \in S : ~(<<y, x>> \in R)
  BY <1>1, WFMin
<1>4. \A y \in S : ~(y < x)
  BY <1>2, <1>3
<1> QED
  BY <1>4

\* Reduction modulo the width of an id, for the two numbers that occur.
LEMMA ModFacts ==
  /\ \A x \in 0..Wrap - 1 : x % Wrap = x
  /\ \A x \in Nat : x % Wrap \in 0..Wrap - 1
  /\ Wrap % Wrap = 0
<1>1. Wrap \in Nat /\ Wrap > 0
  BY MSAssumption
<1>2. \A x \in 0..Wrap - 1 : x % Wrap = x
  BY <1>1
<1>3. \A x \in Nat : x % Wrap \in 0..Wrap - 1
  BY <1>1
<1>4. Wrap % Wrap = 0
  BY <1>1
<1> QED
  BY <1>2, <1>3, <1>4

-----------------------------------------------------------------------------
(* Fixed and free ids.                                                      *)

\* The fixed ids are those of the file; 0 is none of them.
LEMMA FixedFacts ==
  /\ Fixed \subseteq Names /\ Fixed \subseteq DOMAIN Config
  /\ \A n \in Fixed : Config[n] \in 1..Wrap - 1 /\ Config[n] \in Ids /\ isFixed(Config[n])
  /\ \A id : isFixed(id) => id \in 1..Wrap - 1
  /\ ~isFixed(0)
<1>1. Fixed \subseteq Names /\ Fixed \subseteq DOMAIN Config
  BY MSAssumption DEF Fixed
<1>2. \A n \in Fixed : Config[n] \in 1..Wrap - 1
  BY <1>1, MSAssumption
<1>3. \A n \in Fixed : Config[n] \in Ids /\ isFixed(Config[n])
  BY <1>2, MSAssumption DEF Ids, isFixed
<1>4. \A id : isFixed(id) => id \in 1..Wrap - 1
  BY <1>2 DEF isFixed
<1>5. ~isFixed(0)
  BY <1>4
<1> QED
  BY <1>1, <1>2, <1>3, <1>4, <1>5

\* The loop of add_msg ends at an id that is not fixed; where there is one
\* before the counter goes round, at the first.
LEMMA NextFreeFacts ==
  ASSUME NEW c \in Ids
  PROVE  /\ NextFree(c) \in Ids /\ ~isFixed(NextFree(c))
         /\ \A g \in c..Wrap - 1 : ~isFixed(g) =>
              /\ NextFree(c) \in c..g
              /\ \A e \in c..NextFree(c) - 1 : isFixed(e)
<1> DEFINE P(d) == /\ ~isFixed((c + d) % Wrap)
                   /\ \A e \in 0..d - 1 : isFixed((c + e) % Wrap)
           skips == CHOOSE d \in Ids : P(d)
           S == {d \in Ids : ~isFixed((c + d) % Wrap)}
<1>0. Wrap \in Nat /\ Wrap > 1 /\ c \in Nat /\ c < Wrap
  BY MSAssumption DEF Ids
<1>1. S # {}
  <2>1. CASE c = 0
    <3>1. 0 \in Ids /\ (c + 0) % Wrap = 0
      BY <2>1, <1>0, ModFacts DEF Ids
    <3> QED
      BY <3>1, FixedFacts
  <2>2. CASE c # 0
    <3>1. Wrap - c \in Ids /\ c + (Wrap - c) = Wrap
      BY <2>2, <1>0 DEF Ids
    <3>2. (c + (Wrap - c)) % Wrap = 0
      BY <3>1, ModFacts
    <3> QED
      BY <3>1, <3>2, FixedFacts
  <2> QED
    BY <2>1, <2>2
<1>2. \E d \in Ids : P(d)
  <2>1. S \in SUBSET Nat
    BY <1>0 DEF Ids
  <2>2. PICK x \in S : \A y \in S : x <= y
    BY <1>1, <2>1, Least
  <2>3. ASSUME NEW e \in 0..x - 1
        PROVE  isFixed((c + e) % Wrap)
    <3>1. x \in Ids /\ x \in Nat /\ e \in Ids /\ ~(x <= e)
      BY <2>2, <1>0 DEF Ids
    <3> QED
      BY <3>1, <2>2
  <2> QED
    BY <2>2, <2>3
<1>3. skips \in Ids /\ P(skips)
  BY <1>2
<1> HIDE DEF S
<1>4. NextFree(c) = (c + skips) % Wrap
  BY DEF NextFree
<1> HIDE DEF skips
<1>5. skips \in Nat /\ skips < Wrap
  BY <1>3, <1>0 DEF Ids
<1>6. NextFree(c) \in Ids /\ ~isFixed(NextFree(c))
  BY <1>0, <1>3, <1>4, <1>5, ModFacts DEF Ids
<1>7. ASSUME NEW g \in c..Wrap - 1, ~isFixed(g)
      PROVE  NextFree(c) \in c..g /\ \A e \in c..NextFree(c) - 1 : isFixed(e)
  <2>0. \A e \in Nat : c + e <= g => (c + e) % Wrap = c + e
    <3> SUFFICES ASSUME NEW e \in Nat, c + e <= g PROVE (c + e) % Wrap = c + e
      OBVIOUS
    <3>1. c + e \in 0..Wrap - 1
      BY <1>0
    <3> QED
      BY <3>1, ModFacts
  <2>1. skips <= g - c
    <3> SUFFICES ASSUME ~(skips <= g - c) PROVE FALSE
      OBVIOUS
    <3>1. g - c \in 0..skips - 1 /\ g - c \in Nat /\ c + (g - c) = g /\ c + (g - c) <= g
      BY <1>0, <1>5
    <3>2. isFixed((c + (g - c)) % Wrap)
      BY <3>1, <1>3
    <3>3. (c + (g - c)) % Wrap = c + (g - c)
      BY <3>1, <2>0
    <3> QED
      BY <3>1, <3>2, <3>3, <1>7
  <2>2. c + skips <= g /\ NextFree(c) = c + skips
    <3>1. c + skips <= g
      BY <2>1, <1>0, <1>5
    <3> QED
      BY <3>1, <2>0, <1>4, <1>5
  <2>3. ASSUME NEW e \in c..NextFree(c) - 1
        PROVE  isFixed(e)
    <3>1. e - c \in 0..skips - 1 /\ e - c \in Nat /\ c + (e - c) = e /\ c + (e - c) <= g
      BY <2>2, <1>0, <1>5
    <3>2. isFixed((c + (e - c)) % Wrap)
      BY <3>1, <1>3
    <3>3. (c + (e - c)) % Wrap = c + (e - c)
      BY <3>1, <2>0
    <3> QED
      BY <3>1, <3>2, <3>3
  <2> QED
    BY <2>2, <2>3, <1>0, <1>5
<1> QED
  BY <1>6, <1>7

\* The names added to a table, and the free ones among them.
LEMMA AddedFacts ==
  ASSUME TypeOK, NEW t \in Tables
  PROVE  /\ order[t] \in Seq(Names) /\ Len(order[t]) \in Nat
         /\ Added(t) \subseteq Names
         /\ FreeUpTo(t, Len(order[t])) = Added(t) \ Fixed
         /\ \A i \in 1..Len(order[t]) : order[t][i] \in Added(t) /\ order[t][i] \in Names
<1>1. order[t] \in Seq(Names)
  BY DEF TypeOK
<1>2. \A i \in 1..Len(order[t]) : order[t][i] \in Names
  BY <1>1
<1> QED
  BY <1>1, <1>2 DEF Added, FreeUpTo

\* A free name that is not added yet leaves a free id for it.
LEMMA RoomLeft ==
  ASSUME TypeOK, NEW t \in Tables, NEW n \in Names, n \notin Fixed, n \notin Added(t)
  PROVE  Cardinality(FreeUpTo(t, Len(order[t]))) < Cardinality(FreeIds(Wrap - 1))
<1> DEFINE A == Added(t) \ Fixed
           N == Names \ Fixed
           F == {Config[k] : k \in Fixed}
           W == 1..Wrap - 1
<1>0. /\ Wrap \in Nat /\ Wrap > 1 /\ IsFiniteSet(Names) /\ Cardinality(Names) < Wrap
      /\ Fixed \subseteq Names /\ F \subseteq W
  BY MSAssumption, FixedFacts
<1>1. FreeUpTo(t, Len(order[t])) = A /\ A \subseteq N /\ n \in N /\ n \notin A
  BY AddedFacts
<1>2. IsFiniteSet(Fixed) /\ Cardinality(Fixed) \in Nat /\ Cardinality(Names) \in Nat
  BY <1>0, FS_Subset, FS_CardinalityType
<1>3. IsFiniteSet(N) /\ Cardinality(N) = Cardinality(Names) - Cardinality(Fixed)
  <2>1. Names \cap Fixed = Fixed
    BY <1>0
  <2>2. IsFiniteSet(N) /\ Cardinality(N) = Cardinality(Names) - Cardinality(Names \cap Fixed)
    BY <1>0, FS_Difference
  <2> QED
    BY <2>1, <2>2
<1>4. IsFiniteSet(A) /\ Cardinality(A) <= Cardinality(N) /\ Cardinality(A) # Cardinality(N)
      /\ Cardinality(A) \in Nat
  <2>1. A \in SUBSET N /\ N # A
    BY <1>1
  <2>2. /\ IsFiniteSet(A) /\ Cardinality(A) <= Cardinality(N)
        /\ Cardinality(N) = Cardinality(A) => N = A
    BY <2>1, <1>3, FS_Subset
  <2> QED
    BY <2>1, <2>2, FS_CardinalityType
<1>5. IsFiniteSet(F) /\ Cardinality(F) \in Nat /\ Cardinality(F) <= Cardinality(Fixed)
  <2> DEFINE f == [k \in Fixed |-> Config[k]]
  <2>1. f \in Surjection(Fixed, F)
    BY DEF Surjection
  <2>2. IsFiniteSet(F) /\ Cardinality(F) <= Cardinality(Fixed)
    BY <2>1, <1>2, FS_Surjection
  <2> QED
    BY <2>2, FS_CardinalityType
<1>6. IsFiniteSet(W) /\ Cardinality(W) = Wrap - 1
  <2>1. 1 \in Int /\ Wrap - 1 \in Int /\ ~(1 > Wrap - 1) /\ (Wrap - 1) - 1 + 1 = Wrap - 1
    BY <1>0
  <2> QED
    BY <2>1, FS_Interval
<1>7. Cardinality(FreeIds(Wrap - 1)) = Wrap - 1 - Cardinality(F)
  <2>1. FreeIds(Wrap - 1) = W \ F
    BY DEF FreeIds, isFixed
  <2>2. W \cap F = F
    BY <1>0
  <2>3. Cardinality(W \ F) = Cardinality(W) - Cardinality(W \cap F)
    BY <1>6, FS_Difference
  <2> HIDE DEF W, F
  <2> QED
    BY <2>1, <2>2, <2>3, <1>6
<1> HIDE DEF A, N, F, W
<1> QED
  BY <1>0, <1>1, <1>2, <1>3, <1>4, <1>5, <1>7

-----------------------------------------------------------------------------
(* The invariant, table by table.                                           *)

\* What IdsByRank and FixedFound say of one table.
Rank(t) ==
  Settled(t) =>
    \A i \in 1..Len(order[t]) :
      LET n == order[t][i]
      IN  n \notin Fixed =>
            \E id \in 1..Wrap - 1 :
              /\ msgs_[t][id] = n
              /\ ~isFixed(id)
              /\ Cardinality(FreeIds(id)) = Cardinality(FreeUpTo(t, i))

Found(t) ==
  \A i \in early[t] + 1..Len(order[t]) :
    order[t][i] \in DOMAIN Config => msgs_[t][Config[order[t][i]]] = order[t][i]

AllOf(t) == TableInv(t) /\ (Settled(t) => SettledInv(t)) /\ Rank(t) /\ Found(t)

LEMMA ByTable == IInv <=> TypeOK /\ \A t \in Tables : AllOf(t)
BY DEF IInv, AllOf, IdsByRank, FixedFound, Rank, Found

LEMMA ByTableNext == IInv' <=> TypeOK' /\ \A t \in Tables : AllOf(t)'
BY DEF IInv, AllOf, IdsByRank, FixedFound, Rank, Found

\* A table that a step leaves alone.
LEMMA TableKept ==
  ASSUME NEW t \in Tables, AllOf(t), loaded_' = loaded_, msgID_'[t] = msgID_[t],
         msgs_'[t] = msgs_[t], order'[t] = order[t], early'[t] = early[t]
  PROVE  AllOf(t)'
<1>1. /\ Fixed' = Fixed /\ Settled(t)' = Settled(t) /\ Limit(t)' = Limit(t)
      /\ \A id : isFixed(id)' = isFixed(id)
      /\ \A id : FreeIds(id)' = FreeIds(id)
      /\ Added(t)' = Added(t)
  BY DEF Fixed, Settled, Limit, isFixed, FreeIds, Added
<1>2. \A i : FreeUpTo(t, i)' = FreeUpTo(t, i)
  BY <1>1 DEF FreeUpTo
<1>3. TableInv(t)'
  BY <1>1 DEF AllOf, TableInv
<1>4. Settled(t) => SettledInv(t)'
  <2>1. FreeIds(Limit(t) - 1)' = FreeIds(Limit(t) - 1)
        /\ FreeUpTo(t, Len(order[t]))' = FreeUpTo(t, Len(order[t]))
    BY <1>1 DEF FreeIds, FreeUpTo, Limit, isFixed
  <2> QED
    BY <2>1, <1>1 DEF AllOf, SettledInv
<1>5. Rank(t)'
  BY <1>1, <1>2 DEF AllOf, Rank
<1>6. Found(t)'
  BY DEF AllOf, Found
<1> QED
  BY <1>1, <1>3, <1>4, <1>5, <1>6 DEF AllOf

\* The file is read: a table that is settled then has no names yet.
LEMMA TableLoads ==
  ASSUME TypeOK, NEW t \in Tables, AllOf(t), ~loaded_, loaded_' = TRUE,
         UNCHANGED <<msgID_, msgs_, order, early>>
  PROVE  AllOf(t)'
<1>0. TableInv(t) /\ Settled(t) /\ SettledInv(t) /\ early[t] = Len(order[t]) /\ Len(order[t]) \in Nat
  BY AddedFacts DEF AllOf, TableInv, Settled
<1>1. TableInv(t)'
  BY <1>0 DEF TableInv, Added
<1>2. Found(t)'
  BY <1>0 DEF Found
<1>3. ASSUME Settled(t)'
      PROVE  SettledInv(t)' /\ Len(order[t]) = 0
  <2>1. Len(order[t]) = 0
    BY <1>0, <1>3 DEF Settled
  <2>2. Added(t) = {} /\ FreeUpTo(t, Len(order[t])) = {}
        /\ FreeUpTo(t, Len(order[t]))' = {}
    BY <2>1 DEF Added, FreeUpTo
  <2>3. \A id \in Ids : msgs_[t][id] = NoMsg
    BY <2>2, <1>0 DEF TableInv
  <2>4. Cardinality(FreeIds(Limit(t) - 1)) = 0
    BY <2>2, <1>0, FS_EmptySet DEF SettledInv
  <2>5. IsFiniteSet(FreeIds(Limit(t) - 1))
    <3>1. msgID_[t] \in Ids
      BY DEF TypeOK
    <3>2. Limit(t) - 1 \in Int
      BY <3>1, MSAssumption DEF Limit, Ids
    <3>3. IsFiniteSet(1..Limit(t) - 1)
      BY <3>2, FS_Interval
    <3>4. FreeIds(Limit(t) - 1) \in SUBSET (1..Limit(t) - 1)
      BY DEF FreeIds
    <3> QED
      BY <3>3, <3>4, FS_Subset
  <2>6. FreeIds(Limit(t) - 1) = {}
    BY <2>4, <2>5, FS_EmptySet
  <2>7. FreeIds(Limit(t) - 1)' = {}
    <3>1. \A id : ~isFixed(id)
      BY DEF isFixed, Fixed
    <3>2. 1..Limit(t) - 1 = {}
      BY <2>6, <3>1 DEF FreeIds
    <3>3. Limit(t)' = Limit(t)
      BY DEF Limit
    <3> QED
      BY <3>2, <3>3 DEF FreeIds
  <2> QED
    BY <2>1, <2>2, <2>3, <2>7 DEF SettledInv
<1>4. Rank(t)'
  <2> SUFFICES ASSUME Settled(t)' PROVE Rank(t)'
    BY DEF Rank
  <2>1. Len(order'[t]) = 0
    BY <1>3
  <2> QED
    BY <2>1 DEF Rank
<1> QED
  BY <1>1, <1>2, <1>3, <1>4 DEF AllOf

LEMMA ConstructStep ==
  ASSUME IInv, NEW c \in Tables, Construct(c)
  PROVE  IInv'
<1>0. TypeOK /\ \A t \in Tables : AllOf(t)
  BY ByTable
<1>1. TypeOK'
  BY <1>0 DEF TypeOK, Construct
<1>2. ASSUME NEW t \in Tables
      PROVE  AllOf(t)'
  <2>1. CASE loaded_' = loaded_
    BY <2>1, <1>0, TableKept DEF Construct
  <2>2. CASE loaded_' # loaded_
    <3>1. ~loaded_ /\ loaded_' = TRUE
      BY <2>2, <1>0 DEF Construct, TypeOK
    <3> QED
      BY <3>1, <1>0, TableLoads DEF Construct
  <2> QED
    BY <2>1, <2>2
<1> QED
  BY <1>1, <1>2, ByTableNext

\* What a table is after a message was entered.
LEMMA EntersFacts ==
  ASSUME TypeOK, NEW t \in Tables, NEW n \in Names, NEW id \in Ids, Enters(t, n, id)
  PROVE  /\ msgs_' \in [Tables -> [Ids -> Names \cup {NoMsg}]]
         /\ order' \in [Tables -> Seq(Names)]
         /\ early' \in [Tables -> Nat]
         /\ UNCHANGED <<loaded_, built>>
         /\ \A u \in Tables \ {t} : /\ msgs_'[u] = msgs_[u] /\ order'[u] = order[u]
                                    /\ early'[u] = early[u]
         /\ msgs_'[t][id] = n
         /\ \A i \in Ids \ {id} : msgs_'[t][i] = msgs_[t][i]
         /\ Len(order'[t]) = Len(order[t]) + 1 /\ order'[t][Len(order[t]) + 1] = n
         /\ \A i \in 1..Len(order[t]) : order'[t][i] = order[t][i]
         /\ early'[t] = IF loaded_ THEN early[t] ELSE early[t] + 1
         /\ Added(t)' = Added(t) \cup {n}
         /\ Fixed' = Fixed /\ \A i : isFixed(i)' = isFixed(i)
         /\ \A i : FreeIds(i)' = FreeIds(i)
         /\ \A i \in 1..Len(order[t]) : FreeUpTo(t, i)' = FreeUpTo(t, i)
         /\ FreeUpTo(t, Len(order[t]))' = (Added(t) \cup {n}) \ Fixed
<1> DEFINE l == Len(order[t])
           o2 == order'[t]
<1>1. msgs_' \in [Tables -> [Ids -> Names \cup {NoMsg}]] /\ msgs_'[t][id] = n
      /\ (\A i \in Ids \ {id} : msgs_'[t][i] = msgs_[t][i])
      /\ (\A u \in Tables \ {t} : msgs_'[u] = msgs_[u])
  BY DEF TypeOK, Enters
<1>2. order[t] \in Seq(Names) /\ o2 = Append(order[t], n)
      /\ \A u \in Tables \ {t} : order'[u] = order[u]
  BY DEF TypeOK, Enters
<1>3. o2 \in Seq(Names) /\ Len(o2) = l + 1 /\ l \in Nat /\ o2[l + 1] = n
      /\ \A i \in 1..l : o2[i] = order[t][i]
  BY <1>2
<1>4. order' \in [Tables -> Seq(Names)]
  <2>1. order' = [order EXCEPT ![t] = Append(order[t], n)] /\ Append(order[t], n) \in Seq(Names)
    BY <1>2 DEF Enters
  <2> QED
    BY <2>1 DEF TypeOK
<1>5. /\ early' \in [Tables -> Nat]
      /\ early'[t] = (IF loaded_ THEN early[t] ELSE early[t] + 1)
      /\ \A u \in Tables \ {t} : early'[u] = early[u]
  BY DEF TypeOK, Enters
<1>6. UNCHANGED <<loaded_, built>>
  BY DEF Enters
<1>7. Fixed' = Fixed /\ (\A i : isFixed(i)' = isFixed(i)) /\ (\A i : FreeIds(i)' = FreeIds(i))
  BY <1>6 DEF Fixed, isFixed, FreeIds
<1>8. {o2[i] : i \in 1..Len(o2)} = {order[t][i] : i \in 1..l} \cup {n}
  <2>1. 1..Len(o2) = 1..l \cup {l + 1}
    BY <1>3
  <2> HIDE DEF l, o2
  <2>2. \A i \in 1..Len(o2) : o2[i] \in {order[t][k] : k \in 1..l} \cup {n}
    BY <2>1, <1>3
  <2>3. \A i \in 1..l : order[t][i] \in {o2[k] : k \in 1..Len(o2)}
    BY <2>1, <1>3
  <2>4. n \in {o2[k] : k \in 1..Len(o2)}
    BY <2>1, <1>3
  <2> QED
    BY <2>2, <2>3, <2>4
<1>9. Added(t)' = Added(t) \cup {n} /\ FreeUpTo(t, Len(order[t]))' = (Added(t) \cup {n}) \ Fixed
  BY <1>7, <1>8 DEF Added, FreeUpTo
<1>10. \A i \in 1..l : FreeUpTo(t, i)' = FreeUpTo(t, i)
  <2> SUFFICES ASSUME NEW i \in 1..l PROVE FreeUpTo(t, i)' = FreeUpTo(t, i)
    OBVIOUS
  <2>1. \A j \in 1..i : o2[j] = order[t][j]
    BY <1>3
  <2>2. {o2[j] : j \in 1..i} = {order[t][j] : j \in 1..i}
    BY <2>1
  <2> QED
    BY <2>2, <1>7 DEF FreeUpTo
<1> QED
  BY <1>1, <1>2, <1>3, <1>4, <1>5, <1>6, <1>7, <1>9, <1>10

\* A name that is new to the table is found once after it was entered.
LEMMA EntersTable ==
  ASSUME TypeOK, NEW t \in Tables, TableInv(t), NEW n \in Names, NEW id \in Ids, Enters(t, n, id)
  PROVE  TableInv(t)'
<1>0. n \notin Added(t) /\ n # NoMsg /\ early[t] \in Nat /\ Len(order[t]) \in Nat
  BY MSAssumption, AddedFacts DEF Enters, TypeOK
<1>1. \A i \in Ids : msgs_'[t][i] # NoMsg => msgs_'[t][i] \in Added(t)'
  <2>1. Added(t)' = Added(t) \cup {n} /\ msgs_'[t][id] = n
    BY EntersFacts
  <2>2. \A i \in Ids \ {id} : msgs_'[t][i] = msgs_[t][i]
    BY EntersFacts
  <2>3. \A i \in Ids : msgs_[t][i] # NoMsg => msgs_[t][i] \in Added(t)
    BY DEF TableInv
  <2> SUFFICES ASSUME NEW i \in Ids, msgs_'[t][i] # NoMsg PROVE msgs_'[t][i] \in Added(t) \cup {n}
    BY <2>1
  <2>4. CASE i = id
    BY <2>1, <2>4
  <2>5. CASE i # id
    BY <2>2, <2>3, <2>5
  <2> QED
    BY <2>4, <2>5
<1>2. \A i, j \in Ids : msgs_'[t][i] = msgs_'[t][j] /\ msgs_'[t][i] # NoMsg => i = j
  <2> SUFFICES ASSUME NEW i \in Ids, NEW j \in Ids, msgs_'[t][i] = msgs_'[t][j],
                      msgs_'[t][i] # NoMsg
               PROVE  i = j
    OBVIOUS
  <2>1. \A k \in Ids \ {id} : msgs_'[t][k] = msgs_[t][k]
        /\ (msgs_[t][k] # NoMsg => msgs_[t][k] \in Added(t))
    BY EntersFacts DEF TableInv
  <2>2. \A k \in Ids \ {id} : msgs_'[t][k] # n
    BY <2>1, <1>0
  <2>3. msgs_'[t][id] = n
    BY EntersFacts
  <2>4. CASE i = id \/ j = id
    BY <2>2, <2>3, <2>4
  <2>5. CASE i # id /\ j # id
    BY <2>1, <2>5 DEF TableInv
  <2> QED
    BY <2>4, <2>5
<1>3. early'[t] <= Len(order'[t]) /\ (~loaded_' => early'[t] = Len(order'[t]))
  <2>1. /\ Len(order'[t]) = Len(order[t]) + 1 /\ loaded_' = loaded_
        /\ early'[t] = IF loaded_ THEN early[t] ELSE early[t] + 1
    BY EntersFacts
  <2>2. early[t] <= Len(order[t]) /\ (~loaded_ => early[t] = Len(order[t]))
    BY DEF TableInv
  <2> QED
    BY <2>1, <2>2, <1>0
<1> QED
  BY <1>1, <1>2, <1>3 DEF TableInv

\* A fixed message goes to its own id.
LEMMA AddFixedTable ==
  ASSUME TypeOK, NEW t \in Tables, AllOf(t), NEW n \in Names, AddFixed(t, n)
  PROVE  AllOf(t)'
<1> DEFINE id == Config[n]
           l == Len(order[t])
<1>0. /\ n \in Fixed /\ id \in Ids /\ isFixed(id) /\ Enters(t, n, id) /\ msgID_' = msgID_
      /\ loaded_ /\ n \in DOMAIN Config /\ n \notin Added(t) /\ l \in Nat
      /\ early[t] \in Nat
  BY FixedFacts, AddedFacts DEF AddFixed, Fixed, Enters, TypeOK
<1> HIDE DEF id
<1>1. TableInv(t)'
  BY <1>0, EntersTable DEF AllOf
<1> DEFINE m2 == msgs_'[t]
           o2 == order'[t]
<1>2. /\ m2[id] = n /\ \A i \in Ids \ {id} : m2[i] = msgs_[t][i]
      /\ Len(o2) = l + 1 /\ o2[l + 1] = n /\ \A i \in 1..l : o2[i] = order[t][i]
      /\ early'[t] = (IF loaded_ THEN early[t] ELSE early[t] + 1) /\ loaded_' = loaded_
      /\ Fixed' = Fixed /\ (\A i : isFixed(i)' = isFixed(i)) /\ \A i : FreeIds(i)' = FreeIds(i)
      /\ \A i \in 1..l : FreeUpTo(t, i)' = FreeUpTo(t, i)
      /\ FreeUpTo(t, Len(order[t]))' = (Added(t) \cup {n}) \ Fixed
  <2>1. id \in Ids /\ Enters(t, n, id)
    BY <1>0
  <2> QED
    BY <2>1, EntersFacts
<1>e. early'[t] = early[t]
  BY <1>0, <1>2
<1>3. (Settled(t)' <=> Settled(t)) /\ Limit(t)' = Limit(t)
  <2>1. Limit(t)' = Limit(t)
    BY <1>0 DEF Limit
  <2>2. Settled(t)' <=> Settled(t)
    BY <1>2, <1>e DEF Settled
  <2> QED
    BY <2>1, <2>2
<1>4. ASSUME Settled(t)
      PROVE  SettledInv(t)'
  <2>0. SettledInv(t)
    BY <1>4 DEF AllOf
  <2>1. FreeUpTo(t, Len(order[t]))' = FreeUpTo(t, Len(order[t]))
    BY <1>0, <1>2, AddedFacts
  <2>2. FreeIds(Limit(t) - 1)' = FreeIds(Limit(t) - 1)
    BY <1>2, <1>3 DEF FreeIds
  <2>3. \A i \in Ids : isFixed(i) /\ m2[i] # NoMsg => m2[i] \in Fixed /\ Config[m2[i]] = i
    BY <2>0, <1>0, <1>2 DEF SettledInv, id
  <2>4. \A i \in Ids : ~isFixed(i) /\ (i = 0 \/ i >= Limit(t)) => m2[i] = NoMsg
    BY <2>0, <1>0, <1>2 DEF SettledInv
  <2> QED
    BY <2>0, <2>1, <2>2, <2>3, <2>4, <1>2, <1>3 DEF SettledInv
<1>5. Rank(t)'
  <2> SUFFICES ASSUME Settled(t), NEW i \in 1..l + 1, o2[i] \notin Fixed
               PROVE  \E j \in 1..Wrap - 1 :
                        /\ m2[j] = o2[i] /\ ~isFixed(j)
                        /\ Cardinality(FreeIds(j)) = Cardinality(FreeUpTo(t, i)')
    BY <1>2, <1>3 DEF Rank
  <2>1. i \in 1..l /\ o2[i] = order[t][i]
    BY <1>0, <1>2
  <2>2. PICK j \in 1..Wrap - 1 : /\ msgs_[t][j] = order[t][i] /\ ~isFixed(j)
                                 /\ Cardinality(FreeIds(j)) = Cardinality(FreeUpTo(t, i))
    BY <2>1 DEF AllOf, Rank
  <2>3. j \in Ids /\ j # id
    BY <2>2, <1>0, MSAssumption DEF Ids
  <2> QED
    BY <2>1, <2>2, <2>3, <1>2
<1>6. Found(t)'
  <2> SUFFICES ASSUME NEW i \in early[t] + 1..l + 1, o2[i] \in DOMAIN Config
               PROVE  m2[Config[o2[i]]] = o2[i]
    BY <1>2, <1>e DEF Found
  <2>1. CASE i = l + 1
    BY <2>1, <1>2 DEF id
  <2>2. CASE i # l + 1
    <3>1. i \in early[t] + 1..l /\ i \in 1..l
      BY <2>2, <1>0
    <3>2. o2[i] = order[t][i] /\ msgs_[t][Config[o2[i]]] = o2[i] /\ o2[i] # n
      BY <3>1, <1>0, <1>2, AddedFacts DEF AllOf, Found
    <3>3. Config[o2[i]] # id /\ Config[o2[i]] \in Ids
      BY <3>2, <1>0, MSAssumption DEF Ids, id
    <3> QED
      BY <3>2, <3>3, <1>2
  <2> QED
    BY <2>1, <2>2
<1> QED
  BY <1>1, <1>3, <1>4, <1>5, <1>6 DEF AllOf

\* The free ids up to the next free one.
LEMMA NextRank ==
  ASSUME NEW c \in 1..Wrap - 1, NEW id \in c..Wrap - 1, ~isFixed(id),
         \A e \in c..id - 1 : isFixed(e)
  PROVE  Cardinality(FreeIds(id)) = Cardinality(FreeIds(c - 1)) + 1
<1>0. Wrap \in Nat /\ c \in Nat /\ id \in Nat /\ c >= 1 /\ c - 1 \in Int
  BY MSAssumption
<1>1. FreeIds(id) = FreeIds(c - 1) \cup {id} /\ id \notin FreeIds(c - 1)
  <2>1. \A j \in Int : j \in 1..id <=> j \in 1..c - 1 \/ j \in c..id - 1 \/ j = id
    BY <1>0
  <2>2. id \notin 1..c - 1
    BY <1>0
  <2> QED
    BY <2>1, <2>2, <1>0 DEF FreeIds
<1>2. IsFiniteSet(FreeIds(c - 1))
  <2>1. IsFiniteSet(1..c - 1)
    BY <1>0, FS_Interval
  <2>2. FreeIds(c - 1) \in SUBSET (1..c - 1)
    BY DEF FreeIds
  <2> QED
    BY <2>1, <2>2, FS_Subset
<1> QED
  BY <1>1, <1>2, FS_AddElement

\* In a settled table a free name goes to the first free id behind the counter.
LEMMA FreeSlot ==
  ASSUME TypeOK, NEW t \in Tables, SettledInv(t), NEW n \in Names, n \notin Fixed, n \notin Added(t)
  PROVE  LET id == NextFree(msgID_[t])
         IN  /\ msgID_[t] \in 1..Wrap - 1 /\ Limit(t) = msgID_[t]
             /\ id \in msgID_[t]..Wrap - 1 /\ ~isFixed(id) /\ id \in Ids
             /\ msgs_[t][id] = NoMsg
             /\ Cardinality(FreeIds(id)) = Cardinality(FreeUpTo(t, Len(order[t]))) + 1
<1> DEFINE c == msgID_[t]
           id == NextFree(c)
<1>0. Wrap \in Nat /\ Wrap > 1 /\ c \in Ids /\ c \in Nat /\ c < Wrap
  BY MSAssumption DEF TypeOK, Ids
<1>1. Cardinality(FreeIds(Limit(t) - 1)) = Cardinality(FreeUpTo(t, Len(order[t])))
      /\ Cardinality(FreeUpTo(t, Len(order[t]))) < Cardinality(FreeIds(Wrap - 1))
  BY RoomLeft DEF SettledInv
<1>2. c # 0
  <2> SUFFICES ASSUME c = 0 PROVE FALSE
    OBVIOUS
  <2>1. Limit(t) = Wrap
    BY DEF Limit
  <2>2. IsFiniteSet(FreeIds(Wrap - 1))
    <3>1. Wrap - 1 \in Int
      BY <1>0
    <3>2. IsFiniteSet(1..Wrap - 1)
      BY <3>1, FS_Interval
    <3>3. FreeIds(Wrap - 1) \in SUBSET (1..Wrap - 1)
      BY DEF FreeIds
    <3> QED
      BY <3>2, <3>3, FS_Subset
  <2>3. Cardinality(FreeIds(Wrap - 1)) \in Nat
    BY <2>2, FS_CardinalityType
  <2> QED
    BY <2>1, <2>3, <1>1
<1>3. Limit(t) = c /\ c \in 1..Wrap - 1
  BY <1>0, <1>2 DEF Limit
<1>4. \E g \in c..Wrap - 1 : ~isFixed(g)
  <2> SUFFICES ASSUME \A g \in c..Wrap - 1 : isFixed(g) PROVE FALSE
    OBVIOUS
  <2>1. FreeIds(Wrap - 1) = FreeIds(c - 1)
    <3>1. \A j \in Int : j \in 1..Wrap - 1 <=> j \in 1..c - 1 \/ j \in c..Wrap - 1
      BY <1>0, <1>3
    <3> QED
      BY <3>1, <1>0 DEF FreeIds
  <2>2. Cardinality(FreeIds(c - 1)) \in Nat
    <3>1. c - 1 \in Int
      BY <1>0
    <3>2. IsFiniteSet(1..c - 1)
      BY <3>1, FS_Interval
    <3>3. FreeIds(c - 1) \in SUBSET (1..c - 1)
      BY DEF FreeIds
    <3> QED
      BY <3>2, <3>3, FS_Subset, FS_CardinalityType
  <2> HIDE DEF c
  <2> QED
    BY <2>1, <2>2, <1>1, <1>3
<1>5. PICK g \in c..Wrap - 1 : ~isFixed(g)
  BY <1>4
<1>6. id \in c..g /\ ~isFixed(id) /\ id \in Ids /\ \A e \in c..id - 1 : isFixed(e)
  BY <1>0, <1>5, NextFreeFacts
<1> HIDE DEF id
<1>7. id \in c..Wrap - 1
  BY <1>0, <1>5, <1>6
<1>8. msgs_[t][id] = NoMsg
  <2>1. id >= Limit(t)
    BY <1>0, <1>3, <1>7
  <2> QED
    BY <2>1, <1>6 DEF SettledInv
<1>9. Cardinality(FreeIds(id)) = Cardinality(FreeIds(c - 1)) + 1
  BY <1>3, <1>6, <1>7, NextRank
<1> QED
  BY <1>1, <1>3, <1>6, <1>7, <1>8, <1>9 DEF id

LEMMA AddFreeTable ==
  ASSUME TypeOK, NEW t \in Tables, AllOf(t), NEW n \in Names, AddFree(t, n)
  PROVE  AllOf(t)'
<1> DEFINE c == msgID_[t]
           id == NextFree(c)
           l == Len(order[t])
<1>0. /\ n \notin Fixed /\ Enters(t, n, id) /\ msgID_' = [msgID_ EXCEPT ![t] = Successor(id)]
      /\ n \notin Added(t) /\ l \in Nat /\ early[t] \in Nat /\ n # NoMsg
      /\ id \in Ids /\ ~isFixed(id) /\ Wrap \in Nat /\ Wrap > 1
  <2>1. c \in Ids
    BY DEF TypeOK
  <2>2. NextFree(c) \in Ids /\ ~isFixed(NextFree(c))
    BY <2>1, NextFreeFacts
  <2> HIDE DEF c
  <2> QED
    BY <2>2, AddedFacts, MSAssumption DEF AddFree, Enters, TypeOK, c
<1> HIDE DEF id
<1>1. TableInv(t)'
  BY <1>0, EntersTable DEF AllOf
<1> DEFINE m2 == msgs_'[t]
           o2 == order'[t]
<1>2. /\ m2[id] = n /\ \A i \in Ids \ {id} : m2[i] = msgs_[t][i]
      /\ Len(o2) = l + 1 /\ o2[l + 1] = n /\ \A i \in 1..l : o2[i] = order[t][i]
      /\ early'[t] = (IF loaded_ THEN early[t] ELSE early[t] + 1) /\ loaded_' = loaded_
      /\ Fixed' = Fixed /\ (\A i : isFixed(i)' = isFixed(i)) /\ \A i : FreeIds(i)' = FreeIds(i)
      /\ \A i \in 1..l : FreeUpTo(t, i)' = FreeUpTo(t, i)
      /\ FreeUpTo(t, Len(order[t]))' = (Added(t) \cup {n}) \ Fixed
  BY <1>0, EntersFacts
<1>3. Settled(t)' <=> Settled(t)
  BY <1>2 DEF Settled
<1>4. Settled(t) => /\ SettledInv(t) /\ c \in 1..Wrap - 1 /\ Limit(t) = c /\ id \in c..Wrap - 1
                    /\ msgs_[t][id] = NoMsg
                    /\ Cardinality(FreeIds(id)) = Cardinality(FreeUpTo(t, l)) + 1
  BY <1>0, FreeSlot DEF AllOf, id
<1>5. Settled(t) => Limit(t)' = id + 1
  <2> SUFFICES ASSUME Settled(t) PROVE Limit(t)' = id + 1
    OBVIOUS
  <2>1. msgID_'[t] = (id + 1) % Wrap
    BY <1>0 DEF Successor, TypeOK
  <2>2. id \in Nat /\ id < Wrap
    BY <1>0 DEF Ids
  <2>3. CASE id + 1 = Wrap
    <3>1. (id + 1) % Wrap = 0
      BY <2>3, ModFacts
    <3> QED
      BY <3>1, <2>1, <2>3 DEF Limit
  <2>4. CASE id + 1 # Wrap
    <3>1. id + 1 \in 0..Wrap - 1 /\ id + 1 # 0
      BY <2>2, <2>4, <1>0
    <3>2. (id + 1) % Wrap = id + 1
      BY <3>1, ModFacts
    <3> QED
      BY <3>1, <3>2, <2>1 DEF Limit
  <2> QED
    BY <2>3, <2>4
<1>6. Cardinality(FreeUpTo(t, Len(order[t]))') = Cardinality(FreeUpTo(t, l)) + 1
  <2> DEFINE A == FreeUpTo(t, l)
  <2>1. A = Added(t) \ Fixed /\ Added(t) \subseteq Names /\ FreeUpTo(t, Len(order[t]))' = A \cup {n}
        /\ n \notin A
    BY <1>0, <1>2, AddedFacts
  <2>2. IsFiniteSet(A)
    BY <2>1, MSAssumption, FS_Subset
  <2>3. ASSUME NEW B, IsFiniteSet(B), n \notin B
        PROVE  Cardinality(B \cup {n}) = Cardinality(B) + 1
    BY <2>3, FS_AddElement
  <2>4. Cardinality(A \cup {n}) = Cardinality(A) + 1
    BY <2>1, <2>2, <2>3
  <2> QED
    BY <2>1, <2>4
<1>7. ASSUME Settled(t)
      PROVE  SettledInv(t)'
  <2>0. id \in Nat /\ c \in Nat /\ c <= id /\ c >= 1
    BY <1>0, <1>4, <1>7 DEF Ids
  <2>1. \A i \in Ids : isFixed(i) /\ m2[i] # NoMsg => m2[i] \in Fixed /\ Config[m2[i]] = i
    BY <1>0, <1>2, <1>4, <1>7 DEF SettledInv
  <2>2. \A i \in Ids : ~isFixed(i) /\ (i = 0 \/ i >= id + 1) => m2[i] = NoMsg
    <3> SUFFICES ASSUME NEW i \in Ids, ~isFixed(i), i = 0 \/ i >= id + 1 PROVE m2[i] = NoMsg
      OBVIOUS
    <3>1. i # id /\ (i = 0 \/ i >= c)
      BY <2>0, <1>0 DEF Ids
    <3>2. msgs_[t][i] = NoMsg
      BY <3>1, <1>4, <1>7 DEF SettledInv
    <3> QED
      BY <3>1, <3>2, <1>2
  <2>3. FreeIds(Limit(t) - 1)' = FreeIds(id)
    <3>1. Limit(t)' - 1 = id
      BY <2>0, <1>5, <1>7
    <3> QED
      BY <3>1, <1>2 DEF FreeIds
  <2>4. Cardinality(FreeIds(Limit(t) - 1)') = Cardinality(FreeUpTo(t, Len(order[t]))')
    BY <2>3, <1>4, <1>6, <1>7
  <2> QED
    BY <2>1, <2>2, <2>4, <1>2, <1>5, <1>7 DEF SettledInv
<1>8. Rank(t)'
  <2> SUFFICES ASSUME Settled(t), NEW i \in 1..l + 1, o2[i] \notin Fixed
               PROVE  \E j \in 1..Wrap - 1 :
                        /\ m2[j] = o2[i] /\ ~isFixed(j)
                        /\ Cardinality(FreeIds(j)) = Cardinality(FreeUpTo(t, i)')
    BY <1>2, <1>3 DEF Rank
  <2>1. CASE i = l + 1
    <3>1. id \in 1..Wrap - 1
      BY <1>0, <1>4
    <3>2. FreeUpTo(t, i)' = FreeUpTo(t, Len(order[t]))'
      BY <2>1, <1>2 DEF FreeUpTo
    <3>3. m2[id] = o2[i] /\ Cardinality(FreeIds(id)) = Cardinality(FreeUpTo(t, i)')
      BY <3>2, <2>1, <1>2, <1>4, <1>6
    <3> QED
      BY <3>1, <3>3, <1>0
  <2>2. CASE i # l + 1
    <3>1. i \in 1..l /\ o2[i] = order[t][i] /\ o2[i] # NoMsg
      <4>1. i \in 1..l
        BY <2>2, <1>0
      <4> QED
        BY <4>1, <1>2, AddedFacts, MSAssumption
    <3>2. PICK j \in 1..Wrap - 1 : /\ msgs_[t][j] = order[t][i] /\ ~isFixed(j)
                                   /\ Cardinality(FreeIds(j)) = Cardinality(FreeUpTo(t, i))
      BY <3>1 DEF AllOf, Rank
    <3>3. j \in Ids /\ j # id
      BY <3>1, <3>2, <1>0, <1>4 DEF Ids
    <3> QED
      BY <3>1, <3>2, <3>3, <1>2
  <2> QED
    BY <2>1, <2>2
<1>9. Found(t)'
  <2> SUFFICES ASSUME NEW i \in early'[t] + 1..l + 1, o2[i] \in DOMAIN Config
               PROVE  m2[Config[o2[i]]] = o2[i]
    BY <1>2 DEF Found
  <2>1. CASE ~loaded_
    <3>1. early[t] = l
      BY <2>1 DEF AllOf, TableInv
    <3>2. early'[t] = l + 1
      BY <3>1, <2>1, <1>2
    <3> QED
      BY <3>2, <1>0
  <2>2. CASE loaded_
    <3>0. Fixed = DOMAIN Config /\ early'[t] = early[t]
      BY <2>2, <1>2 DEF Fixed
    <3>1. i # l + 1
      BY <3>0, <1>0, <1>2
    <3>2. i \in early[t] + 1..l /\ i \in 1..l
      BY <3>0, <3>1, <1>0
    <3>3. o2[i] = order[t][i] /\ msgs_[t][Config[o2[i]]] = o2[i]
      BY <3>2, <1>2 DEF AllOf, Found
    <3>4. Config[o2[i]] # id /\ Config[o2[i]] \in Ids
      BY <3>0, <1>0, FixedFacts
    <3> QED
      BY <3>3, <3>4, <1>2
  <2> QED
    BY <2>1, <2>2
<1> QED
  BY <1>1, <1>3, <1>7, <1>8, <1>9 DEF AllOf

-----------------------------------------------------------------------------
(* The theorems.                                                            *)

LEMMA AddStep ==
  ASSUME IInv, NEW c \in Tables, NEW n \in Names, AddFixed(c, n) \/ AddFree(c, n)
  PROVE  IInv'
<1>0. TypeOK /\ \A t \in Tables : AllOf(t)
  BY ByTable
<1>1. PICK id \in Ids : Enters(c, n, id)
  <2>1. CASE AddFixed(c, n)
    BY <2>1, FixedFacts DEF AddFixed
  <2>2. CASE AddFree(c, n)
    <3>1. msgID_[c] \in Ids
      BY <1>0 DEF TypeOK
    <3>2. NextFree(msgID_[c]) \in Ids
      BY <3>1, NextFreeFacts
    <3> QED
      BY <2>2, <3>2 DEF AddFree
  <2> QED
    BY <2>1, <2>2
<1>2. msgID_' \in [Tables -> Ids] /\ \A t \in Tables \ {c} : msgID_'[t] = msgID_[t]
  <2>1. CASE AddFixed(c, n)
    BY <2>1, <1>0 DEF AddFixed, TypeOK
  <2>2. CASE AddFree(c, n)
    <3> DEFINE x == NextFree(msgID_[c])
    <3>1. msgID_[c] \in Ids
      BY <1>0 DEF TypeOK
    <3>2. x \in Ids
      BY <3>1, NextFreeFacts
    <3>3. msgID_' = [msgID_ EXCEPT ![c] = Successor(x)]
      BY <2>2 DEF AddFree
    <3> HIDE DEF x
    <3>4. x + 1 \in Nat
      BY <3>2, MSAssumption DEF Ids
    <3>5. Successor(x) \in Ids
      BY <3>4, ModFacts DEF Ids, Successor
    <3> QED
      BY <3>3, <3>5, <1>0 DEF TypeOK
  <2> QED
    BY <2>1, <2>2
<1>3. TypeOK'
  BY <1>0, <1>1, <1>2, EntersFacts DEF TypeOK
<1>4. ASSUME NEW t \in Tables
      PROVE  AllOf(t)'
  <2>1. CASE t = c
    BY <2>1, <1>0, AddFixedTable, AddFreeTable
  <2>2. CASE t # c
    <3>1. /\ loaded_' = loaded_ /\ msgID_'[t] = msgID_[t] /\ msgs_'[t] = msgs_[t]
          /\ order'[t] = order[t] /\ early'[t] = early[t]
      BY <2>2, <1>0, <1>1, <1>2, EntersFacts
    <3> QED
      BY <3>1, <1>0, TableKept
  <2> QED
    BY <2>1, <2>2
<1> QED
  BY <1>3, <1>4, ByTableNext

LEMMA InitIInv ==
  ASSUME Init
  PROVE  IInv
<1>0. Wrap \in Nat /\ Wrap > 1 /\ 1 \in Ids
  BY MSAssumption DEF Ids
<1>1. TypeOK
  <2>1. <<>> \in Seq(Names) /\ 0 \in Nat
    OBVIOUS
  <2> QED
    BY <2>1, <1>0 DEF Init, TypeOK
<1>2. ASSUME NEW t \in Tables
      PROVE  AllOf(t)
  <2>1. /\ ~loaded_ /\ msgID_[t] = 1 /\ order[t] = <<>> /\ Len(order[t]) = 0 /\ early[t] = 0
        /\ \A id \in Ids : msgs_[t][id] = NoMsg
    BY <1>2 DEF Init
  <2>2. TableInv(t)
    BY <2>1 DEF TableInv
  <2>3. Rank(t) /\ Found(t)
    BY <2>1 DEF Rank, Found
  <2>4. FreeIds(Limit(t) - 1) = {} /\ FreeUpTo(t, Len(order[t])) = {}
    BY <2>1 DEF FreeIds, FreeUpTo, Limit
  <2>5. SettledInv(t)
    BY <2>1, <2>4 DEF SettledInv
  <2> QED
    BY <2>2, <2>3, <2>5 DEF AllOf
<1> QED
  BY <1>1, <1>2, ByTable

\* IInv holds of every behaviour, whatever the tables, the names and the file.
THEOREM Inductive == Spec => []IInv
<1>1. Init => IInv
  BY InitIInv
<1>2. IInv /\ [Next]_vars => IInv'
  <2> SUFFICES ASSUME IInv, [Next]_vars PROVE IInv'
    OBVIOUS
  <2>1. CASE UNCHANGED vars
    <3>1. TypeOK /\ \A t \in Tables : AllOf(t)
      BY ByTable
    <3>2. TypeOK'
      BY <2>1, <3>1 DEF TypeOK, vars
    <3>3. \A t \in Tables : AllOf(t)'
      BY <2>1, <3>1, TableKept DEF vars
    <3> QED
      BY <3>2, <3>3, ByTableNext
  <2>2. CASE Next
    BY <2>2, ConstructStep, AddStep DEF Next
  <2> QED
    BY <2>1, <2>2
<1> QED
  BY <1>1, <1>2, PTL DEF Spec

\* The variables keep their types; the counter its width.
THEOREM TypeCorrect == Spec => []TypeOK
<1>1. IInv => TypeOK
  BY DEF IInv
<1> QED
  BY <1>1, Inductive, PTL

\* The k-th free name added has the k-th free id.
THEOREM IdsAreByRank == Spec => []IdsByRank
<1>1. IInv => IdsByRank
  BY DEF IInv
<1> QED
  BY <1>1, Inductive, PTL

\* A fixed message added after the file was loaded is found under its id.
THEOREM FixedAreFound == Spec => []FixedFound
<1>1. IInv => FixedFound
  BY DEF IInv
<1> QED
  BY <1>1, Inductive, PTL

\* Every message of a settled table is found under exactly one id.
THEOREM LookupIsSound == Spec => []LookupSound
<1>1. IInv => LookupSound
  <2> SUFFICES ASSUME IInv, NEW t \in Tables, Settled(t), NEW n \in Added(t)
               PROVE  Cardinality({id \in Ids : msgs_[t][id] = n}) = 1
    BY DEF LookupSound
  <2>0. TypeOK /\ AllOf(t) /\ n \in Names /\ n # NoMsg
    BY ByTable, AddedFacts, MSAssumption
  <2>1. PICK i \in 1..Len(order[t]) : order[t][i] = n
    BY DEF Added
  <2>2. \E id \in Ids : msgs_[t][id] = n
    <3>1. CASE n \in Fixed
      <4>1. loaded_ /\ n \in DOMAIN Config /\ early[t] = 0 /\ Config[n] \in Ids
        BY <3>1, FixedFacts DEF Fixed, Settled
      <4>2. i \in early[t] + 1..Len(order[t])
        BY <4>1, <2>1
      <4> QED
        BY <4>1, <4>2, <2>0, <2>1 DEF AllOf, Found
    <3>2. CASE n \notin Fixed
      <4>1. PICK id \in 1..Wrap - 1 : msgs_[t][id] = n
        BY <3>2, <2>0, <2>1 DEF AllOf, Rank
      <4>2. id \in Ids
        BY <4>1, MSAssumption DEF Ids
      <4> QED
        BY <4>1, <4>2
    <3> QED
      BY <3>1, <3>2
  <2>3. PICK id \in Ids : msgs_[t][id] = n
    BY <2>2
  <2>4. {j \in Ids : msgs_[t][j] = n} = {id}
    BY <2>0, <2>3 DEF AllOf, TableInv
  <2> QED
    BY <2>4, FS_Singleton
<1> QED
  BY <1>1, Inductive, PTL

\* Two free ids with as many free ids up to them are the same.
LEMMA RankUnique ==
  ASSUME NEW p \in 1..Wrap - 1, NEW q \in 1..Wrap - 1, ~isFixed(p), ~isFixed(q),
         Cardinality(FreeIds(p)) = Cardinality(FreeIds(q))
  PROVE  p = q
<1>1. ASSUME NEW x \in 1..Wrap - 1, NEW y \in 1..Wrap - 1, ~isFixed(y), x < y
      PROVE  Cardinality(FreeIds(x)) # Cardinality(FreeIds(y))
  <2>1. IsFiniteSet(FreeIds(y))
    <3>1. y \in Int /\ 1 \in Int
      BY <1>1, MSAssumption
    <3>2. IsFiniteSet(1..y)
      BY <3>1, FS_Interval
    <3>3. FreeIds(y) \in SUBSET (1..y)
      BY DEF FreeIds
    <3> QED
      BY <3>2, <3>3, FS_Subset
  <2>2. FreeIds(x) \in SUBSET FreeIds(y) /\ y \in FreeIds(y) /\ y \notin FreeIds(x)
    BY <1>1, MSAssumption DEF FreeIds
  <2> QED
    BY <2>1, <2>2, FS_Subset
<1>2. p \in Int /\ q \in Int
  BY MSAssumption
<1>3. CASE p < q
  BY <1>1, <1>3
<1>4. CASE q < p
  BY <1>1, <1>4
<1> QED
  BY <1>2, <1>3, <1>4

\* Both ends of a connection look a message up under the id it was sent with.
THEOREM EndsAlwaysAgree == Spec => []EndsAgree
<1>1. IInv => EndsAgree
  <2> SUFFICES ASSUME IInv, NEW t \in Tables, NEW u \in Tables, Settled(t), Settled(u),
                      NEW i \in 1..Len(order[t]), NEW j \in 1..Len(order[u]),
                      order[t][i] = order[u][j],
                      order[t][i] \in Fixed \/ FreeUpTo(t, i) = FreeUpTo(u, j),
                      NEW a \in Ids, NEW b \in Ids,
                      msgs_[t][a] = order[t][i], msgs_[u][b] = order[t][i]
               PROVE  a = b
    BY DEF EndsAgree
  <2> DEFINE n == order[t][i]
  <2>0. TypeOK /\ AllOf(t) /\ AllOf(u) /\ n \in Names /\ n # NoMsg
    BY ByTable, AddedFacts, MSAssumption
  <2> HIDE DEF n
  <2>1. ASSUME NEW w \in {t, u}, NEW x \in Ids, NEW y \in Ids, msgs_[w][x] = n, msgs_[w][y] = n
        PROVE  x = y
    BY <2>0, <2>1 DEF AllOf, TableInv
  <2>2. msgs_[t][a] = n /\ msgs_[u][b] = n /\ order[t][i] = n /\ order[u][j] = n
    BY DEF n
  <2>3. CASE n \in Fixed
    <3>1. loaded_ /\ n \in DOMAIN Config /\ early[t] = 0 /\ early[u] = 0 /\ Config[n] \in Ids
      BY <2>3, FixedFacts DEF Fixed, Settled
    <3>2. i \in early[t] + 1..Len(order[t]) /\ j \in early[u] + 1..Len(order[u])
      BY <3>1
    <3>3. msgs_[t][Config[n]] = n /\ msgs_[u][Config[n]] = n
      BY <3>1, <3>2, <2>0, <2>2 DEF AllOf, Found
    <3> QED
      BY <3>1, <3>3, <2>1, <2>2
  <2>4. CASE n \notin Fixed
    <3>1. PICK p \in 1..Wrap - 1 : /\ msgs_[t][p] = n /\ ~isFixed(p)
                                   /\ Cardinality(FreeIds(p)) = Cardinality(FreeUpTo(t, i))
      BY <2>4, <2>0, <2>2 DEF AllOf, Rank
    <3>2. PICK q \in 1..Wrap - 1 : /\ msgs_[u][q] = n /\ ~isFixed(q)
                                   /\ Cardinality(FreeIds(q)) = Cardinality(FreeUpTo(u, j))
      BY <2>4, <2>0, <2>2 DEF AllOf, Rank
    <3>3. p = q
      <4>1. FreeUpTo(t, i) = FreeUpTo(u, j)
        BY <2>4, <2>2
      <4> QED
        BY <3>1, <3>2, <4>1, RankUnique
    <3>4. p \in Ids /\ q \in Ids
      BY MSAssumption DEF Ids
    <3> QED
      BY <3>1, <3>2, <3>3, <3>4, <2>1, <2>2
  <2> QED
    BY <2>3, <2>4
<1> QED
  BY <1>1, Inductive, PTL
=============================================================================
