------------------------ MODULE ErrorStatsMgr_proofs ------------------------
(***************************************************************************)
(* No error report is lost and none waits longer than the timer's interval  *)
(* and lateness make it, for any set of keys and any constants.             *)
(***************************************************************************)
EXTENDS ErrorStatsMgr, TLAPS

\* The constants, with the product that makes the timer's interval.
LEMMA Constants ==
  /\ Period \in Nat \ {0} /\ Lifetime \in Nat
  /\ MaxLate \in Nat /\ MaxCount \in Nat
  /\ Interval \in Nat \ {0}
<1>1. Period \in Nat \ {0} /\ Second \in Nat \ {0} /\ Lifetime \in Nat
      /\ MaxLate \in Nat /\ MaxCount \in Nat
  BY ESAssumption
<1>2. \A a, b \in Nat \ {0} : a * b \in Nat \ {0}
  OBVIOUS
<1> QED
  BY <1>1, <1>2 DEF Interval

\* Where the timer stands after a dispatch.
LEMMA TimerAfter ==
  ASSUME NEW t \in Nat
  PROVE  t % Interval \in 0..Interval + MaxLate
<1> DEFINE i == Interval
<1>1. i \in Nat \ {0} /\ MaxLate \in Nat
  BY Constants
<1>2. t % i \in 0..i - 1
  <2> HIDE DEF i
  <2> QED BY <1>1
<1> HIDE DEF i
<1>3. t % i \in 0..i + MaxLate
  BY <1>1, <1>2
<1> QED
  BY <1>3 DEF i

\* An age grows and stays an age.
LEMMA OlderAge ==
  ASSUME NEW a \in Age
  PROVE  Older(a) \in Age /\ Older(a) >= a /\ Older(a) <= a + 1
BY Constants DEF Older, Age

\* All ages grow alike.
LEMMA OlderMonotone ==
  ASSUME NEW a \in Age, NEW b \in Age
  PROVE  a <= b => Older(a) <= Older(b)
BY Constants DEF Older, Age

\* A millisecond keeps one record's invariant.
LEMMA KeyTick ==
  ASSUME NEW e \in ErrorSat, NEW o \in Nat, NEW s \in Age, NEW t \in Nat,
         KeyInv(e, o, s, t),
         NEW f, f = IF e.known
                    THEN [e EXCEPT !.lastReport = Older(@), !.lastRaised = Older(@)]
                    ELSE e
  PROVE  f \in ErrorSat /\ KeyInv(f, o, Older(s), t + 1)
<1>1. CASE e.known
  <2>1. f = [known |-> e.known, lastReport |-> Older(e.lastReport),
             lastRaised |-> Older(e.lastRaised), count |-> e.count]
    BY <1>1 DEF ErrorSat
  <2>2. e.lastReport \in Age /\ e.lastRaised \in Age /\ e.count \in Nat
    BY DEF ErrorSat
  <2>3. Older(e.lastReport) \in Age /\ Older(e.lastRaised) \in Age
        /\ Older(e.lastReport) <= e.lastReport + 1
    BY <2>2, OlderAge
  <2>4. f \in ErrorSat
    BY <2>1, <2>2, <2>3 DEF ErrorSat
  <2>5. o = e.count /\ s = e.lastReport
    BY <1>1 DEF KeyInv
  <2>6. e.count > 0 => /\ Older(e.lastRaised) <= Older(e.lastReport)
                       /\ Older(e.lastReport) <= (t + 1) + Period - 1
    BY <2>2, <2>3, OlderMonotone, Constants DEF KeyInv, Age
  <2> QED
    BY <1>1, <2>1, <2>4, <2>5, <2>6 DEF KeyInv
<1>2. CASE ~e.known
  <2>1. f = e /\ e = NoRecord /\ o = e.count
    BY <1>2 DEF KeyInv
  <2> QED
    BY <1>2, <2>1 DEF KeyInv, NoRecord
<1> QED
  BY <1>1, <1>2

\* A record that is dropped with errors to tell of is printed first.
LEMMA StaleIsTold ==
  ASSUME NEW e \in ErrorSat, NEW o, NEW s, NEW t, KeyInv(e, o, s, t), Stale(e),
         e.count > 0
  PROVE  Prints(e)
<1>1. e.lastReport \in Nat /\ e.lastRaised \in Nat
  BY Constants DEF ErrorSat, Age
<1>2. e.known /\ e.lastRaised <= e.lastReport /\ e.lastRaised > Lifetime
  BY DEF KeyInv, Stale
<1> QED
  BY <1>1, <1>2, Constants, LifetimeAssumption DEF Prints

\* The pass of the timer keeps one record's invariant, wherever the timer
\* stands afterwards.
LEMMA KeyPass ==
  ASSUME NEW e \in ErrorSat, NEW o \in Nat, NEW s \in Age,
         NEW t \in 0..Interval + MaxLate, NEW u \in Nat,
         KeyInv(e, o, s, t),
         NEW p, p = IF Prints(e) THEN o - e.count ELSE o,
         NEW r, r = IF Prints(e) THEN 0 ELSE s
  PROVE  /\ AfterPass(e) \in ErrorSat /\ p \in Nat /\ r \in Age
         /\ KeyInv(AfterPass(e), p, r, u)
<1>0. e.lastReport \in Age /\ e.lastRaised \in Age /\ e.count \in Nat
      /\ 0 \in Age /\ e.known \in BOOLEAN
  BY Constants DEF ErrorSat, Age
<1>n. e.lastReport \in Nat /\ e.lastRaised \in Nat
      /\ t \in Nat /\ t <= Interval + MaxLate
  BY <1>0, Constants DEF Age
<1>1. CASE Stale(e)
  <2>1. p = 0 /\ r \in Age
    BY <1>0, <1>1, StaleIsTold DEF KeyInv
  <2>2. AfterPass(e) = NoRecord
    BY <1>1 DEF AfterPass
  <2>3. NoRecord \in ErrorSat
    BY <1>0 DEF NoRecord, ErrorSat
  <2> QED
    BY <2>1, <2>2, <2>3 DEF KeyInv, NoRecord
<1>2. CASE ~Stale(e) /\ Prints(e)
  <2>1. AfterPass(e) = [known |-> TRUE, lastReport |-> 0,
                        lastRaised |-> e.lastRaised, count |-> 0]
    BY <1>2 DEF AfterPass, Prints, ErrorSat
  <2>2. o - e.count = 0
    BY <1>0 DEF KeyInv
  <2> QED
    BY <1>0, <1>2, <2>1, <2>2 DEF KeyInv, ErrorSat
<1>3. CASE ~Stale(e) /\ ~Prints(e)
  <2>1. AfterPass(e) = e
    BY <1>3 DEF AfterPass
  <2>2. e.count > 0 => e.lastReport <= u + Period - 1
    <3> SUFFICES ASSUME e.count > 0 PROVE e.lastReport <= u + Period - 1
      OBVIOUS
    <3>1. e.known
      BY <1>0 DEF KeyInv, NoRecord
    <3>2. e.lastReport < Period
      BY <1>n, <1>3, <3>1, Constants DEF Prints
    <3> QED
      BY <1>n, <3>2, Constants
  <2> QED
    BY <1>3, <2>1, <2>2 DEF KeyInv
<1> QED
  BY <1>1, <1>2, <1>3

-----------------------------------------------------------------------------

\* The initial state: no record.
LEMMA InitIInv == Init => IInv
<1> SUFFICES ASSUME Init PROVE IInv
  OBVIOUS
<1>1. NoRecord \in ErrorSat
  BY Constants DEF NoRecord, ErrorSat, Age
<1>2. Lifetime + 1 \in Age
  BY Constants DEF Age
<1>3. TypeOK
  BY <1>1, <1>2, Constants DEF Init, TypeOK
<1>4. ASSUME NEW k \in Key PROVE KeyInv(errorStats_[k], owed[k], silence[k], timer)
  BY <1>2 DEF Init, KeyInv, NoRecord
<1> QED
  BY <1>3, <1>4 DEF IInv

\* A step on one key leaves the others' records, debts and silences alone.
LEMMA OneKey ==
  ASSUME IInv, NEW k \in Key,
         NEW e \in ErrorSat, NEW o \in Nat, NEW s \in Age,
         KeyInv(e, o, s, timer),
         errorStats_' = [errorStats_ EXCEPT ![k] = e],
         owed' = [owed EXCEPT ![k] = o],
         silence' = [silence EXCEPT ![k] = s], timer' = timer
  PROVE  IInv'
<1>1. TypeOK'
  BY DEF IInv, TypeOK
<1>2. ASSUME NEW j \in Key
      PROVE  KeyInv(errorStats_'[j], owed'[j], silence'[j], timer')
  BY DEF IInv, TypeOK
<1> QED
  BY <1>1, <1>2 DEF IInv

\* Every step keeps the invariant.
LEMMA NextIInv == IInv /\ [Next]_vars => IInv'
<1> SUFFICES ASSUME IInv, [Next]_vars PROVE IInv'
  OBVIOUS
<1>t. TypeOK /\ timer \in Nat /\ 0 \in Age /\ Age \subseteq Nat
  BY Constants DEF IInv, TypeOK, Age
<1>1. CASE Tick
  <2>1. ASSUME NEW k \in Key
        PROVE  /\ errorStats_'[k] \in ErrorSat
               /\ KeyInv(errorStats_'[k], owed'[k], silence'[k], timer')
    <3>1. errorStats_[k] \in ErrorSat /\ owed[k] \in Nat /\ silence[k] \in Age
      BY <1>t DEF TypeOK
    <3>2. KeyInv(errorStats_[k], owed[k], silence[k], timer)
      BY DEF IInv
    <3>3. errorStats_'[k] =
            IF errorStats_[k].known
            THEN [errorStats_[k] EXCEPT !.lastReport = Older(@), !.lastRaised = Older(@)]
            ELSE errorStats_[k]
      BY <1>1 DEF Tick
    <3>4. owed'[k] = owed[k] /\ silence'[k] = Older(silence[k]) /\ timer' = timer + 1
      BY <1>1 DEF Tick
    <3> QED
      BY <1>t, <3>1, <3>2, <3>3, <3>4, KeyTick
  <2>2. \A k \in Key : Older(silence[k]) \in Age
    BY <1>t, OlderAge DEF TypeOK
  <2>3. timer' \in 0..Interval + MaxLate
    <3>1. timer \in 0..Interval + MaxLate
      BY <1>t DEF TypeOK
    <3>2. timer < Interval + MaxLate /\ timer' = timer + 1
      BY <1>1 DEF Tick
    <3> QED
      BY <3>1, <3>2, Constants
  <2>4. errorStats_' = [k \in Key |-> errorStats_'[k]]
    BY <1>1 DEF Tick
  <2>5. TypeOK'
    BY <1>1, <1>t, <2>1, <2>2, <2>3, <2>4 DEF Tick, TypeOK
  <2> QED
    BY <2>1, <2>5 DEF IInv
<1>2. CASE handle_timeout
  <2>1. ASSUME NEW k \in Key
        PROVE  /\ errorStats_'[k] \in ErrorSat /\ owed'[k] \in Nat
               /\ silence'[k] \in Age
               /\ KeyInv(errorStats_'[k], owed'[k], silence'[k], timer')
    <3>1. errorStats_[k] \in ErrorSat /\ owed[k] \in Nat /\ silence[k] \in Age
          /\ timer \in 0..Interval + MaxLate
      BY <1>t DEF TypeOK
    <3>2. KeyInv(errorStats_[k], owed[k], silence[k], timer)
      BY DEF IInv
    <3>3. timer' \in Nat
      BY <1>2, <1>t, TimerAfter, Constants DEF handle_timeout
    <3>4. /\ errorStats_'[k] = AfterPass(errorStats_[k])
          /\ owed'[k] = IF Prints(errorStats_[k]) THEN owed[k] - errorStats_[k].count
                        ELSE owed[k]
          /\ silence'[k] = IF Prints(errorStats_[k]) THEN 0 ELSE silence[k]
      BY <1>2 DEF handle_timeout, Line
    <3> QED
      BY <1>t, <3>1, <3>2, <3>3, <3>4, KeyPass
  <2>2. timer' \in 0..Interval + MaxLate
    BY <1>2, <1>t, TimerAfter DEF handle_timeout
  <2>3. /\ errorStats_' = [k \in Key |-> errorStats_'[k]]
        /\ owed' = [k \in Key |-> owed'[k]]
        /\ silence' = [k \in Key |-> silence'[k]]
    BY <1>2 DEF handle_timeout, Line
  <2>4. TypeOK'
    BY <2>1, <2>2, <2>3 DEF TypeOK
  <2> QED
    BY <2>1, <2>4 DEF IInv
<1>3. ASSUME NEW k \in Key, addReport(k) PROVE IInv'
  <2> DEFINE e == errorStats_[k]
  <2>1. e \in ErrorSat /\ owed[k] \in Nat /\ silence[k] \in Age
        /\ KeyInv(e, owed[k], silence[k], timer)
    BY <1>t DEF TypeOK, IInv
  <2>2. e.lastReport \in Age /\ e.lastRaised \in Age /\ e.count \in Nat
        /\ e.known \in BOOLEAN
    BY <2>1 DEF ErrorSat
  <2>3. NewRecord \in ErrorSat /\ KeyInv(NewRecord, 0, 0, timer)
    BY <1>t, Constants DEF ErrorSat, KeyInv, NewRecord
  <2>4. CASE FirstReport(k)
    <3>1. owed[k] = 0
      BY <2>1, <2>4 DEF FirstReport, KeyInv, NoRecord
    <3>2. owed' = [owed EXCEPT ![k] = 0]
      BY <1>t, <2>4, <3>1 DEF FirstReport, TypeOK
    <3>3. silence' = [silence EXCEPT ![k] = 0]
      BY <1>t, <2>4 DEF FirstReport, Line, TypeOK
    <3> QED
      BY <1>t, <2>3, <2>4, <3>2, <3>3, OneKey DEF FirstReport
  <2>5. CASE Accumulate(k)
    <3> DEFINE f == [known |-> TRUE, lastReport |-> e.lastReport,
                     lastRaised |-> 0, count |-> e.count + 1]
    <3>1. errorStats_' = [errorStats_ EXCEPT ![k] = f]
      BY <2>5 DEF Accumulate
    <3>2. f \in ErrorSat
      BY <1>t, <2>2 DEF ErrorSat
    <3>3. KeyInv(f, owed[k] + 1, silence[k], timer)
      <4>1. e.known /\ owed[k] = e.count /\ silence[k] = e.lastReport
        BY <2>1, <2>5 DEF Accumulate, KeyInv
      <4>2. e.lastReport \in Nat
        BY <2>2, Constants DEF Age
      <4>3. 0 <= e.lastReport /\ e.lastReport <= timer + Period - 1
        BY <1>t, <2>5, <4>2, Constants DEF Accumulate
      <4> QED
        BY <4>1, <4>3 DEF KeyInv
    <3>4. owed' = [owed EXCEPT ![k] = owed[k] + 1]
          /\ silence' = [silence EXCEPT ![k] = silence[k]]
          /\ timer' = timer
      BY <1>t, <2>5 DEF Accumulate, Line, TypeOK
    <3>5. owed[k] + 1 \in Nat
      BY <2>1
    <3> HIDE DEF f
    <3> QED
      BY <2>1, <3>5, <3>1, <3>2, <3>3, <3>4, OneKey
  <2>6. CASE ReportNow(k)
    <3>1. owed[k] = e.count
      BY <2>1 DEF KeyInv
    <3>2. (owed[k] + 1) - (e.count + 1) = 0
      BY <2>2, <3>1
    <3>3. owed' = [owed EXCEPT ![k] = 0]
      BY <2>6, <3>2 DEF ReportNow
    <3>4. silence' = [silence EXCEPT ![k] = 0]
      BY <1>t, <2>6 DEF ReportNow, Line, TypeOK
    <3> QED
      BY <1>t, <2>3, <2>6, <3>3, <3>4, OneKey DEF ReportNow
  <2> QED
    BY <1>3, <2>4, <2>5, <2>6 DEF addReport
<1>4. CASE UNCHANGED vars
  <2>1. TypeOK'
    BY <1>t, <1>4 DEF TypeOK, vars
  <2> QED
    BY <1>4, <2>1 DEF IInv, vars
<1> QED
  BY <1>1, <1>2, <1>3, <1>4 DEF Next

-----------------------------------------------------------------------------

\* The invariant holds throughout.
THEOREM Inductive == Spec => []IInv
<1> QED
  BY InitIInv, NextIInv, PTL DEF Spec

\* The types of the error statistics hold throughout.
THEOREM TypeCorrect == Spec => []TypeOK
<1>1. IInv => TypeOK
  BY DEF IInv
<1> QED
  BY <1>1, Inductive, PTL

\* However errors, the timer and time interleave, addReport and
\* reportPendingExceptions neither lose an error nor tell of one twice.
THEOREM NoErrorLost == Spec => []NothingLost
<1>1. IInv => NothingLost
  BY DEF IInv, KeyInv, NothingLost
<1> QED
  BY <1>1, Inductive, PTL

\* No error waits longer for its line than the interval of the timer, its
\* lateness and a period make it.
THEOREM NoneWaitsLong == Spec => []ToldInTime
<1>1. IInv => ToldInTime
  <2> SUFFICES ASSUME IInv, NEW k \in Key, owed[k] > 0
               PROVE  silence[k] <= Wait
    BY DEF ToldInTime
  <2> DEFINE e == errorStats_[k]
  <2>1. e \in ErrorSat /\ timer \in 0..Interval + MaxLate
    BY DEF IInv, TypeOK
  <2>2. owed[k] = e.count /\ silence[k] = e.lastReport
        /\ e.lastReport <= timer + Period - 1
    BY DEF IInv, KeyInv, NoRecord
  <2>3. e.lastReport \in Nat
    BY <2>1, Constants DEF ErrorSat, Age
  <2> HIDE DEF e
  <2> QED
    BY <2>1, <2>2, <2>3, Constants DEF Wait
<1> QED
  BY <1>1, Inductive, PTL
=============================================================================
