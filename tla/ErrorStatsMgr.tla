---------------------------- MODULE ErrorStatsMgr ----------------------------
(***************************************************************************)
(* ErrorStatMgr counts the errors raised per address and text: the first is *)
(* printed at once, repetitions are accumulated and printed when the        *)
(* minimum period has passed, by the next one or by the timer, and a record *)
(* that has not been raised for a lifetime is dropped.                      *)
(*                                                                         *)
(* A time stamp is kept as its age, in milliseconds; beyond the lifetime    *)
(* the code does not tell ages apart and neither does the model.            *)
(***************************************************************************)
EXTENDS Integers

CONSTANTS
  Key,         \* pairs of an address and an error text
  ERROR_REPORT_MIN_PERIOD_MS,
  ERROR_REPORT_COUNT_MAX_LIFETIME_MS,
  Second,      \* milliseconds in a second
  MaxLate,     \* how late the reactor may dispatch the timer
  MaxCount     \* bound: repetitions accumulated

Period   == ERROR_REPORT_MIN_PERIOD_MS
Lifetime == ERROR_REPORT_COUNT_MAX_LIFETIME_MS

ASSUME ESAssumption ==
  /\ Period \in Nat \ {0} /\ Lifetime \in Nat /\ Second \in Nat \ {0}
  /\ MaxLate \in Nat /\ MaxCount \in Nat

VARIABLES
  errorStats_,   \* Key -> the record, if there is one
  timer,         \* time since the timer was last due
  owed,          \* Key -> errors raised and not yet told of
  silence        \* Key -> age of the last line printed about it

vars == <<errorStats_, timer, owed, silence>>

Age == 0..Lifetime + 1

ErrorSat == [known : BOOLEAN, lastReport : Age, lastRaised : Age, count : Nat]

NoRecord == [known |-> FALSE, lastReport |-> 0, lastRaised |-> 0, count |-> 0]

NewRecord == [known |-> TRUE, lastReport |-> 0, lastRaised |-> 0, count |-> 0]

\* The timer is scheduled with ACE_Time_Value(Period, 0), which is seconds.
Interval == Period * Second

\* A record outlives the minimum period: none is dropped before its errors are
\* due (2 ms against 10 s in the code).
ASSUME LifetimeAssumption == Period <= Lifetime

\* The variables hold values of their types.
TypeOK ==
  /\ errorStats_ \in [Key -> ErrorSat]
  /\ timer \in 0..Interval + MaxLate
  /\ owed \in [Key -> Nat]
  /\ silence \in [Key -> Age]

-----------------------------------------------------------------------------

Older(age) == IF age < Lifetime + 1 THEN age + 1 ELSE age

\* A millisecond passes.
Tick ==
  /\ timer < Interval + MaxLate
  /\ timer' = timer + 1
  /\ errorStats_' = [k \in Key |->
        IF errorStats_[k].known
        THEN [errorStats_[k] EXCEPT !.lastReport = Older(@), !.lastRaised = Older(@)]
        ELSE errorStats_[k]]
  /\ silence' = [k \in Key |-> Older(silence[k])]
  /\ UNCHANGED owed

\* A line is printed about each of these keys.
Line(keys) == silence' = [k \in Key |-> IF k \in keys THEN 0 ELSE silence[k]]

\* Mutant: the first error is printed and accumulated as well.
FirstReportCounted(k) ==
  /\ ~errorStats_[k].known
  /\ errorStats_' = [errorStats_ EXCEPT ![k] =
                        [NewRecord EXCEPT !.count = 1]]
  /\ Line({k})
  /\ UNCHANGED <<timer, owed>>

\* addReport, no record: "first report of".
FirstReport(k) ==
  /\ ~errorStats_[k].known
  /\ errorStats_' = [errorStats_ EXCEPT ![k] = NewRecord]
  /\ Line({k})
  /\ UNCHANGED <<timer, owed>>

\* addReport, within the period: counted.
Accumulate(k) ==
  LET e == errorStats_[k]
  IN  /\ e.known /\ e.lastReport < Period
      /\ e.count < MaxCount
      /\ errorStats_' = [errorStats_ EXCEPT ![k] =
            [known |-> TRUE, lastReport |-> e.lastReport, lastRaised |-> 0,
             count |-> e.count + 1]]
      /\ owed' = [owed EXCEPT ![k] = @ + 1]
      /\ Line({})
      /\ UNCHANGED timer

\* Mutant: the count is printed before this error is added to it.
ReportNowEarly(k) ==
  LET e == errorStats_[k]
  IN  /\ e.known /\ e.lastReport >= Period
      /\ errorStats_' = [errorStats_ EXCEPT ![k] = NewRecord]
      /\ owed' = [owed EXCEPT ![k] = @ + 1 - e.count]
      /\ Line({k})
      /\ UNCHANGED timer

\* addReport, after the period: printed with what has accumulated.
ReportNow(k) ==
  LET e == errorStats_[k]
  IN  /\ e.known /\ e.lastReport >= Period
      /\ errorStats_' = [errorStats_ EXCEPT ![k] = NewRecord]
      /\ owed' = [owed EXCEPT ![k] = (@ + 1) - (e.count + 1)]
      /\ Line({k})
      /\ UNCHANGED timer

\* Mutant: the accumulated errors wait for the next one.
PrintsNever(e) == FALSE

\* The pass over the records prints this one.
Prints(e) == e.known /\ e.lastReport >= Period /\ e.count > 0

\* The pass drops it: not raised for a lifetime.
Stale(e) == e.known /\ e.lastRaised > Lifetime

\* Mutant: the pass takes the time of a line where there was none to print.
AfterPassTouches(e) ==
  IF Stale(e) THEN NoRecord
  ELSE IF e.known /\ e.lastReport >= Period
       THEN [e EXCEPT !.count = 0, !.lastReport = 0] ELSE e

AfterPass(e) ==
  IF Stale(e) THEN NoRecord
  ELSE IF Prints(e) THEN [e EXCEPT !.count = 0, !.lastReport = 0] ELSE e

\* handle_timeout: reportPendingExceptions(false) goes over all records.  A
\* late dispatch does not shift the ones that follow.
handle_timeout ==
  /\ timer >= Interval
  /\ timer' = timer % Interval
  /\ errorStats_' = [k \in Key |-> AfterPass(errorStats_[k])]
  /\ owed' = [k \in Key |->
        IF Prints(errorStats_[k]) THEN owed[k] - errorStats_[k].count ELSE owed[k]]
  /\ Line({k \in Key : Prints(errorStats_[k])})

Init ==
  /\ errorStats_ = [k \in Key |-> NoRecord]
  /\ timer = Interval
  /\ owed = [k \in Key |-> 0]
  /\ silence = [k \in Key |-> Lifetime + 1]

addReport(k) == FirstReport(k) \/ Accumulate(k) \/ ReportNow(k)

Next == Tick \/ handle_timeout \/ \E k \in Key : addReport(k)

Spec == Init /\ [][Next]_vars

\* Time passes and the reactor dispatches the timer.
FairSpec == Spec /\ WF_vars(Tick) /\ WF_vars(handle_timeout)

-----------------------------------------------------------------------------
(* Properties.                                                             *)

\* No error is lost and none is told of twice: what is still owed is what the
\* records have accumulated, also when records are dropped.
NothingLost == \A k \in Key : owed[k] = errorStats_[k].count

\* The longest an accumulated error may have to wait: the timer, which is due
\* every Period seconds, finds the last line not quite Period milliseconds
\* old, and comes late the next time.
Wait == Interval + MaxLate + Period - 1

\* Errors wait to be told of only while the last line about them is that
\* recent: an error after a longer silence is told of at once, and the timer
\* does not leave any behind, though the period it waits for and the period
\* it tests for differ by the factor Second.
ToldInTime == \A k \in Key : owed[k] > 0 => silence[k] <= Wait

\* What holds of one record e and what is known of its key: a record that has
\* something to tell was raised since its last line, and that line was, when
\* the timer was last due, less than a period old or not there yet.
KeyInv(e, o, s, t) ==
  /\ o = e.count
  /\ ~e.known => e = NoRecord
  /\ e.known => s = e.lastReport
  /\ e.count > 0 => e.lastRaised <= e.lastReport /\ e.lastReport <= t + Period - 1

IInv ==
  TypeOK /\ \A k \in Key : KeyInv(errorStats_[k], owed[k], silence[k], timer)

\* What is accumulated is printed in the end though the error never comes
\* again.
PendingPrinted == \A k \in Key : (owed[k] > 0) ~> (owed[k] = 0)
=============================================================================
