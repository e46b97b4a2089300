------------------------------ MODULE SlaClock ------------------------------
(***************************************************************************)
(* sla_clock: the business-day deadline of one item (rules K1 to K5),      *)
(* recomputed whenever the item is assessed again, as the days pass and as *)
(* the service is deployed again with another settings file.  The          *)
(* extension is a record of the case store; an assessment sees it only     *)
(* when the request cites its reference.  The API refuses a regime or a    *)
(* jurisdiction the policy does not name; the tool and the CLI do not.     *)
(***************************************************************************)
EXTENDS PolicyFile, FiniteSetsExt

CONSTANTS
  LastDay,             \* bound: the days that pass
  Dates,               \* the dates a notice or a record may name
  Requests,            \* <<instrument, regime, jurisdiction>> of the notices
  Blocks,              \* the policy blocks a settings file may hold
  None

Policies == {PolicyFromMapping(b) : b \in Blocks} \ {Refused}

ASSUME ClockAssumption ==
  /\ LastDay \in Nat
  /\ Dates \subseteq Int
  /\ None \notin Int
  /\ \A r \in Requests : r[1] \in Instrument
  /\ \A b \in Blocks : IsBlock(b)

VARIABLES
  policy,              \* what the running service was deployed with
  notice,              \* what the regulator said
  extension,           \* extended_to of the stored record, or None
  today,
  clock,               \* the clock of the latest assessment, or None
  seen                 \* what that assessment saw besides the notice

vars == <<policy, notice, extension, today, clock, seen>>

SeverityRank == [LOW |-> 0, MEDIUM |-> 1, HIGH |-> 2, CRITICAL |-> 3]
Surface == {"api", "tool"}

Notice == [received : {0}, itemDue : Dates \cup {None},
           requestDue : Dates \cup {None}, about : Requests]

Init ==
  /\ policy \in Policies
  /\ notice \in Notice
  /\ extension \in Dates \cup {None}
  /\ today = 0
  /\ clock = None
  /\ seen = None

-----------------------------------------------------------------------------
IsBusinessDay(day, cal) == day % 7 \notin cal.weekend /\ day \notin cal.holidays

\* From <<day, count>>, that many business days on or back (step 1 or -1).
Walk(step, cal) ==
  LET walk[at \in Int \X Nat] ==
        IF at[2] = 0 THEN at[1]
        ELSE LET day == at[1] + step
             IN walk[<<day, IF IsBusinessDay(day, cal) THEN at[2] - 1 ELSE at[2]>>]
  IN walk

AtLeastZero(n) == IF n > 0 THEN n ELSE 0

\* Slip: the start is counted as the first business day.
SubtractBusinessDays_CountsStart(start, count, cal) ==
  Walk(-1, cal)[<<start + 1, AtLeastZero(count)>>]

SubtractBusinessDays(start, count, cal) ==
  Walk(-1, cal)[<<start, AtLeastZero(count)>>]

AddBusinessDays(start, count, cal) ==
  IF count < 0 THEN SubtractBusinessDays(start, -count, cal)
  ELSE Walk(1, cal)[<<start, count>>]

\* Slip: the count has no sign.
BusinessDaysBetween_Unsigned(start, end, cal) ==
  LET step == IF end > start THEN 1 ELSE -1
      walk[d \in Int] ==
        IF d = end THEN 0
        ELSE (IF IsBusinessDay(d + step, cal) THEN 1 ELSE 0) + walk[d + step]
  IN walk[start]

\* Signed, counting the end and not the start.
BusinessDaysBetween(start, end, cal) ==
  LET step == IF end > start THEN 1 ELSE -1
      walk[d \in Int] ==
        IF d = end THEN 0
        ELSE (IF IsBusinessDay(d + step, cal) THEN step ELSE 0) + walk[d + step]
  IN walk[start]

\* The first band whose ceiling the remaining days fall at or under.
Band(remaining, bands) ==
  LET under == {i \in DOMAIN bands : remaining <= bands[i][1]}
  IN IF under = {} THEN "LOW" ELSE bands[Min(under)][2]

StatedDue == IF notice.itemDue # None THEN notice.itemDue ELSE notice.requestDue

Calendar(p) == CalendarFor(p, notice.about[3])

HasWindow(p) == notice.about[1] \in DOMAIN p.response_windows
Window(p) == p.response_windows[notice.about[1]]

\* A regime the register does not name fixes nothing.
Regime(p) ==
  IF notice.about[2] \in DOMAIN p.regime_register
    THEN p.regime_register[notice.about[2]] ELSE Unscheduled

\* K1, K2
BaseDue(p) ==
  IF StatedDue # None
    THEN [due |-> StatedDue, basis |-> "regulator_stated"]
    ELSE [due |-> AddBusinessDays(notice.received, Window(p), Calendar(p)),
          basis |-> "policy_window"]

\* _regime_due
RegimeDue(p) ==
  IF Regime(p).calendarDays THEN notice.received + Regime(p).fixed
  ELSE AddBusinessDays(notice.received, Regime(p).fixed, Calendar(p))

\* Slip: the regime's date replaces the stated one.
CappedDue_Replaces(p) ==
  IF Regime(p).fixed > 0 THEN [due |-> RegimeDue(p), basis |-> "regime_cap"] ELSE BaseDue(p)

\* K3: the earlier of the two.
CappedDue(p) ==
  IF Regime(p).fixed > 0 /\ RegimeDue(p) < BaseDue(p).due
    THEN [due |-> RegimeDue(p), basis |-> "regime_cap"] ELSE BaseDue(p)

\* K4: only a stored extension the request cites moves the date.
FinalDue(p, cites) ==
  IF cites /\ extension # None
    THEN [due |-> extension, basis |-> "extension", original |-> CappedDue(p).due]
    ELSE [due |-> CappedDue(p).due, basis |-> CappedDue(p).basis, original |-> None]

\* Slip: the passed date is compared with the date before the extension.
ComputeClock_BreachOfOriginal(asOf, p, cites) ==
  LET final == FinalDue(p, cites)
      internal == SubtractBusinessDays(final.due, p.review_buffer_business_days, Calendar(p))
      remaining == BusinessDaysBetween(asOf, internal, Calendar(p))
  IN [due |-> final.due, basis |-> final.basis, original |-> final.original,
      internal |-> internal,
      extensionBy |->
        SubtractBusinessDays(final.due, p.extension_notice_business_days, Calendar(p)),
      remaining |-> remaining,
      band |-> Band(remaining, p.sla_bands),
      breached |-> asOf > CappedDue(p).due,
      bufferConsumed |-> remaining < 0,
      version |-> Calendar(p).version]

\* K5
ComputeClock(asOf, p, cites) ==
  LET final == FinalDue(p, cites)
      internal == SubtractBusinessDays(final.due, p.review_buffer_business_days, Calendar(p))
      remaining == BusinessDaysBetween(asOf, internal, Calendar(p))
  IN [due |-> final.due, basis |-> final.basis, original |-> final.original,
      internal |-> internal,
      extensionBy |->
        SubtractBusinessDays(final.due, p.extension_notice_business_days, Calendar(p)),
      remaining |-> remaining,
      band |-> Band(remaining, p.sla_bands),
      breached |-> asOf > final.due,
      bufferConsumed |-> remaining < 0,
      version |-> Calendar(p).version]

\* No date is guessed: with no stated date and no window the clock raises.
\* And it counts up to the end of the calendar where no day is a business day.
Computable(p) ==
  LET counts == {AtLeastZero(p.review_buffer_business_days),
                 AtLeastZero(p.extension_notice_business_days)}
                \cup (IF StatedDue = None THEN {Window(p)} ELSE {})
                \cup (IF Regime(p).calendarDays THEN {} ELSE {AtLeastZero(Regime(p).fixed)})
  IN /\ StatedDue # None \/ HasWindow(p)
     /\ 0..6 \subseteq Calendar(p).weekend => \A n \in counts : n = 0

\* Slip: the endpoint asks for the regime alone.
Admitted_AnyCalendar(surface) ==
  surface = "api" => notice.about[2] \in DOMAIN policy.regime_register

\* The endpoint answers 422 to what the policy does not name.
Admitted(surface) ==
  surface = "api" =>
    /\ notice.about[2] \in DOMAIN policy.regime_register
    /\ notice.about[3] \in DOMAIN policy.calendars

Assess ==
  \E surface \in Surface, cites \in BOOLEAN :
    /\ Admitted(surface) /\ Computable(policy)
    /\ clock' = ComputeClock(today, policy, cites)
    /\ seen' = [policy |-> policy, extended |-> cites /\ extension # None, surface |-> surface]
    /\ UNCHANGED <<policy, notice, extension, today>>

AssessRaises ==
  (~Computable(policy) \/ \E surface \in Surface : ~Admitted(surface)) /\ UNCHANGED vars

NextDay ==
  /\ today < LastDay
  /\ today' = today + 1
  /\ UNCHANGED <<policy, notice, extension, clock, seen>>

\* Another settings file, and the process that read it.
Redeploy ==
  /\ policy' \in Policies
  /\ UNCHANGED <<notice, extension, today, clock, seen>>

Next == Assess \/ AssessRaises \/ NextDay \/ Redeploy

Spec == Init /\ [][Next]_vars

-----------------------------------------------------------------------------
Clock == [due : Int, internal : Int,
          basis : {"regulator_stated", "policy_window", "regime_cap", "extension"},
          extensionBy : Int, remaining : Int, band : Severity, breached : BOOLEAN,
          bufferConsumed : BOOLEAN, original : Int \cup {None}, version : STRING]

TypeOK ==
  /\ policy \in Policies
  /\ notice \in Notice
  /\ extension \in Dates \cup {None}
  /\ today \in 0..LastDay
  /\ clock = None \/ clock \in Clock
  /\ seen = None \/ seen \in [policy : Policies, extended : BOOLEAN, surface : Surface]

BusinessDays(S) == Cardinality({d \in S : IsBusinessDay(d, Calendar(seen.policy))})

(* The checkers have their buffer: between the internal date and the       *)
(* regulator's date, whatever set it, there are exactly as many business   *)
(* days as the policy in force said, starting on a day on which somebody   *)
(* works, and an extension can be asked for its notice period ahead        *)
(* (subtract_business_days over weekends and holidays; a negative number   *)
(* in the file counts as none).                                            *)
BufferKept ==
  clock # None =>
    /\ clock.internal <= clock.due /\ clock.extensionBy <= clock.due
    /\ BusinessDays(clock.internal..(clock.due - 1)) =
         AtLeastZero(seen.policy.review_buffer_business_days)
    /\ seen.policy.review_buffer_business_days > 0 =>
         IsBusinessDay(clock.internal, Calendar(seen.policy))
    /\ BusinessDays(clock.extensionBy..(clock.due - 1)) =
         AtLeastZero(seen.policy.extension_notice_business_days)

\* The file bands nothing left as the worst, and never eases on the way there.
GradedBands(bands) ==
  /\ Band(0, bands) = "CRITICAL"
  /\ \A i, j \in DOMAIN bands :
       bands[i][1] < bands[j][1] =>
         SeverityRank[Band(bands[i][1], bands)] >= SeverityRank[Band(bands[j][1], bands)]

(* A date that has passed is never a quiet one: where the file's bands are *)
(* graded, it bands CRITICAL with no day remaining, and a breach once      *)
(* reported is real whatever day it is read (compute_clock; EvidenceLadder *)
(* relies on it).                                                          *)
BreachIsCritical ==
  clock # None /\ clock.breached =>
    /\ GradedBands(seen.policy.sla_bands) => clock.band = "CRITICAL"
    /\ clock.remaining <= 0 /\ today > clock.due

(* A deadline is moved out only by a stored extension: without one it is   *)
(* never past the regulator's stated date nor past the regime's window,    *)
(* and with one the date it replaced is kept (rules K1, K3, K4).           *)
OnlyARecordExtends ==
  clock # None =>
    /\ clock.basis # "extension" =>
         /\ StatedDue # None => clock.due <= StatedDue
         /\ Regime(seen.policy).fixed > 0 => clock.due <= RegimeDue(seen.policy)
         /\ clock.original = None
    /\ clock.basis = "extension" =>
         /\ clock.due = extension
         /\ StatedDue # None => clock.original <= StatedDue

(* Whichever files the service was deployed with, a clock names the list   *)
(* of holidays it was counted with, or says that there was none and was    *)
(* then not asked for over the API (the version check of _calendars, the   *)
(* fallback of calendar_for, and the 422 of the endpoint).                 *)
ClockNamesItsCalendar ==
  clock # None =>
    /\ clock.version # ""
    /\ notice.about[3] \notin DOMAIN seen.policy.calendars =>
         clock.version = "unconfigured" /\ seen.surface # "api"

(* Time only makes a deadline worse: assessed again under the same record  *)
(* and policy, the days remaining never grow, a breach stays, the date     *)
(* stands, and graded bands never ease (business_days_between is signed;   *)
(* _band takes the first ceiling).                                         *)
NeverEases ==
  [][clock # None /\ seen'.policy = seen.policy /\ seen'.extended = seen.extended =>
       /\ clock'.remaining <= clock.remaining
       /\ GradedBands(seen.policy.sla_bands) =>
            SeverityRank[clock'.band] >= SeverityRank[clock.band]
       /\ clock.breached => clock'.breached
       /\ clock'.due = clock.due]_vars
=============================================================================
