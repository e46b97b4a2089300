---------------------------- MODULE ReleaseRules ----------------------------
(***************************************************************************)
(* release_engine: what the blockers, the deadline clock and the links of  *)
(* an item make of it (rules S1 to S3, R2, R3), and how items roll up into *)
(* the pack (P1).  Blockers are a set: no rule depends on their order or   *)
(* on repetition.                                                          *)
(***************************************************************************)
EXTENDS Integers, Sequences, FiniteSets, FiniteSetsExt

CONSTANTS
  MinCompleteness,     \* min_completeness_pct_for_release
  DualInstrument,      \* dual_control_instruments
  DualKind             \* dual_control_kinds

Severity == {"LOW", "MEDIUM", "HIGH", "CRITICAL"}
SeverityRank == [LOW |-> 0, MEDIUM |-> 1, HIGH |-> 2, CRITICAL |-> 3]
Blocking == {"HIGH", "CRITICAL"}

Disposition == {"ON_TRACK", "AT_RISK", "BLOCKED", "BREACH"}
DispositionRank == [ON_TRACK |-> 0, AT_RISK |-> 1, BLOCKED |-> 2, BREACH |-> 3]

BlockerKind ==
  {"MISSING_ARTEFACT", "DENIED_NO_ENTITLEMENT", "PRIVILEGE_HOLD",
   "RESTRICTED_TRANSFER", "STALE_EVIDENCE", "NO_OWNER",
   "PRIOR_ANSWER_CONFLICT", "UNRECOGNISED_ASSERTION",
   "NO_ADMISSIBLE_EVIDENCE", "UNGROUNDED_DRAFT", "BELOW_MIN_COMPLETENESS",
   "DEADLINE_BREACH"}

Withheld ==
  {"WITHHELD_PRIVILEGED", "WITHHELD_SAR", "WITHHELD_RESTRICTED_TRANSFER"}
EvidenceStatus ==
  Withheld \cup {"ACCEPTED", "STALE", "OUT_OF_PERIOD", "DENIED_NO_ENTITLEMENT"}

\* The member of S ranked highest; LOW ranks below everything.
WorstOf(S, rank) == CHOOSE s \in S : \A t \in S : rank[t] <= rank[s]

WorstSeverity(blockers) ==
  WorstOf({"LOW"} \cup {b.severity : b \in blockers}, SeverityRank)

\* Slip: a withheld or stale link alone does not unsettle the item.
ItemDisposition_IgnoresLinks(blockers, sla, statuses) ==
  IF sla.breached THEN "BREACH"
  ELSE IF \E b \in blockers : b.severity \in Blocking THEN "BLOCKED"
  ELSE IF blockers # {} \/ sla.band \in Blocking THEN "AT_RISK"
  ELSE "ON_TRACK"

\* S1: breach beats blocked beats at risk.
ItemDisposition(blockers, sla, statuses) ==
  LET unsettled == statuses \cap (Withheld \cup {"STALE"}) # {}
  IN IF sla.breached THEN "BREACH"
     ELSE IF \E b \in blockers : b.severity \in Blocking THEN "BLOCKED"
     ELSE IF blockers # {} \/ sla.band \in Blocking \/ unsettled THEN "AT_RISK"
     ELSE "ON_TRACK"

\* S2: the worse of the blockers and the clock, HIGH at least on privilege.
ItemSeverity(blockers, sla) ==
  WorstOf({WorstSeverity(blockers), sla.band} \cup
            (IF \E b \in blockers : b.kind = "PRIVILEGE_HOLD"
               THEN {"HIGH"} ELSE {}),
          SeverityRank)

\* S3
Escalates(severity) == severity \in Blocking

\* R2: the named kinds a checker must clear, and the completeness floor.
ReleaseBlockers(blockers, completeness) ==
  {b.kind : b \in blockers} \cup
    (IF completeness < MinCompleteness THEN {"BELOW_MIN_COMPLETENESS"} ELSE {})

\* R3
RequiredApprovals(kind, instrument, severity) ==
  IF kind \in DualKind \/ instrument \in DualInstrument \/ severity = "CRITICAL"
    THEN 2 ELSE 1

-----------------------------------------------------------------------------
\* Slip: the disposition of the last item is taken.
PackDisposition_Last(items) ==
  IF items = <<>> THEN "BLOCKED" ELSE items[Len(items)].disposition

\* P1, over the verdicts on the items of a pack.
PackDisposition(items) ==
  IF items = <<>> THEN "BLOCKED"
  ELSE WorstOf({items[i].disposition : i \in DOMAIN items}, DispositionRank)

TotalCompleteness(items) ==
  MapThenSumSet(LAMBDA i : items[i].completeness, DOMAIN items)

\* The integer mean, rounded down.
PackCompleteness(items) ==
  IF items = <<>> THEN 0 ELSE TotalCompleteness(items) \div Len(items)

PackBlockers(items) == UNION {items[i].blockers : i \in DOMAIN items}

PackSeverity(items) ==
  WorstOf({"LOW"} \cup {items[i].severity : i \in DOMAIN items}, SeverityRank)
=============================================================================
