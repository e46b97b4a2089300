--------------------------- MODULE EvidenceLadder ---------------------------
(***************************************************************************)
(* From candidate documents to a held response pack: decompose,            *)
(* assess_evidence (the admissibility ladder A1 to A7 and coverage C1 to   *)
(* C4), the verdict on the item (ReleaseRules), and the roll-up of the     *)
(* items into the pack.  One request assesses its items one after the      *)
(* other.  The candidates come from two ports, the knowledge base and the  *)
(* evidence packs, so one document may arrive twice, in copies that        *)
(* differ, and nothing but the ladder itself stands between an unfiltered  *)
(* candidate and the exhibits.                                             *)
(***************************************************************************)
EXTENDS ReleaseRules

CONSTANTS
  Doc,                 \* documents as the ports return them
  DocId, Artefact,
  DefaultArtefact,     \* narrative_statement
  Entitlements,        \* the caller's
  Permitted,           \* jurisdictions evidence may come from
  PeriodStart, PeriodEnd, MaxAge,    \* days
  HardTags, SilentTags,
  RequiresWaiver,      \* privilege_requires_waiver
  Cap,                 \* max_evidence_per_requirement
  Instrument,
  MaxCandidates, MaxItems, MaxRefused   \* bounds

ASSUME LadderAssumption ==
  /\ \A d \in Doc : /\ d.id \in DocId
                    /\ d.artefact \in Artefact
                    /\ d.onTopic \in BOOLEAN
                    /\ d.asOf \in Int
  /\ DefaultArtefact \in Artefact /\ IsFiniteSet(Artefact)
  /\ PeriodStart \in Int /\ PeriodEnd \in Int /\ MaxAge \in Nat
  /\ PeriodStart <= PeriodEnd
  /\ RequiresWaiver \in BOOLEAN
  /\ Cap \in Nat
  /\ MaxCandidates \in Nat /\ MaxItems \in Nat /\ MaxRefused \in Nat

VARIABLES
  phase,               \* where the request is
  instrument,
  required,            \* the artefacts the item requires
  candidates,          \* the entitled candidates, in the order of the ports
  at,                  \* the candidate the ladder looks at next
  suppressed,          \* what the store refused: how many, of which classes
  waiverOk,            \* a stored waiver of this tenant is in force
  links,               \* the ladder's verdicts
  dropped,             \* out_of_scope_dropped
  items,               \* the item assessments
  pack                 \* the pack's own verdict

vars == <<phase, instrument, required, candidates, at, suppressed, waiverOk,
          links, dropped, items, pack>>

Link == [doc : Doc, status : EvidenceStatus]
CoverageState == {"COVERED", "PARTIAL", "STALE", "WITHHELD", "DENIED", "MISSING"}
Satisfied == {"COVERED", "PARTIAL"}
Blocker == [kind : BlockerKind, severity : Severity,
            about : DocId \cup Artefact \cup {"item"}]
Verdict == [disposition : Disposition, severity : Severity,
            decision : {"ALLOWED", "ESCALATED"}, blockers : SUBSET Blocker,
            completeness : 0..100, gate : SUBSET BlockerKind, approvals : {1, 2}]

NoVerdict == [disposition |-> "none"]

IsAssessment(x) ==
  /\ DOMAIN x = {"verdict", "links", "coverage", "accepted"}
  /\ x.verdict \in Verdict
  /\ x.links \subseteq Link
  /\ DOMAIN x.coverage \subseteq Artefact
  /\ DOMAIN x.accepted = DOMAIN x.coverage
  /\ \A a \in DOMAIN x.coverage : /\ x.coverage[a] \in CoverageState
                                   /\ x.accepted[a] \subseteq Doc

TypeOK ==
  /\ phase \in {"item", "ladder", "verdict", "held"}
  /\ instrument \in Instrument
  /\ required \subseteq Artefact
  /\ candidates \in Seq(Doc)
  /\ at \in 1..(Len(candidates) + 1)
  /\ suppressed \in [total : Nat, classes : SUBSET Artefact]
  /\ waiverOk \in BOOLEAN
  /\ links \subseteq Link
  /\ dropped \in Nat
  /\ \A i \in DOMAIN items : IsAssessment(items[i])
  /\ pack \in Verdict \cup {NoVerdict}

Init ==
  /\ phase = "item"
  /\ instrument \in Instrument
  /\ required = {}
  /\ candidates = <<>>
  /\ at = 1
  /\ suppressed = [total |-> 0, classes |-> {}]
  /\ waiverOk = FALSE
  /\ links = {}
  /\ dropped = 0
  /\ items = <<>>
  /\ pack = NoVerdict

-----------------------------------------------------------------------------
\* D1 to D4: the union of what was declared, never empty.
Decompose(declared) == IF declared = {} THEN {DefaultArtefact} ELSE declared

\* What the store says it refused: how many, and of which artefact classes if
\* it attributes the count at all.
Refusals ==
  {r \in [total : 0..MaxRefused, classes : SUBSET Artefact] :
     Cardinality(r.classes) <= r.total}

\* Requirements, retrieval and the waiver of the next item.
Retrieve ==
  /\ phase = "item"
  /\ Len(items) < MaxItems
  /\ \E declared \in SUBSET Artefact : required' = Decompose(declared)
  /\ \E n \in 0..MaxCandidates : candidates' \in [1..n -> Doc]
  /\ suppressed' \in Refusals
  /\ waiverOk' \in BOOLEAN
  /\ at' = 1
  /\ links' = {}
  /\ dropped' = 0
  /\ phase' = "ladder"
  /\ UNCHANGED <<instrument, items, pack>>

Candidate == candidates[at]
Arrived == {candidates[i] : i \in DOMAIN candidates}
Seen == {candidates[i].id : i \in 1..(at - 1)}

\* A1, over every copy that arrived.
Leaked == {d \in Arrived : ~(d.acl \subseteq Entitlements)}
LeakedIds == {d.id : d \in Leaked}

\* A2
Responsive(d) == d.artefact \in required /\ d.onTopic

Silent(d) == d.tags \cap SilentTags # {}
InPeriod(d) == d.asOf \in PeriodStart..PeriodEnd
NearPeriod(d) == d.asOf \in (PeriodStart - MaxAge)..(PeriodEnd + MaxAge)

HeldForPrivilege(d) ==
  /\ "LEGALLY_PRIVILEGED" \in d.tags \cap HardTags
  /\ RequiresWaiver /\ ~waiverOk

HeldOutright(d) ==
  Silent(d) \/ d.tags \cap (HardTags \ {"LEGALLY_PRIVILEGED"}) # {}

\* Slip: the period rule is read before the sensitivity rules.
StatusOf_PeriodFirst(d) ==
  IF InPeriod(d) THEN "ACCEPTED"
  ELSE IF HeldForPrivilege(d) THEN "WITHHELD_PRIVILEGED"
  ELSE IF HeldOutright(d) THEN "WITHHELD_SAR"
  ELSE IF d.from \notin Permitted THEN "WITHHELD_RESTRICTED_TRANSFER"
  ELSE IF NearPeriod(d) THEN "STALE"
  ELSE "OUT_OF_PERIOD"

\* _status_for: A4, A5, A6, A3, and the first that matches wins.
StatusOf(d) ==
  IF HeldForPrivilege(d) THEN "WITHHELD_PRIVILEGED"
  ELSE IF HeldOutright(d) THEN "WITHHELD_SAR"
  ELSE IF d.from \notin Permitted THEN "WITHHELD_RESTRICTED_TRANSFER"
  ELSE IF InPeriod(d) THEN "ACCEPTED"
  ELSE IF NearPeriod(d) THEN "STALE"
  ELSE "OUT_OF_PERIOD"

Looking == phase = "ladder" /\ at <= Len(candidates)

\* A later copy of a document is not looked at.
Skip ==
  /\ Looking
  /\ Candidate.id \in Seen
  /\ at' = at + 1
  /\ UNCHANGED <<phase, instrument, required, candidates, suppressed, waiverOk,
                 links, dropped, items, pack>>

\* A2: dropped and counted, on no list.
Drop ==
  /\ Looking
  /\ Candidate.id \notin Seen
  /\ ~Responsive(Candidate)
  /\ at' = at + 1
  /\ dropped' = dropped + 1
  /\ UNCHANGED <<phase, instrument, required, candidates, suppressed, waiverOk,
                 links, items, pack>>

\* Slip: only the copy in hand is checked against the entitlements.
VerdictOn_ThisCopy(d) ==
  IF ~(d.acl \subseteq Entitlements) THEN "DENIED_NO_ENTITLEMENT" ELSE StatusOf(d)

VerdictOn(d) ==
  IF d.id \in LeakedIds THEN "DENIED_NO_ENTITLEMENT" ELSE StatusOf(d)

\* Slip: a second copy of a document gets a link of its own.
Place_EveryCopy ==
  /\ Looking
  /\ Responsive(Candidate)
  /\ links' = links \cup {[doc |-> Candidate, status |-> VerdictOn(Candidate)]}
  /\ at' = at + 1
  /\ UNCHANGED <<phase, instrument, required, candidates, suppressed, waiverOk,
                 dropped, items, pack>>

Place ==
  /\ Looking
  /\ Candidate.id \notin Seen
  /\ Responsive(Candidate)
  /\ links' = links \cup {[doc |-> Candidate, status |-> VerdictOn(Candidate)]}
  /\ at' = at + 1
  /\ UNCHANGED <<phase, instrument, required, candidates, suppressed, waiverOk,
                 dropped, items, pack>>

LadderDone ==
  /\ phase = "ladder"
  /\ at > Len(candidates)
  /\ phase' = "verdict"
  /\ UNCHANGED <<instrument, required, candidates, at, suppressed, waiverOk,
                 links, dropped, items, pack>>

-----------------------------------------------------------------------------
\* Some link of the requirement for a has one of these statuses.
Has(a, statuses) ==
  \E l \in links : l.doc.artefact = a /\ l.status \in statuses

\* A7: the order of the ports, which the engine never changes.
Before(d, e) ==
  \E i \in DOMAIN candidates :
    /\ candidates[i].id = d.id
    /\ \A j \in 1..i : candidates[j].id # e.id

Accepted(a) == {l \in links : l.doc.artefact = a /\ l.status = "ACCEPTED"}

\* Slip: the links of the requirement are cut before the accepted are picked.
Listed_CutFirst(a) ==
  {l \in Accepted(a) :
     Cardinality({k \in links : k.doc.artefact = a /\ Before(k.doc, l.doc)}) < Cap}

\* The accepted links coverage reads and lists: the first Cap of them.
Listed(a) ==
  {l \in Accepted(a) :
     Cardinality({k \in Accepted(a) : Before(k.doc, l.doc)}) < Cap}

AcceptedRows == [a \in required |-> {l.doc : l \in Listed(a)}]

\* Slip: an unattributed count is read as zero for every class.
SuppressedHere_AttributedOnly(a) == a \in suppressed.classes

\* Attributed where the store attributed, over-broad where it did not.
SuppressedHere(a) ==
  IF suppressed.classes # {} THEN a \in suppressed.classes
  ELSE suppressed.total > 0

\* C2 and C4 (_state_for): an out-of-period link does not survive.
CoverageOf(a) ==
  LET held   == Has(a, Withheld)
      denied == Has(a, {"DENIED_NO_ENTITLEMENT"})
      stale  == Has(a, {"STALE"})
      accepted == Listed(a) # {}
  IN CASE accepted -> IF held \/ denied \/ stale THEN "PARTIAL" ELSE "COVERED"
       [] ~accepted /\ stale -> "STALE"
       [] ~accepted /\ ~stale /\ held -> "WITHHELD"
       [] ~accepted /\ ~stale /\ ~held ->
            IF denied \/ SuppressedHere(a) THEN "DENIED" ELSE "MISSING"

Coverage == [a \in required |-> CoverageOf(a)]

\* C3, integer arithmetic.
Completeness ==
  (100 * Cardinality({a \in required : Coverage[a] \in Satisfied}))
    \div Cardinality(required)

Raise(condition, kind, severity, about) ==
  IF condition
    THEN {[kind |-> kind, severity |-> severity, about |-> about]} ELSE {}

\* Slip: a document held for transfer raises nothing.
WithholdBlockers_PrivilegeOnly ==
  UNION {Raise(l.status = "WITHHELD_PRIVILEGED", "PRIVILEGE_HOLD", "HIGH",
               l.doc.id) : l \in links}

\* _withhold_blockers: one for each withhold a person decides about.
WithholdBlockers ==
  UNION {Raise(l.status = "WITHHELD_PRIVILEGED", "PRIVILEGE_HOLD", "HIGH",
               l.doc.id)
         \cup Raise(l.status = "WITHHELD_RESTRICTED_TRANSFER",
                    "RESTRICTED_TRANSFER", "HIGH", l.doc.id) : l \in links}

EvidenceBlockers ==
  Raise(Leaked # {}, "DENIED_NO_ENTITLEMENT", "CRITICAL", "item")
    \cup Raise(suppressed.total > 0, "DENIED_NO_ENTITLEMENT", "HIGH", "item")
    \cup WithholdBlockers
    \cup UNION {Raise(Coverage[a] = "MISSING", "MISSING_ARTEFACT", "HIGH", a)
                \cup Raise(Has(a, {"STALE"}), "STALE_EVIDENCE", "MEDIUM", a)
                  : a \in required}

-----------------------------------------------------------------------------
\* Every accepted link, uncapped, becomes an exhibit.
Exhibits(ls) == {l.doc : l \in {k \in ls : k.status = "ACCEPTED"}}

\* compute_clock: a date that has passed is in the CRITICAL band (SlaClock).
Clocks == {c \in [band : Severity, breached : BOOLEAN] :
             c.breached => c.band = "CRITICAL"}

\* What drafting and the consistency check may add: with no exhibit there is
\* neither a draft nor a fact.
TextFindings ==
  IF Exhibits(links) = {}
    THEN {Raise(TRUE, "NO_ADMISSIBLE_EVIDENCE", "HIGH", "item")}
    ELSE {Raise(discarded, "UNGROUNDED_DRAFT", "HIGH", "item")
            \cup Raise(conflict, "PRIOR_ANSWER_CONFLICT", "HIGH", "item")
            \cup Raise(unknown, "UNRECOGNISED_ASSERTION", "MEDIUM", "item")
            : discarded \in BOOLEAN, conflict \in BOOLEAN, unknown \in BOOLEAN}

\* The rest of _assess_item: clock, ownership, text, verdict.
AssessItem ==
  /\ phase = "verdict"
  /\ \E sla \in Clocks, owned \in BOOLEAN, text \in TextFindings :
       LET blockers == EvidenceBlockers
             \cup Raise(sla.breached, "DEADLINE_BREACH", "CRITICAL", "item")
             \cup Raise(~owned, "NO_OWNER", "MEDIUM", "item")
             \cup text
           severity == ItemSeverity(blockers, sla)
       IN items' = Append(items,
            [links |-> links, coverage |-> Coverage, accepted |-> AcceptedRows,
             verdict |->
              [disposition |-> ItemDisposition(blockers, sla,
                                               {l.status : l \in links}),
               severity |-> severity,
               decision |-> IF Escalates(severity) THEN "ESCALATED" ELSE "ALLOWED",
               blockers |-> blockers,
               completeness |-> Completeness,
               gate |-> ReleaseBlockers(blockers, Completeness),
               approvals |-> RequiredApprovals("item", instrument, severity)]])
  /\ phase' = "item"
  /\ UNCHANGED <<instrument, required, candidates, at, suppressed, waiverOk,
                 links, dropped, pack>>

Verdicts == [i \in DOMAIN items |-> items[i].verdict]

\* P1 and P2.
AssemblePack ==
  /\ phase = "item"
  /\ items # <<>>
  /\ LET blockers == PackBlockers(Verdicts)
         completeness == PackCompleteness(Verdicts)
         severity == PackSeverity(Verdicts)
     IN pack' = [disposition |-> PackDisposition(Verdicts),
                 severity |-> severity,
                 decision |-> "ESCALATED",
                 blockers |-> blockers,
                 completeness |-> completeness,
                 gate |-> ReleaseBlockers(blockers, completeness),
                 approvals |-> RequiredApprovals("pack", instrument, severity)]
  /\ phase' = "held"
  /\ UNCHANGED <<instrument, required, candidates, at, suppressed, waiverOk,
                 links, dropped, items>>

\* HELD_FOR_CHECKER: nothing in this service releases a pack.
Held == phase = "held" /\ UNCHANGED vars

Next ==
  \/ Retrieve
  \/ Skip \/ Drop \/ Place \/ LadderDone
  \/ AssessItem
  \/ AssemblePack
  \/ Held

Spec == Init /\ [][Next]_vars

-----------------------------------------------------------------------------
(* A document the caller may not read, did not ask for, or the firm holds  *)
(* back is never produced, whichever port it came from and whatever its    *)
(* other copies say (_status_for and the boundary check of                 *)
(* assess_evidence): an accepted link is responsive, every copy that       *)
(* arrived is within the entitlements, it carries no silent or hard tag    *)
(* but a waived privilege, and it may be transferred and is of the period. *)
NothingHeldIsProduced ==
  \A d \in Exhibits(links) :
    /\ d.artefact \in required /\ d.onTopic
    /\ \A c \in Arrived : c.id = d.id => c.acl \subseteq Entitlements
    /\ d.tags \cap SilentTags = {}
    /\ d.tags \cap HardTags \subseteq
         IF waiverOk \/ ~RequiresWaiver THEN {"LEGALLY_PRIVILEGED"} ELSE {}
    /\ d.from \in Permitted
    /\ PeriodStart <= d.asOf /\ d.asOf <= PeriodEnd

(* The account given to the checker is complete and counts nothing twice:  *)
(* every document looked at is on one link, or was dropped and counted     *)
(* (the seen set of assess_evidence).                                      *)
EachDocumentOnce ==
  /\ \A k, l \in links : k.doc.id = l.doc.id => k = l
  /\ phase \in {"ladder", "verdict"} =>
       Cardinality(links) + dropped = Cardinality(Seen)

(* A requirement is reported MISSING, "the firm holds nothing", only if    *)
(* nothing responsive of its class was refused, held back or stale, in the *)
(* candidates or in the store's own count; and one reported DENIED carries *)
(* a blocker that says so (rule C4 in _state_for).                         *)
DeniedIsNotMissing ==
  phase = "verdict" => \A a \in required :
    /\ Coverage[a] = "MISSING" =>
         /\ \A l \in links : l.doc.artefact = a =>
              /\ l.doc.id \notin LeakedIds
              /\ ~HeldForPrivilege(l.doc) /\ ~HeldOutright(l.doc)
              /\ l.doc.from \in Permitted
              /\ ~NearPeriod(l.doc)
         /\ suppressed.total > 0 =>
              suppressed.classes # {} /\ a \notin suppressed.classes
    /\ Coverage[a] = "DENIED" =>
         \E b \in EvidenceBlockers : b.kind = "DENIED_NO_ENTITLEMENT"

(* What the pack produces and what its coverage table lists agree up to    *)
(* the cap: the row of a requirement lists exhibits of its class only, all *)
(* of them until the cap is reached and that many from there, none that    *)
(* arrived after one left out, and a requirement with an exhibit is        *)
(* COVERED or PARTIAL however many were cut (_coverage against the         *)
(* uncapped exhibits of _assess_item).                                     *)
ProducedIsCovered ==
  \A i \in DOMAIN items : \A a \in DOMAIN items[i].coverage :
    LET produced == {d \in Exhibits(items[i].links) : d.artefact = a}
        row == items[i].accepted[a]
        number == Cardinality(produced)
    IN /\ row \subseteq produced
       /\ Cardinality(row) = IF number < Cap THEN number ELSE Cap
       /\ produced # {} => items[i].coverage[a] \in Satisfied
       /\ i = Len(items) /\ phase \in {"item", "held"} =>
            \A d \in row, e \in produced \ row : Before(d, e)

(* An item is ON_TRACK only when everything required of it is produced in  *)
(* full, nothing was withheld and the clock is not pressing: no path of    *)
(* the engines ends there with an open question (item_disposition).        *)
OnTrackMeansComplete ==
  \A i \in DOMAIN items : items[i].verdict.disposition = "ON_TRACK" =>
    /\ \A a \in DOMAIN items[i].coverage : items[i].coverage[a] = "COVERED"
    /\ \A l \in items[i].links : l.status \in {"ACCEPTED", "OUT_OF_PERIOD"}
    /\ items[i].verdict.completeness = 100
    /\ items[i].verdict.decision = "ALLOWED"

(* An item that no reviewer sees on its own has nothing unsatisfied but    *)
(* silently withheld or stale evidence, and its release stays gated        *)
(* (rule S3 with R2).                                                      *)
QuietItemsExplained ==
  \A i \in DOMAIN items : items[i].verdict.decision = "ALLOWED" =>
    \A a \in DOMAIN items[i].coverage :
      items[i].coverage[a] \notin Satisfied =>
        /\ "BELOW_MIN_COMPLETENESS" \in items[i].verdict.gate
        /\ \E l \in items[i].links :
             l.doc.artefact = a /\ l.status \in {"WITHHELD_SAR", "STALE"}

(* Nothing is averaged away: whatever blocks, gates or ranks an item       *)
(* blocks, gates or ranks the pack at least as high, and the checker of    *)
(* the pack counts at least as many approvals (rules P1, R2, R3).          *)
PackCoversItems ==
  pack # NoVerdict => \A i \in DOMAIN items :
    LET v == items[i].verdict
    IN /\ SeverityRank[v.severity] <= SeverityRank[pack.severity]
       /\ DispositionRank[v.disposition] <= DispositionRank[pack.disposition]
       /\ v.gate \subseteq pack.gate
       /\ v.approvals <= pack.approvals
       /\ pack.disposition = "ON_TRACK" => v.completeness = 100

-----------------------------------------------------------------------------
(* _withhold_blockers says "The silent-withhold row raises none": no       *)
(* blocker names a document whose row is silent.  A document that is both  *)
(* privileged and SAR-confidential is held by rule A4 first, and its       *)
(* privilege hold names it.                                                *)
SilentRowRaisesNoBlocker ==
  \A i \in DOMAIN items : \A l \in items[i].links :
    l.status \in Withheld /\ Silent(l.doc) =>
      \A b \in items[i].verdict.blockers : b.about # l.doc.id
=============================================================================
