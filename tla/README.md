# Formal model of the exam RFI orchestrator

TLA+ modules, TLC runs and TLAPS proofs for the code under
`src/src/exam_rfi_orchestrator/`.  The service turns a supervisor's information
request into a response pack that is held for a checker: it retrieves documents,
decides by fixed rules which may be produced, computes the deadline, has a model
draft a narrative between two screens, writes every decision to a WORM audit
trail, keeps an open-item board, and hands escalations to human reviewers.

## 1. Inventory

| component | source | state it keeps | operations | what makes it hard | what makes it correct |
|---|---|---|---|---|---|
| Response-pack service | `domain/response_pack_service.py` | none of its own; one instance over one container serves every thread | `propose_topic`, `assess_item`, `assemble_pack`, `record_case`, `open_items` | ports fail between any two effects; threads share trail, board and outbox | audit first, then board, then hand-off; nothing serious goes unreported |
| Surfaces | `api/app.py`, `cli/main.py`, `agent/tools.py` | per request: `item_reviews`, `item_outcomes` | validate, assess each item, route it, show the reference on the board, assemble and route the pack, reply | retries and concurrent requests on one case; a repeated `item_ref` | the answer accounts for each escalation |
| Screened generation (R1) | the service's `_generate_screened`, `_screen`, `_audit_blocked`; guardrail adapters | the text in hand | screen INPUT, generate, screen OUTPUT; refuse, audit, degrade | three ports, each may fail at each use | only screened text is used; no refusal is lost |
| Agent tools | `agent/tools.py`, `agent/agent_card.py` | a container per call | `assess_request_item`, `verify_audit_trail`, the card | no cached container, no check of regime or jurisdiction | its hand-off keeps the promises of the endpoint's |
| Review routing | `adapters/controls.py`, `adapters/*/review_router.py`, `adapters/_review_payload.py` | an outbox per container, or the console | `route` | lost, late and repeated submissions; failure after delivery; a queue that dies with its container | outcome reported as routed, failed or off; one review per outcome |
| Audit trail | `adapters/*/audit.py` | append-only records | `record` | raises after storing | every effect has its record |
| Admissibility ladder (A, C) | `domain/coverage_engine.py` | links, withheld rows, drops, coverage | one pass over the candidates, then coverage | order of the rules; duplicate documents in differing copies; caps | nothing held back is produced; DENIED is never reported MISSING |
| Decomposition (D) | `domain/artefact_taxonomy.py` | none | `decompose` | the empty union | never zero requirements |
| Release engine (S, R, P) | `domain/release_engine.py` | none | disposition, severity, escalation, gate, approvals, pack roll-up | several rules decide one verdict | no path ends ON_TRACK with an open question; a pack is never milder than its items |
| Deadline clock (K) | `domain/sla_clock.py` | none | `compute_clock` | weekends, holidays, signs, four sources of one date | dates move out only by record; time never eases a clock |
| Consistency (X), exhibits (E), narration (G) | `domain/consistency.py`, `exhibit_index.py`, `narration.py` | none | checks on facts, numbering, grounding predicates | numbers given before the pack renumbers; arrival order; a model that renames things | references resolve; `grounded` is true; a contradiction is raised |
| Open-item board | `adapters/local/case_store.py` | SQLite rows, labels, waivers, extensions | `record`, `open_items`, `waiver`, `extension` | one connection for all threads, a lock, no rollback, crashes | acknowledged rows survive; labels belong to their row |
| Retrieval, obligations, evidence packs | `adapters/local/*.py`, `adapters/gcp/*.py` | fixtures or remote services | `search`, `obligations_for`, `fetch`, `packs_for` | two sources for one document; a page limit; a filter whose refusals have to be counted | MISSING and DENIED are said of the class they are true of |
| Policy parsing | `domain/policy.py` | none; one policy per process | `policy_from_mapping`, `calendar_for`, `permitted_transfers` | absent, empty, malformed and odd values; read again at each deployment | a refused part refuses the file; a clock names its calendar |
| Identity | `adapters/*/identity.py` | none | `resolve` | declared on the class, built at the first request | nobody off the machine is served unverified (the verification itself is one outcome) |
| Configuration, boot posture | `config.py`, `managed_readiness.py`, `envread.py` | settings, posture, container | resolve profile, preflight, import, bind, first request | combinations of switches; five places that decide at different times | serves only what can work; bind host agrees with guard |
| Managed and on-premises adapters | `adapters/gcp`, `adapters/onprem` | none | review client, Model Armor, identity; the rest raise by design | a remote service that fails instead of answering | a failure is never an empty answer |
| UI, evaluation, scripts, Terraform | `ui/`, `eval/`, `scripts/`, `infra/` | none of the service's | | | not modelled |

How they interact: a surface calls the service synchronously; the service calls
ports; FastAPI runs the endpoint on a thread pool over one cached container, so
trail, board and outbox are shared by all requests in flight while everything
else is local to a request.  There are no callbacks and no background jobs.

## 2. Modules

| module | models | abstract state |
|---|---|---|
| `ResponseFlow` | whole requests against trail, board, outbox | control point per request, item position, draft, seriousness, assessments; shared audit set, board, outbox; as history, the reviews a queue held in memory died with |
| `EscalationContract` | what R2, R8 and P2 promise of the outcomes of a request | per outcome: on the trail, handed off; requests replied |
| `ScreenedGeneration` | the screened generation call, port by port | call, control point, text, BLOCKED log, what was shown, used and kept |
| `ModelText` | what rule R1 promises a call site | outcome per call, the audited refusals |
| `EvidenceLadder` | retrieval to held pack: ladder, coverage, verdict, roll-up | candidates, position, links, drops, assessments, pack |
| `ReleaseRules` | `release_engine` as operators | none |
| `Retrieval` | a request's questions, from decomposition and the ports to the ladder and the pack; extends `EvidenceLadder` | request, failure, and the ladder's state |
| `SeededStore` | the offline corpus, obligation register, evidence packs and playbook | none |
| `SlaClock` | the clock recomputed as days pass and the service is deployed again | policy, notice, extension record, day, latest clock |
| `PolicyFile` | the policy block of the settings file, parser by parser | none |
| `ReviewDelivery` | the hand-off of an outcome through containers, routers, network and console | container, control point and call per caller, outboxes, wire, console, answers |
| `CaseStore` | the local board, statement by statement | lock, statement per caller, connection view, disk |
| `Drafting` | exhibits, narrative, facts, document index, cover note of one pack | item in hand, items done, index |
| `BootPosture` | a process from environment and settings file to its answers | deployment, phase, guard, bound host, container, adapter, last answer |

Composition: `ScreenedGeneration` implements `ModelText` (refinement mapping
`SettledOutcome`), whose outcomes are the alternatives a generation call has in
`ResponseFlow` (`Narrate`, `Normalise`, `ItemRejected`, `CoverNote`).  `ResponseFlow`
implements `EscalationContract` (`AssessedAs`, `HandedAs`).  The boolean `serious` of
`ResponseFlow` is `Escalates(ItemSeverity(...))` of `ReleaseRules`, computed in
`EvidenceLadder.AssessItem`; the fact used there that a breached clock is in the CRITICAL
band is `BreachIsCritical` of `SlaClock`.  `Drafting` says which text an item ends up with
and which blockers that raises; in `EvidenceLadder` those are `TextFindings`, in
`ResponseFlow` the outcome of `Narrate` and `Normalise`.  `Retrieval` extends
`EvidenceLadder`: it shares the ladder's variables, puts the ports in the place of its
`Retrieve`, and implements it (`ImplementsLadder` is the ladder's `Spec`), so that what
the ladder guarantees of any candidates holds of those the stores return; it is run over
`SeededStore`.  `SlaClock` is deployed with the policies `PolicyFile` reads.
`ReviewDelivery` opens the step `RouteItem`/`RoutePack` of `ResponseFlow`: there a
hand-off reports routed, failed or off, here it is a container, a router and a network.
`BootPosture` ends where `ResponseFlow` begins: a 200 there means that `get_principal`
returned.  The board of `ResponseFlow` is one atomic row; `CaseStore` opens the write into
its statements, and `LateFailure` of `ResponseFlow` is the failure in between.

### ResponseFlow and the code

One action per stretch of code between two effects another thread can see.  `Validate` is
the body check of `response_pack`; `TopicDeclared` and `ItemRejected` the per-item checks;
`Retrieve` the part of `_assess_item` up to the clock; `Narrate` and `Normalise` the two
generation calls; `WriteItemAudit` builds the assessment and records it; `RecordCase` the
row `assess_item` writes; `RouteItem` and `ShowRouting` the surface's hand-off and second
row (of an item_ref asked twice, the second hand-off overwrites the first's entry in
`itemRouting`); `CoverNote`, `WritePackAudit` and `RoutePack` the pack; `Reply` the
answer.  `PortFails` is an exception before an effect, `LateFailure` one after it, `Crash`
the loss of the process.  A step that reads and writes only the request's own data is
merged into the next one with an effect.

A port fails with its own exception class in the code, and the surface turns each
into a status; the model has one way to fail per effect.  The variable `lost` is history
alone: no action reads it.

### ScreenedGeneration and the code

`ScreenAllows` and `ScreenRefuses` are the verdicts of `_screen` in either
direction, `AuditBlocked` is `_audit_blocked`, `Generate` the port call.
`AuditBlockedFails` covers both reactions of the code: the sink's error after a
refusal, the guardrail's error after an undecided screen.  `guardrail` is the binding
of the process: screening switched off, the local patterns, Model Armor, the
placeholder that raises, or a client's own screen, the only one that may hand back
another text.  `Allowed` is the mapping of Model Armor's report, in which a filter
that was skipped or failed shows only in `invocation_result`.  `Clean` stands for
the texts in which the bound guardrail has nothing to find; which ones those are is
outside the repository.

### EvidenceLadder and the code

`Retrieve` chooses any requirements, candidates, refusal count and waiver;
`Skip`, `Drop` and `Place` are the loop body of `assess_evidence` for one
candidate; `LadderDone` ends the loop; `AssessItem` is the rest of `_assess_item`
(coverage, clock, ownership, text findings, verdict); `AssemblePack` is
`_assemble_pack`.  Documents are records of what the rules read: identity, class,
whether the topic matches, labels, tags, jurisdiction, date.  Blockers are a set,
links carry the document.  The code's `seen` set is derived
(`Seen`), and so is the order of the links, which is that of the candidates (`Before`).
`Listed` is the slice of the accepted links at the cap: those with fewer than `Cap`
accepted links of the requirement before them, and none for a cap of zero.  Coverage
reads that list and keeps it as the requirement's row; the exhibits are not cut.

### Retrieval, SeededStore and the code

`Search` is the retrieval step of `_assess_item`: `Decomposed` (rules D1 to D4),
`Page` and `Suppressed` of `search` (the refusals are counted before the limit is
applied), `PackCandidates` in the order of the code, the item's pack first.
`PackUnknown` is the caller error of `fetch`, `StoreFails` a managed store out of
reach.  `Assess` is a step of the ladder; `AssemblePack` waits for the last question.
`View` is what the ladder reads of a document, given the caller and the question: the
labels the caller holds are left out, so that `Entitlements` of the ladder, which is
one set for all its documents, holds none of a stored document's labels, and the
jurisdiction is permitted to this requester or it is not.  `SeededStore` transcribes
the offline fixtures as far as the ladder reads them; dates are day numbers.

### SlaClock, PolicyFile and the code

Each operator of `SlaClock` is one function of `sla_clock`; the loops are recursive
functions over days.  `Assess` recomputes the clock of an item on whatever day it
is, with or without the extension reference in the request.  `Admitted` is the 422
of the endpoint for a regime or jurisdiction the policy does not name, which the
tool and the CLI do not have; `AssessRaises` covers it and what is not `Computable`:
a notice with neither date nor window, or a calendar without a business day.
`Redeploy` restarts the service with another of the files `PolicyFile` accepts.
`PolicyFile` has one operator per parser: absent reads as the shipped value,
malformed refuses the whole block, and everything else is taken as the code takes it.

### CaseStore and the code

`Acquire`, `InsertRow`, `DeleteAcl`, `InsertAcl` and `Commit` are the statements
of `record`; `StatementFails` is an exception out of any of them, after which
SQLite has either rolled the transaction back or left it open, since the code
does not roll back.  `Commit` puts the transaction on disk and `Return` tells the caller
so and lets the lock go; between the two the process may crash, or the commit may raise
although it took effect (`CommitFailsLate`), and the record is then on disk without an
acknowledgement, as one attempted.  `Read` is `open_items` with its `NOT IN` filter.

### ReviewDelivery and the code

`Escalate` is a surface with an outcome to hand off, for the first time or on a
retry.  `Bind` and `Publish` are `_container()`: looked up, built and cached without
a lock, so that two threads may each use their own; the tool and the CLI build one
per call, which `Reply` drops together with its outbox.  `RouteOff`, `RouteRefuses`,
`Enqueue` and `Submit` are the routers, `SubmitReturns` and `SubmitFails` what the
recording wrapper makes of them.  `Arrive` and `Lose` are the network and `Stored`
the console, which keeps one review per source key; both are external and modelled
from what the code says it relies on.  `CaseRef` and `SourceKey` are those of
`_review_payload`, over sequences, because an identifier may contain the separator.

### Drafting and the code

`Number` is `number_exhibits` over the accepted links in any order (a stable sort puts
at place p the link that p - 1 links come before), `Draft` and
`DraftNothing` are `_draft`, `Normalise` and `CheckConsistency` are `_normalise`
with `parse_facts` and `check_consistency`, `Assemble` and `CoverNote` the part of
`_assemble_pack` that numbers and drafts.  A text is the exhibit references in its
brackets and the integers in its prose.  Integers are what `_INT` finds, so the
`-01` of `EX-2.c-01` is the integer -1 and has to be among the facts; a reference
is what `_CITED` finds, so one outside its alphabet (`Citable`) is not seen.  The
masking of a kept draft is left out.

### BootPosture and the code

`Preflight` is the first half of the container's command, `Import` the module
scope of `api/app.py`, `Bind` the rest of the command or `main()`; `Handle` is
one request through the guard (`GuardRefuses`), `healthz` and `get_principal`.
`EndUserAuthKind` reads the class and swallows every failure; `Constructs` and
`Resolved` are the adapters themselves, and a client's own one.  A forged credential is
an assertion that does not verify or a persona nobody seeded, which are refused; no
persona at all is answered by the default one.  An unrecognised
control switch is refused as an emptied one is, so `"empty"` stands for both.
The routes are the response pack, `healthz`, the agent card, the persona list, the
schema pages and the service-to-service audit ping, each with the dependencies that
decide who it answers.  The settings file is absent, read, or refused for one of the
reasons of `Unreadable`.  `Host` and `Refused` model the service kit's functions from
how the code and the runbook use them.

## 3. Runs

| run | asks | bounds | result |
|---|---|---|---|
| `ScreenedGeneration` | R1 and its refinement: only screened text is shown and used, every refusal is on the trail once | 3 calls, 3 texts, every guardrail binding: an item's two calls and the next call | holds |
| `FlowRace` | two requests on one case and item | 2 requests, 1 item each, 1 crash, a board on disk beside a review queue in memory; symmetric in the requests | holds |
| `FlowLong` | several items, a repeated item_ref and what the answer says of it, the contract, and that every escalation is settled | 1 request, 3 items, 1 crash, durable stores | holds under `FairSpec` |
| `LadderItem` | the ladder and the verdict on one item | 12 kinds of document, 2 candidates, 2 artefact classes, cap 1 | holds |
| `Retrieval` | from the ports to the pack: what is said to be missing or denied, and the roll-up | the seeded corpus with one topic overfull, page 20, every topic, four callers, three jurisdictions, named and unknown packs, 2 questions under both kinds of instrument | holds, and implements the ladder |
| `SlaClock` | the clock over three weeks and any redeployment | 22 days, 6 policy blocks of which 3 are refused, 3 notices, 2 dates | holds |
| `CaseStore` | the board under failure, a commit whose answer is lost, and crash | 2 callers, 2 tenants, 2 labels, 3 writes, 1 failure, 1 crash | holds under `FairSpec` |
| `Drafting` | annex, grounding and earlier answers | 2 items, 2 exhibits each, texts of at most 2 references, 1 fact per item | holds |
| `ReviewDelivery` | a hand-off over a lossy network, from cached and passing containers | 2 callers, 3 outcomes two of which share a case reference, 2 calls, 1 crash, all 5 bindings, API and tool | holds under `FairSpec` |
| `BootPosture` | posture of a process | about 3,500 deployments: every combination of the controls, every state of the file, and every identity binding with every host | holds |
| `LadderDocSilent` | "The silent-withhold row raises none" | 1 candidate | violated by a document both privileged and SAR-confidential |
| `BoardDocEmpty` | an empty entitlement set "sees untagged rows and nothing else" | no failure, no crash | violated: `NOT IN (NULL)` excludes nothing |

Why the bounds are enough.  A race needs two writers of one row and a place for each to be
overtaken; two requests of one item give every interleaving of their effects, and a third
adds no new pair.  Order within a request needs an item before and after the one at hand,
hence three items.  The rules of the ladder look at one document at a time and combine
documents pairwise (a sibling, or another copy), hence two candidates; the twelve kinds
include each boundary day of the period, one document under two rules, and two different
documents of one class that may both be accepted, one more than the cap.  Retrieval reads
one topic at a time and the roll-up pairs of items; the overfull topic is the one case in
which the page cuts something.  TLC also evaluates `RetrievalAssumption` and `CopiesAgree`
on the seeded corpus (`SeededCopiesAgree`), the hypotheses of the theorems on retrieval.
The clock's dates and the days that pass put the internal date on, before and after
weekends and holidays, and each policy block differs from the others in what a parser does
with it.  A hand-off meets at most one other: the one of the same key, or the one that
shares its container.  On the board a failed write needs a later writer, who commits it,
and a third write of the same key.  Two exhibits give an order to get wrong, two items an
index to renumber and a repeated reference; grounding and the earlier answers look at one
text and one fact at a time.  A process remembers nothing of the one before it, so one
deployment, started, answered any number of times and restarted, is the whole behaviour;
the three families of deployments vary everything two decisions share.

Differences between documents and code that no run states:

* ARCHITECTURE.md:96-97 lists the board row (13) before the audit record (14);
  the code audits first (`_assess_item`, 452-453), which `AuditPrecedesEffects`
  shows to be the order that matters.
* models.py:616-618 says a deadline recomputed years later "either matches or the record
  shows exactly which input moved".  The windows and buffers of the file have no version:
  a date they change keeps its basis and its calendar's version.  The same docstring
  calls `buffer_consumed` "past the internal date"; with a buffer of no days the internal
  date may be a Saturday, and on the Sunday after it no business day has passed.
* `fallback_narrative` says it "passes the same two predicates the model's output
  had to pass".  For an item_ref outside the alphabet of `_CITED`, "2 (c)" say, it
  does not, and every model draft of such an item is discarded;
  `GroundedFlagIsTrue` is stated for the citable ones.
* The cover note is handed the number of items for both counts (784-785), so its
  "Mandatory artefacts satisfied: N of N" is not a figure of the engine.
* runbook.md:141-143 says a process "can never bind every interface while refusing
  every caller on it".  That is true of `main()` (`BindFollowsGuard`); the container
  binds 0.0.0.0 whatever the guard decided.
* runbook.md:174-175 has an outbox "which is inspectable and flushes to the console when
  one becomes reachable".  So it is in the cached container; the outbox of a tool or CLI
  call goes with the call, one built by a thread that lost the race of `_container()` with
  the last call that uses it, and nothing but a test calls `flush`.
* The cover note's blockers are dropped (`_assemble_pack`, 506), although the module
  says that a refused draft falls back "with an ``ungrounded_draft`` blocker" (36-37).
  Packs are routed unconditionally.
* The local router reads the reference of a review from the length of the outbox
  after the append, without a lock (local/review_router.py:32-37); the reference of the
  model is the source key, so this is outside it.
* An identifier may contain ":", so two outcomes can share a case reference; the kind
  in the key keeps an item and a pack apart, not two items whose parts join to the same
  string.  The key is called tenant-scoped and carries no tenant.
* An item assessed again at a higher severity has the same key, and the console keeps
  the review it has.
* The page limit: what it cuts is counted nowhere, hence the excuse in
  `MissingMeansNotHeld`; the managed `search` does not send a limit at all.
* A document above the caller's entitlement is dropped with "the retrieval boundary
  failed" (coverage_engine.py:224) also where it came from an evidence pack, which no
  store filters.
* The policy parser accepts a cap of zero, which reports what is produced as missing
  (hence the cap above zero in the theorems), a weekend of seven days, for which no
  date can be counted, a negative buffer, which counts as none, bands out of order,
  which can band a breach low (hence `GradedBands`), and any word as a true flag,
  "false" included.

Fairness.  `ResponseFlow` assumes weak fairness of each request's thread: port
calls return or raise (the adapters set timeouts), and the only wait is for the
board's lock, which is held for one call.  `CaseStore` assumes that a thread
inside `record` keeps executing, `ReviewDelivery` that a caller's thread does, whose
only wait, for the console, ends with the client's timeout.  None of them assumes
that a request arrives, that a port succeeds, that a message arrives or is answered,
or that the process does not crash.

Environment.  The audit trail is durable (`audit_path` names a file, or the
managed sink).  The board and the review queue are each durable or not, whatever the
other is: `case_store_path` may name a file beside the outbox of the local router, which
is a list in memory.  After a crash such a board keeps references to reviews the dead
process had queued, which nobody can find; `FlowRace` runs that combination.  The
properties say what is true of it: `lost` holds those reviews, and a reference is that
of a review that was handed over (`HandedOver`), never of one that was not.

## 4. Proofs

Eight modules hold theorems, each for every value of the constants that satisfies
the named assumptions.  The shape is the same throughout: an inductive invariant,
checked with TLC first, one lemma per action for the conjuncts it can disturb, and a
temporal step at the end.

`ResponseFlow_proofs`: `TypeCorrect`, `AuditFirst` and `RowsNeverMix`, none of which
assumes anything of which store is durable.  `TypeOK` alone is not inductive: that
`work[r][pos[r]]` exists at the hand-off needs to be known, so `TypeInv` adds `Progress`,
which ties the length of the assessments to the position and the control point.  `SafeInv`
adds to it `Trailed` (a request past its audit step has the record of its decision on the
trail, which is what the effect that follows relies on), `Shown` (an assessment whose
hand-off is reported routed was given to the reviewers, which is what the reference on a
row relies on), and both properties.  `HandedOver` never shrinks, since a crash moves to
`lost` what it takes out of the outbox (`HandedOverGrows`); so a board that outlives the
queue still has references to nothing but reviews that were handed over.

Part two of `ResponseFlow_proofs`: `AnswersAccount`, `PackComesLast`, `RowsShowRouting`
and `FlowImplementsContract`.  `FlowInv` adds to `SafeInv`, for each request: what a
fallback text forces (`Found`), the decision on the trail and the hand-off of every
assessment (`Assessed`), where the thread is with the last one (`Current`), that the trail
is not ahead of it (`NotAhead`), how far it is (`Counted`), the pack's record and hand-off
(`PackInv`), that what is reported routed was given to the reviewers (`Reached`), and that
the entry of an item_ref is the last hand-off made for it (`LastWins`).  The first two
properties follow from it.  `ShowInv` adds for `RowsShowRouting` that every row is some
item's (`RowsAreItems`) and shows the routing of an assessment its request has gone past
(`Shows`): the write by which a request moves on shows what became of the hand-off
(`MovesOnShown`), what is past is not routed again (`PastKept`), and whoever replaces the
row later replaces all of it.  Under the mapping `AssessedAs`, `HandedAs`, an audit record
(also one whose sink fails late) is an `Assess` step of `EscalationContract`, a hand-off
is `HandOff`, a reply is `Reply`, and every other step, a crash included, leaves the
abstract state alone.

`ScreenedGeneration_proofs`: `ScreenedOnly`, `EveryRefusalAudited` and
`ScreensImplementModelText`.  `CallInv` adds to `TypeOK` that the text about to be
shown or used came out of a screen (`ScreenedInHand`), that the calls still to come have
no outcome (`NotYet`, without which a step could settle a call twice in `ModelText`),
and that only a screen leads to the trail (`BlockedByScreen`).  `TrailInv` counts: one
record per refused call, none for another, and nothing kept of it.

`Retrieval_proofs`, part one, is about the ladder alone: `NothingHeld`,
`OneVerdictEach`, `MissingMeansNothing`, `ExhibitsAreCovered`, `OnTrackIsComplete`,
`QuietIsExplained`, `PackNeverEasier` and `LadderTypeCorrect`.  `LadderInv` says of each
link that its document arrived, was looked at, was responsive and has the verdict the
rules give it (`Decided`), and keeps the count of the links, the count dropped and the
documents seen in balance (`Accounted`); the waiver, the requirements and the candidates
do not change while the ladder runs, so a verdict never goes out of date.  `Asked` adds
what an item asks for, and `ItemsSound` carries what holds of an assessment when it is
made to every later state.  `ExhibitsAreCovered` needs to know what the cap leaves: the
place of a link among the accepted ones of its requirement is a rank no other has, and
every rank below their number is somebody's (`RanksAreTaken`), so the cut leaves as many
as there are or as the cap allows, and those that came first (`CutAfterFirst`).  Three of
the theorems assume a cap above zero, because the parser lets zero through and they are
false there; `QuietIsExplained` assumes the
shipped completeness floor of 100, because with a lower one an item may fall short and
stay under it.  `PackNeverEasier` is about the roll-up: the sum behind the pack's
percentage is a fold over a set, shown to be the sum one expects by induction on the
size of the set (`SumIsSummed`), so that a mean of percentages of which one is below 100
is below 100 (`MeanFallsShort`).  That is why it, too, needs the floor of 100: below it
the mean of a good and a poor item may pass where the poor one does not.  Its other
hypothesis is that a policy which names items under dual control names packs too; the
shipped one names packs alone.

Part two is about the ports: `RetrievalFeedsLadder`, `MissingIsTrue` and
`DenialsAreTrue`.  Each step of `RetrievalSpec` is a step of the ladder or a stutter: what
`Search` hands over are candidates and refusals the ladder is specified for
(`SearchRetrieves`), and what is said of the ladder holds of retrieval.  `Fed` says that
what the ladder has in hand is what the ports answer to the question the service is at,
`Taken` that no document looked at is lost, `Told` that a refusal was escalated.
`MissingIsTrue` and `DenialsAreTrue` assume `CopiesAgree`: two copies of a document, from
the store and from a pack, that disagree on its class or topic would have one of them
decide for the other, and nothing in the code excludes it.

`SlaClock_proofs`: `BufferAlwaysKept`, `BreachAlwaysCritical`, `OnlyARecordEverExtends`,
`ClockAlwaysNamesItsCalendar` and `ClockNeverEases`.  The loops of `sla_clock` are
recursive functions over days, so most of the module is arithmetic.  tlapm cannot
instantiate an induction rule with a predicate; the inductions go through sets, whose
least element is the counterexample.  A walk over the calendar ends on the nearest day
behind which the wanted number of business days has passed (`Reach`, `Passed`), from
which follow what subtraction and addition land on (`SubtractCounts`), what counting
between two days returns (`BetweenValue`) and that the two agree (`AddThenCount`).
`PolicyIsTyped` is the parser: whatever block it accepts, of those `IsBlock` describes,
has windows and buffers it can count with, bands it can compare and calendars with a
version.  `ClockInv` says that the clock at hand is what `compute_clock` gave on some day
up to today, under one of the policies deployed and with or without the record; the
properties follow from what that function returns.

`Drafting_proofs`: `GroundedIsTrue`, `ContradictionsRaised`, `EveryCitationResolves`,
`AnnexIsDetermined` and `TypeCorrect`.  `InHand` says that the exhibits in hand are
numbered for the item in hand, that nothing is drafted before its draft, and that a
draft, the model's or the paragraph in its place (`FallbackIsGrounded`), passes the
predicates.  `RaisedOrAgrees` is the lemma on rules X1 and X2.  The annex rests on two
lemmas.  `NumberingSorts`: the place of a document is one more than the number of
documents before it, which is a bijection, because the sort key leaves no tie between
two documents; so the exhibits are determined by their documents
(`SameDocsSameExhibits`).  `FlattenIsFlat`: flattening the items' exhibits into the index
loses nothing, adds nothing and repeats nothing.  `AnnexInv` ties the exhibits and
references of the item in hand, of the items done and of the pack to both; `DraftTyped`
adds the kinds of everything else.

`CaseStore_proofs`: `AcknowledgedRowsSurvive`, `LabelsAreTheRows` and
`ReadersSeeTheirRows`.  `IInv` says that the caller inside `record` is the one with the
lock, what its statements have put on the connection (`Written`), and that for a key
nobody is writing the connection holds what was acknowledged or attempted
(`ConnectionAccounted`) and agrees with the disk where every write returned
(`CommittedAgrees`, `DiskLabels`).

`ReviewDelivery_proofs`: `TypeCorrect`, `RoutedStaysHeld` and `RetriesAreIdempotent`.
Two callers never have the same call in hand (`Numbered`), a submission under the number
of a call in hand is for its outcome (`Own`), and the console holds what it has answered
(`Answered`) and what is about to be reported routed (`ReplyIsHeld`).  That holds of late
and repeated submissions because `Stored` never lets go of a key (`KeysAreUnique`).

`BootPosture_proofs`: one theorem per property of the run, and `TypeCorrect`.
`PostureInv` says what each phase may rely on of the phases before: the guard and the bind
profile are what the binding and the choice of the profile say (`GuardIsPosture`,
`HostIsPosture`), and the settings were found ready (`ReadyBehind`).  It is inductive
because nothing read from the deployment alone changes under a process
(`DeploymentFixed`); `VerifiedAnswers` then ties the declaration on the class to what the
constructed adapter answers.

Only model-checked:

* Liveness, which is out of the prover's reach: `EscalationsSettle`, `LockReleased`,
  `HandOffReturns`.

`TypeOK` of `ResponseFlow` is proved (`TypeCorrect`) and stated by no run.  Neither
checked by a run nor proved is the type invariant of `SlaClock`: a calendar's version is
any string, and the provers do not know that a string literal is one.  What the other
theorems need of it is part of `IsPolicy` and `ClockInv`.  The two properties that TLC
finds violated are what a document says, and false.

## 5. Not modelled

Wording, masking, citation records and titles; token verification; the texts a screen's
patterns or template match; CORS and response headers; the response schemas; a settings
file that changes while a process runs (one that changes between two is `Redeploy`); the
hash chain of the audit file, which the commons library keeps; tracing, the evaluation
gate and the cloud log; the UI, evaluation, demos and infrastructure.  Waivers and
extensions are seeded when the store opens and only read, so they are chosen freely
where they are used.  `open_items` of the managed and on-premises case stores and the
other placeholders raise by declaration; they are the failing ports of `ResponseFlow`
and `Retrieval`.

## 6. What could follow

1. The board of `ResponseFlow` as an instance of `CaseStore`, and its hand-off as one of
   `ReviewDelivery`; today the two are related by the description in section 2 alone.
2. The agent tool's masking and the verification of the audit file, once the commons'
   source is part of what can be read.
