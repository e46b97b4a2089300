------------------------- MODULE ScreenedGeneration -------------------------
(***************************************************************************)
(* ResponsePackService._generate_screened and its three call sites (rule   *)
(* R1): the prompt is screened INPUT, the model is asked with what that    *)
(* screen returned, the answer is screened OUTPUT, and only what that      *)
(* screen returned reaches the call site.  A refusal is audited BLOCKED    *)
(* before the call site degrades.  One request makes its calls one after   *)
(* the other; the guardrail, the model and the audit sink may each fail at *)
(* every use.                                                              *)
(***************************************************************************)
EXTENDS Naturals, Sequences, FiniteSets

CONSTANTS
  MaxCalls,            \* generation calls one request makes
  Text,                \* prompts and model answers
  Clean                \* the texts in which a guardrail has nothing to find

ASSUME TextAssumption == MaxCalls \in Nat \ {0} /\ Clean \subseteq Text

Call == 1..MaxCalls
Direction == {"input", "output"}

\* classify: propose_topic.  narrate: _draft, for an item or the cover note.
\* normalise: _normalise.
Job == {"classify", "narrate", "normalise"}

\* What is bound as GuardrailPort: nothing by a stated switch, the offline
\* patterns, Model Armor, the placeholder, or the client's own screen, the
\* only one that may hand back another text than it was given.
Guardrail == {"off", "heuristic", "armor", "placeholder", "own"}

VARIABLES
  guardrail,           \* the binding the process runs with
  call,                \* the call being made, MaxCalls + 1 when all are made
  pc,                  \* where that call is
  job,                 \* what it is for
  direction,           \* which screen runs next or ran last
  text,                \* the text in hand: prompt, screened prompt, answer
  cause,               \* why there is no model text
  blockedLog,          \* the BLOCKED records, in the order written
  shown,               \* every text the model was shown
  used,                \* every model text a call site parsed
  outcome,             \* what each call site was given
  kept                 \* what each call site kept of it

vars == <<guardrail, call, pc, job, direction, text, cause, blockedLog, shown,
          used, outcome, kept>>

PC == {"ready", "screen", "blocked", "generate", "answered", "degrade",
       "raised"}
Kept == {"nothing yet", "model text", "fallback", "nothing"}

TypeOK ==
  /\ guardrail \in Guardrail
  /\ call \in 1..(MaxCalls + 1)
  /\ pc \in PC
  /\ job \in Job
  /\ direction \in Direction
  /\ text \in Text
  /\ cause \in {"none", "refused", "undecided", "model"}
  /\ blockedLog \in Seq([call : Call, direction : Direction])
  /\ shown \subseteq Text
  /\ used \subseteq Text
  /\ outcome \in [Call -> {"pending", "answered", "failed", "refused", "raised"}]
  /\ kept \in [Call -> Kept]

Init ==
  /\ guardrail \in Guardrail
  /\ call = 1
  /\ pc = "ready"
  /\ job = "narrate"
  /\ direction = "input"
  /\ text \in Clean
  /\ cause = "none"
  /\ blockedLog = <<>>
  /\ shown = {}
  /\ used = {}
  /\ outcome = [c \in Call |-> "pending"]
  /\ kept = [c \in Call |-> "nothing yet"]

-----------------------------------------------------------------------------
(* The order of the calls: an item is narrated, then its exhibits are      *)
(* normalised, then the next item or the cover note is narrated.  An item  *)
(* with no declared topic is classified and ends the request.              *)
Following(j) ==
  CASE j = "narrate" -> {"normalise"}
    [] j = "normalise" -> {"narrate", "classify"}
    [] j = "classify" -> {}

(* The call site builds its prompt (already masked for personal data) and  *)
(* hands it to the INPUT screen.                                           *)
Begin ==
  /\ pc = "ready"
  /\ call \in Call
  /\ job' \in IF call = 1 THEN {"narrate", "classify"} ELSE Following(job)
  /\ text' \in Text
  /\ direction' = "input"
  /\ cause' = "none"
  /\ pc' = "screen"
  /\ UNCHANGED <<guardrail, call, blockedLog, shown, used, outcome, kept>>

(* What Model Armor may report of a text.  A filter that ran reports its    *)
(* match; one that was skipped (text too long, language unsupported) or    *)
(* failed reports none, and says so in invocation_result only.             *)
Report == [match : {"NO_MATCH_FOUND", "MATCH_FOUND", "absent"},
           invocation : {"SUCCESS", "PARTIAL", "FAILURE", "absent"}]

Reports(t) ==
  {r \in Report : r.match = "NO_MATCH_FOUND" /\ r.invocation = "SUCCESS" => t \in Clean}

\* Slip: no match is enough, however many filters ran.
Allowed_MatchStateOnly(r) == r.match = "NO_MATCH_FOUND"

\* _map_result: complete and clean, or refused.
Allowed(r) == r.match = "NO_MATCH_FOUND" /\ r.invocation = "SUCCESS"

\* The texts a screen may hand back for t, none where it must refuse.
HandedBack(t) ==
  CASE guardrail = "off"         -> {t}
    [] guardrail = "heuristic"   -> {t} \cap Clean
    [] guardrail = "armor"       -> IF \E r \in Reports(t) : Allowed(r) THEN {t} ELSE {}
    [] guardrail = "placeholder" -> {}
    [] guardrail = "own"         -> Clean

\* May it refuse t ("refused"), or fail to say ("undecided")?
MayRefuse(t, why) ==
  CASE guardrail = "off"         -> FALSE
    [] guardrail = "heuristic"   -> why = "refused" /\ t \notin Clean
    [] guardrail = "armor"       -> why = "refused" => \E r \in Reports(t) : ~Allowed(r)
    [] guardrail = "placeholder" -> why = "undecided"
    [] guardrail = "own"         -> TRUE

\* Slip: the caller goes on with the text it submitted.
ScreenAllows_KeepsOriginal ==
  /\ pc = "screen"
  /\ HandedBack(text) # {}
  /\ text' = text
  /\ pc' = IF direction = "input" THEN "generate" ELSE "answered"
  /\ UNCHANGED <<guardrail, call, job, direction, cause, blockedLog, shown, used,
                 outcome, kept>>

\* An allowed verdict always carries the text to use from here on.
ScreenAllows ==
  /\ pc = "screen"
  /\ text' \in HandedBack(text)
  /\ pc' = IF direction = "input" THEN "generate" ELSE "answered"
  /\ UNCHANGED <<guardrail, call, job, direction, cause, blockedLog, shown, used,
                 outcome, kept>>

\* Slip: the exception is raised with no BLOCKED record.
ScreenRefuses_Unaudited(why) ==
  /\ pc = "screen" /\ MayRefuse(text, why)
  /\ cause' = why
  /\ pc' = "degrade"
  /\ UNCHANGED <<guardrail, call, job, direction, text, blockedLog, shown, used,
                 outcome, kept>>

ScreenRefuses(why) ==
  /\ pc = "screen" /\ MayRefuse(text, why)
  /\ cause' = why
  /\ pc' = "blocked"
  /\ UNCHANGED <<guardrail, call, job, direction, text, blockedLog, shown, used,
                 outcome, kept>>

\* The record names the job, the direction and the reason, never the text.
AuditBlocked ==
  /\ pc = "blocked"
  /\ blockedLog' = Append(blockedLog, [call |-> call, direction |-> direction])
  /\ pc' = "degrade"
  /\ UNCHANGED <<guardrail, call, job, direction, text, cause, shown, used,
                 outcome, kept>>

\* Slip: a sink failure is absorbed like any other refusal.
AuditBlockedFails_Degrades ==
  /\ pc = "blocked"
  /\ pc' = "degrade"
  /\ UNCHANGED <<guardrail, call, job, direction, text, cause, blockedLog, shown,
                 used, outcome, kept>>

\* A refusal nobody audited fails the request: the sink's own error after a
\* refused verdict, the guardrail's own error after an undecided one.  The
\* sink may have stored the record before it raised.
AuditBlockedFails ==
  /\ pc = "blocked"
  /\ \/ UNCHANGED blockedLog
     \/ blockedLog' = Append(blockedLog, [call |-> call, direction |-> direction])
  /\ outcome' = [outcome EXCEPT ![call] = "raised"]
  /\ pc' = "raised"
  /\ UNCHANGED <<guardrail, call, job, direction, text, cause, shown, used, kept>>

-----------------------------------------------------------------------------
Generate ==
  /\ pc = "generate"
  /\ shown' = shown \cup {text}
  /\ text' \in Text
  /\ direction' = "output"
  /\ pc' = "screen"
  /\ UNCHANGED <<guardrail, call, job, cause, blockedLog, used, outcome, kept>>

GenerateFails ==
  /\ pc = "generate"
  /\ shown' = shown \cup {text}
  /\ cause' = "model"
  /\ pc' = "degrade"
  /\ UNCHANGED <<guardrail, call, job, direction, text, blockedLog, used, outcome, kept>>

\* The paragraph assembled from engine facts exists for a narration only.
Degraded == IF job = "narrate" THEN "fallback" ELSE "nothing"

\* Every call site catches exactly the two "no model text" exceptions.
CallSiteDegrades ==
  /\ pc = "degrade"
  /\ outcome' = [outcome EXCEPT
                   ![call] = IF cause = "model" THEN "failed" ELSE "refused"]
  /\ kept' = [kept EXCEPT ![call] = Degraded]
  /\ call' = call + 1
  /\ pc' = "ready"
  /\ UNCHANGED <<guardrail, job, direction, text, cause, blockedLog, shown, used>>

\* The answer is parsed; one that does not parse, or an ungrounded draft
\* (rules G2 and G3), is discarded whole.
CallSiteUses ==
  /\ pc = "answered"
  /\ used' = used \cup {text}
  /\ outcome' = [outcome EXCEPT ![call] = "answered"]
  /\ \E k \in {"model text", Degraded} : kept' = [kept EXCEPT ![call] = k]
  /\ call' = call + 1
  /\ pc' = "ready"
  /\ UNCHANGED <<guardrail, job, direction, text, cause, blockedLog, shown>>

\* The request makes no further call: it has none to make, or it failed.
Finished ==
  /\ pc \in {"ready", "raised"}
  /\ UNCHANGED vars

Next ==
  \/ Begin
  \/ ScreenAllows
  \/ \E why \in {"refused", "undecided"} : ScreenRefuses(why)
  \/ AuditBlocked \/ AuditBlockedFails
  \/ Generate \/ GenerateFails
  \/ CallSiteDegrades \/ CallSiteUses
  \/ Finished

Spec == Init /\ [][Next]_vars

-----------------------------------------------------------------------------
Recorded == {blockedLog[i].call : i \in DOMAIN blockedLog}

(* Nothing unscreened crosses the port in either direction, over the whole *)
(* request: unless the guardrail is stated off, the model is only ever     *)
(* shown, and a call site only ever parses, text in which a complete       *)
(* screen found nothing, whichever adapter is bound and whatever it was    *)
(* handed (_generate_screened, _map_result).                               *)
OnlyScreenedText ==
  guardrail # "off" => shown \subseteq Clean /\ used \subseteq Clean

(* The trail and the degradations agree: a call site was told "refused"    *)
(* exactly for the calls with one BLOCKED record (the call whose exception *)
(* is in flight, or failed the request, apart), so no refusal vanishes     *)
(* into a fallback draft and a failing model is never recorded as a        *)
(* refusal.  Nothing a refused call produced is kept.                      *)
RefusalsAudited ==
  /\ Len(blockedLog) = Cardinality(Recorded)
  /\ {c \in Call : outcome[c] = "refused"}
       = Recorded \ (IF pc \in {"degrade", "raised"} THEN {call} ELSE {})
  /\ \A c \in Recorded : kept[c] # "model text"

-----------------------------------------------------------------------------
(* Refinement: a call is settled at the moment its exception is raised,    *)
(* the BLOCKED record written, which is before the call site sees it.      *)
SettledOutcome ==
  [c \in Call |-> IF c = call /\ pc = "degrade" /\ cause # "model"
                    THEN "refused" ELSE outcome[c]]

Abstract == INSTANCE ModelText WITH outcome <- SettledOutcome,
                                    blocked <- Recorded

(* The detailed sequence of screens, audit writes and exceptions gives     *)
(* each call site only what rule R1 promises (ModelText).                  *)
ImplementsModelText == Abstract!Spec
=============================================================================
