--------------------- MODULE ScreenedGeneration_proofs ---------------------
(***************************************************************************)
(* For any number of calls and any texts: only screened text crosses the   *)
(* generation port, and the screened calls implement ModelText.            *)
(***************************************************************************)
EXTENDS ScreenedGeneration, SequenceTheorems, FiniteSetTheorems, TLAPS

(* The text the model or the call site is about to be given came out of a  *)
(* screen.                                                                 *)
ScreenedInHand ==
  guardrail # "off" /\ pc \in {"generate", "answered"} => text \in Clean

(* A call that is under way is a call of the request.                      *)
UnderWay == pc # "ready" => call \in Call

(* The call under way and those after it have no outcome yet.              *)
NotYet ==
  \A c \in Call : c > call \/ (c = call /\ pc # "raised") => outcome[c] = "pending"

(* Only a screen puts a call on the way to the trail.                      *)
BlockedByScreen == pc = "blocked" => cause # "model"

CallInv == TypeOK /\ ScreenedInHand /\ UnderWay /\ NotYet /\ BlockedByScreen

LEMMA FirstCall == 1 \in 1..(MaxCalls + 1)
  BY TextAssumption

LEMMA LaterIsAnother == \A c, d \in Call : c > d => c # d
  BY TextAssumption DEF Call

LEMMA CallInit == Init => CallInv
<1> SUFFICES ASSUME Init PROVE CallInv
  OBVIOUS
<1> USE TextAssumption DEF Init
<1>1. blockedLog \in Seq([call : Call, direction : Direction])
  BY EmptySeq
<1>2. /\ outcome \in [Call -> {"pending", "answered", "failed", "refused", "raised"}]
      /\ kept \in [Call -> Kept]
  BY DEF Kept
<1>3. call \in 1..(MaxCalls + 1)
  BY FirstCall
<1>4. text \in Text /\ shown \subseteq Text /\ used \subseteq Text
  OBVIOUS
<1>5. TypeOK
  BY <1>1, <1>2, <1>3, <1>4 DEF TypeOK, PC, Job, Direction
<1>6. ScreenedInHand /\ UnderWay /\ BlockedByScreen
  BY DEF ScreenedInHand, UnderWay, BlockedByScreen
<1>7. NotYet
  BY DEF NotYet
<1> QED BY <1>5, <1>6, <1>7 DEF CallInv

LEMMA RecordTyped ==
  ASSUME TypeOK, call \in Call
  PROVE  Append(blockedLog, [call |-> call, direction |-> direction])
           \in Seq([call : Call, direction : Direction])
<1>1. [call |-> call, direction |-> direction] \in [call : Call, direction : Direction]
  BY DEF TypeOK
<1> QED BY <1>1 DEF TypeOK

(* A call that settles makes way for the next one.                         *)
LEMMA NextCall ==
  ASSUME CallInv, pc \in {"degrade", "answered"}, call' = call + 1,
         NEW o \in {"answered", "failed", "refused"},
         outcome' = [outcome EXCEPT ![call] = o]
  PROVE  /\ call \in Call
         /\ call' \in 1..(MaxCalls + 1)
         /\ outcome' \in [Call -> {"pending", "answered", "failed", "refused", "raised"}]
         /\ NotYet'
<1>1. call \in Call
  BY DEF CallInv, UnderWay
<1>2. outcome \in [Call -> {"pending", "answered", "failed", "refused", "raised"}]
  BY DEF CallInv, TypeOK
<1>3. \A c \in Call : c >= call' => c > call
  BY <1>1, TextAssumption DEF Call
<1>4. NotYet'
  <2> SUFFICES ASSUME NEW c \in Call, c >= call' PROVE outcome'[c] = "pending"
    BY <1>1, TextAssumption DEF NotYet, Call
  <2>1. c > call /\ c # call
    BY <1>1, <1>3, TextAssumption DEF Call
  <2> QED BY <1>2, <2>1 DEF CallInv, NotYet
<1> QED BY <1>1, <1>2, <1>4, TextAssumption DEF Call

(* A screen hands back a text, and a clean one unless it is off.           *)
LEMMA HandsBackClean ==
  ASSUME TypeOK, NEW t \in HandedBack(text)
  PROVE  t \in Text /\ (guardrail # "off" => t \in Clean)
BY TextAssumption DEF TypeOK, Guardrail, HandedBack, Reports, Allowed

(* One step per handler: what moves a call on moves nothing of the others. *)
LEMMA CallStep == CallInv /\ [Next]_vars => CallInv'
<1> SUFFICES ASSUME CallInv, [Next]_vars PROVE CallInv'
  OBVIOUS
<1> USE TextAssumption DEF CallInv, TypeOK, ScreenedInHand, UnderWay, NotYet,
        BlockedByScreen, PC, Job, Direction, Kept, Call
<1>1. CASE Begin
  BY <1>1 DEF Begin, Following
<1>2. CASE ScreenAllows
  BY <1>2, HandsBackClean DEF ScreenAllows
<1>3. CASE \E why \in {"refused", "undecided"} : ScreenRefuses(why)
  BY <1>3 DEF ScreenRefuses
<1>4. CASE AuditBlocked
  BY <1>4, RecordTyped DEF AuditBlocked
<1>5. CASE AuditBlockedFails
  <2>1. call \in Call /\ pc = "blocked"
    BY <1>5 DEF AuditBlockedFails
  <2>2. blockedLog' \in Seq([call : Call, direction : Direction])
    <3>1. CASE UNCHANGED blockedLog
      BY <3>1
    <3>2. CASE blockedLog' = Append(blockedLog, [call |-> call, direction |-> direction])
      BY <3>2, <2>1, RecordTyped
    <3> QED BY <1>5, <3>1, <3>2 DEF AuditBlockedFails
  <2>3. outcome' \in [Call -> {"pending", "answered", "failed", "refused", "raised"}]
    BY <1>5 DEF AuditBlockedFails
  <2>4. NotYet'
    <3> SUFFICES ASSUME NEW c \in Call, c > call PROVE outcome'[c] = "pending"
      BY <1>5 DEF AuditBlockedFails
    <3>1. c # call
      BY <2>1, LaterIsAnother, Zenon
    <3> QED BY <1>5, <3>1 DEF AuditBlockedFails
  <2> QED BY <1>5, <2>1, <2>2, <2>3, <2>4 DEF AuditBlockedFails
<1>6. CASE Generate
  BY <1>6 DEF Generate
<1>7. CASE GenerateFails
  BY <1>7 DEF GenerateFails
<1>8. CASE CallSiteDegrades
  <2>1. kept' \in [Call -> Kept]
    BY <1>8 DEF CallSiteDegrades, Degraded
  <2>2. PICK o \in {"answered", "failed", "refused"} :
          outcome' = [outcome EXCEPT ![call] = o]
    BY <1>8 DEF CallSiteDegrades
  <2> QED BY <1>8, <2>1, <2>2, NextCall DEF CallSiteDegrades
<1>9. CASE CallSiteUses
  <2>1. kept' \in [Call -> Kept]
    BY <1>9 DEF CallSiteUses, Degraded
  <2> QED BY <1>9, <2>1, NextCall DEF CallSiteUses
<1>10. CASE Finished \/ UNCHANGED vars
  BY <1>10 DEF Finished, vars
<1> QED
  BY <1>1, <1>2, <1>3, <1>4, <1>5, <1>6, <1>7, <1>8, <1>9, <1>10 DEF Next

-----------------------------------------------------------------------------
(* OnlyScreenedText for every set of texts, whatever the guardrail hands   *)
(* back: _generate_screened never passes on what it submitted.             *)
THEOREM ScreenedOnly == Spec => []OnlyScreenedText
<1>1. Init => OnlyScreenedText
  BY DEF Init, OnlyScreenedText
<1>2. CallInv /\ OnlyScreenedText /\ [Next]_vars => OnlyScreenedText'
  BY DEF CallInv, ScreenedInHand, OnlyScreenedText, Next, vars, Begin,
         ScreenAllows, ScreenRefuses, AuditBlocked, AuditBlockedFails, Generate,
         GenerateFails, CallSiteDegrades, CallSiteUses, Finished
<1> QED BY <1>1, <1>2, CallInit, CallStep, PTL DEF Spec

-----------------------------------------------------------------------------
LEMMA NothingLogged == \A i : i \notin DOMAIN << >>
<1>1. << >> \in Seq({}) /\ Len(<< >>) = 0
  BY EmptySeq
<1>2. \A s \in Seq({}) : DOMAIN s = 1..Len(s)
  OBVIOUS
<1>3. DOMAIN << >> = 1..0
  BY <1>1, <1>2, Zenon
<1> QED BY <1>3

(* The BLOCKED record of a call puts that call, and no other, on the trail *)
(* of ModelText.                                                           *)
LEMMA RecordedGrows ==
  ASSUME TypeOK, call \in Call,
         blockedLog' = Append(blockedLog, [call |-> call, direction |-> direction])
  PROVE  Recorded' = Recorded \cup {call}
<1> DEFINE entry == [call |-> call, direction |-> direction]
<1>1. blockedLog \in Seq([call : Call, direction : Direction]) /\ entry.call = call
  BY DEF TypeOK
<1>2. DOMAIN blockedLog' = DOMAIN blockedLog \cup {Len(blockedLog) + 1}
  BY <1>1
<1>3. \A i \in DOMAIN blockedLog : blockedLog'[i] = blockedLog[i]
  BY <1>1
<1>4. blockedLog'[Len(blockedLog) + 1] = entry
  BY <1>1
<1> QED BY <1>1, <1>2, <1>3, <1>4 DEF Recorded

(* What is on the trail: one record for a refused call, and none for a     *)
(* call that has not been refused.                                         *)
OneRecordEach == IsFiniteSet(Recorded) /\ Len(blockedLog) = Cardinality(Recorded)

RecordedIsRefused ==
  \A c \in Recorded :
    /\ c \in Call
    /\ c < call \/ (c = call /\ (pc = "raised" \/ (pc = "degrade" /\ cause # "model")))

RefusedIsRecorded == pc = "degrade" /\ cause # "model" => call \in Recorded

Told ==
  \A c \in Call :
    outcome[c] = "refused" <=> c \in Recorded /\ ~(c = call /\ pc \in {"degrade", "raised"})

NothingKept ==
  /\ \A c \in Recorded : kept[c] # "model text"
  /\ \A c \in Call : c >= call => kept[c] = "nothing yet"

TrailInv == OneRecordEach /\ RecordedIsRefused /\ RefusedIsRecorded /\ Told /\ NothingKept

LEMMA TrailInit == Init => TrailInv
<1> SUFFICES ASSUME Init PROVE TrailInv
  OBVIOUS
<1>1. blockedLog = << >> /\ Len(blockedLog) = 0
  BY EmptySeq DEF Init
<1>2. Recorded = {}
  BY <1>1, NothingLogged DEF Recorded
<1>3. OneRecordEach
  BY <1>1, <1>2, FS_EmptySet DEF OneRecordEach
<1> QED
  BY <1>2, <1>3 DEF Init, TrailInv, RecordedIsRefused, RefusedIsRecorded, Told, NothingKept

LEMMA TrailStep == CallInv /\ TrailInv /\ [Next]_vars => TrailInv'
<1> SUFFICES ASSUME CallInv, TrailInv, [Next]_vars PROVE TrailInv'
  OBVIOUS
<1> USE DEF TrailInv
<1>1. /\ outcome \in [Call -> {"pending", "answered", "failed", "refused", "raised"}]
      /\ kept \in [Call -> Kept]
      /\ call \in Nat
      /\ \A c \in Call : c \in Nat
      /\ pc # "ready" => call \in Call
  BY TextAssumption DEF CallInv, TypeOK, UnderWay, Call
<1>a. ~(call < call) /\ call >= call
  BY <1>1
<1>b. \A c \in Call : (c >= call + 1 => c >= call /\ c # call) /\ (c <= call => c < call + 1)
  BY <1>1
<1>c. \A c \in Recorded : c \in Call /\ c <= call
  BY <1>1 DEF RecordedIsRefused
<1>2. ASSUME UNCHANGED <<call, blockedLog, outcome, kept>>,
             pc \notin {"degrade", "raised"}, pc' \notin {"degrade", "raised"}
      PROVE  TrailInv'
  <2>1. Recorded' = Recorded
    BY <1>2 DEF Recorded
  <2> QED BY <1>2, <2>1
          DEF OneRecordEach, RecordedIsRefused, RefusedIsRecorded, Told, NothingKept
<1>3. CASE Begin \/ ScreenAllows \/ (\E why \in {"refused", "undecided"} : ScreenRefuses(why))
           \/ Generate
  BY <1>2, <1>3 DEF Begin, ScreenAllows, ScreenRefuses, Generate
<1>4. ASSUME pc = "blocked", blockedLog' = Append(blockedLog, [call |-> call, direction |-> direction])
      PROVE  OneRecordEach' /\ Recorded' = Recorded \cup {call} /\ call \notin Recorded
  <2>1. Recorded' = Recorded \cup {call} /\ call \notin Recorded
    BY <1>1, <1>4, RecordedGrows DEF CallInv, RecordedIsRefused
  <2>2. Len(blockedLog') = Len(blockedLog) + 1
    BY <1>4 DEF CallInv, TypeOK
  <2> QED BY <2>1, <2>2, FS_AddElement DEF OneRecordEach
<1>5. CASE AuditBlocked
  <2>1. /\ pc = "blocked" /\ pc' = "degrade" /\ cause # "model" /\ call \in Call
        /\ UNCHANGED <<call, cause, outcome, kept>>
    BY <1>1, <1>5 DEF AuditBlocked, CallInv, BlockedByScreen
  <2>2. outcome[call] = "pending" /\ kept[call] = "nothing yet"
    BY <1>a, <2>1 DEF CallInv, NotYet, NothingKept
  <2>3. OneRecordEach' /\ Recorded' = Recorded \cup {call}
    BY <1>4, <1>5, <2>1 DEF AuditBlocked
  <2> QED BY <1>1, <2>1, <2>2, <2>3
          DEF RecordedIsRefused, RefusedIsRecorded, Told, NothingKept
<1>6. CASE AuditBlockedFails
  <2>1. /\ pc = "blocked" /\ pc' = "raised" /\ call \in Call
        /\ UNCHANGED <<call, cause, kept>>
        /\ outcome' = [outcome EXCEPT ![call] = "raised"]
    BY <1>1, <1>6 DEF AuditBlockedFails
  <2>2. kept[call] = "nothing yet"
    BY <1>a, <2>1 DEF NothingKept
  <2>3. OneRecordEach' /\ Recorded' \in {Recorded, Recorded \cup {call}}
    <3>1. CASE UNCHANGED blockedLog
      BY <3>1 DEF OneRecordEach, Recorded
    <3> QED BY <1>4, <1>6, <2>1, <3>1 DEF AuditBlockedFails
  <2> QED BY <1>1, <2>1, <2>2, <2>3
          DEF RecordedIsRefused, RefusedIsRecorded, Told, NothingKept
<1>7. CASE GenerateFails
  <2>1. /\ pc = "generate" /\ pc' = "degrade" /\ cause' = "model" /\ call \in Call
        /\ UNCHANGED <<call, blockedLog, outcome, kept>>
    BY <1>1, <1>7 DEF GenerateFails
  <2>2. Recorded' = Recorded /\ call \notin Recorded
    BY <1>1, <2>1 DEF Recorded, RecordedIsRefused
  <2> QED BY <1>1, <2>1, <2>2
          DEF OneRecordEach, RecordedIsRefused, RefusedIsRecorded, Told, NothingKept
<1>8. CASE CallSiteDegrades
  <2>1. /\ pc = "degrade" /\ pc' = "ready" /\ call \in Call /\ call' = call + 1
        /\ outcome' = [outcome EXCEPT ![call] = IF cause = "model" THEN "failed" ELSE "refused"]
        /\ \E k \in {"fallback", "nothing"} : kept' = [kept EXCEPT ![call] = k]
    BY <1>1, <1>8 DEF CallSiteDegrades, Degraded
  <2>2. Recorded' = Recorded /\ OneRecordEach'
    BY <1>8 DEF CallSiteDegrades, Recorded, OneRecordEach
  <2>3. cause # "model" <=> call \in Recorded
    BY <1>1, <2>1 DEF RecordedIsRefused, RefusedIsRecorded
  <2>4. RecordedIsRefused' /\ RefusedIsRecorded'
    BY <1>b, <1>c, <2>1, <2>2 DEF RecordedIsRefused, RefusedIsRecorded
  <2>5. Told'
    <3> SUFFICES ASSUME NEW c \in Call PROVE outcome'[c] = "refused" <=> c \in Recorded
      BY <2>1, <2>2 DEF Told
    <3>1. CASE c = call
      BY <1>1, <2>1, <2>3, <3>1
    <3>2. CASE c # call
      BY <1>1, <2>1, <3>2 DEF Told
    <3> QED BY <3>1, <3>2
  <2>6. NothingKept'
    BY <1>1, <1>b, <1>c, <2>1, <2>2 DEF NothingKept
  <2> QED BY <2>2, <2>4, <2>5, <2>6
<1>9. CASE CallSiteUses
  <2>1. /\ pc = "answered" /\ pc' = "ready" /\ call \in Call /\ call' = call + 1
        /\ outcome' = [outcome EXCEPT ![call] = "answered"]
        /\ \E k \in {"model text", "fallback", "nothing"} : kept' = [kept EXCEPT ![call] = k]
    BY <1>1, <1>9 DEF CallSiteUses, Degraded
  <2>2. Recorded' = Recorded /\ OneRecordEach'
    BY <1>9 DEF CallSiteUses, Recorded, OneRecordEach
  <2>3. call \notin Recorded
    BY <1>a, <2>1 DEF RecordedIsRefused
  <2>4. RecordedIsRefused' /\ RefusedIsRecorded'
    BY <1>b, <1>c, <2>1, <2>2 DEF RecordedIsRefused, RefusedIsRecorded
  <2>5. Told'
    BY <1>1, <2>1, <2>2, <2>3 DEF Told
  <2>6. NothingKept'
    BY <1>1, <1>b, <1>c, <2>1, <2>2, <2>3 DEF NothingKept
  <2> QED BY <2>2, <2>4, <2>5, <2>6
<1>10. CASE Finished \/ UNCHANGED vars
  <2>1. UNCHANGED vars
    BY <1>10 DEF Finished
  <2>2. Recorded' = Recorded
    BY <2>1 DEF vars, Recorded
  <2> QED BY <2>1, <2>2
          DEF vars, OneRecordEach, RecordedIsRefused, RefusedIsRecorded, Told, NothingKept
<1> QED
  BY <1>3, <1>5, <1>6, <1>7, <1>8, <1>9, <1>10 DEF Next

(* RefusalsAudited for any number of calls: whatever fails wherever, each   *)
(* call site told of a refusal has its one record on the trail, and the    *)
(* trail has no other (_generate_screened).                                *)
THEOREM EveryRefusalAudited == Spec => []RefusalsAudited
<1>1. CallInv /\ TrailInv => RefusalsAudited
  <2> SUFFICES ASSUME CallInv, TrailInv PROVE RefusalsAudited
    OBVIOUS
  <2>1. \A c \in Recorded : c \in Call
    BY DEF TrailInv, RecordedIsRefused
  <2>2. {c \in Call : outcome[c] = "refused"}
          = Recorded \ (IF pc \in {"degrade", "raised"} THEN {call} ELSE {})
    BY <2>1 DEF TrailInv, Told
  <2> QED BY <2>2 DEF TrailInv, OneRecordEach, NothingKept, RefusalsAudited
<1> QED BY <1>1, CallInit, CallStep, TrailInit, TrailStep, PTL DEF Spec

(* Every step is a step of ModelText or leaves its state alone.            *)
LEMMA StepImplements == CallInv /\ [Next]_vars => [Abstract!Next]_(Abstract!vars)
<1> SUFFICES ASSUME CallInv, [Next]_vars PROVE [Abstract!Next]_(Abstract!vars)
  OBVIOUS
<1> USE DEF CallInv, UnderWay, NotYet, BlockedByScreen
<1>1. ASSUME SettledOutcome' = SettledOutcome, Recorded' = Recorded
      PROVE  [Abstract!Next]_(Abstract!vars)
  BY <1>1 DEF Abstract!vars
<1>2. outcome \in [Call -> {"pending", "answered", "failed", "refused", "raised"}]
  BY DEF TypeOK
<1>3. CASE Begin
  BY <1>3, <1>1 DEF Begin, SettledOutcome, Recorded
<1>4. CASE ScreenAllows
  BY <1>4, <1>1 DEF ScreenAllows, SettledOutcome, Recorded
<1>5. CASE \E why \in {"refused", "undecided"} : ScreenRefuses(why)
  BY <1>5, <1>1 DEF ScreenRefuses, SettledOutcome, Recorded
<1>6. CASE AuditBlocked
  <2>1. call \in Call /\ SettledOutcome[call] = "pending"
    BY <1>6, <1>2 DEF AuditBlocked, SettledOutcome, Call
  <2>2. SettledOutcome' = [SettledOutcome EXCEPT ![call] = "refused"]
    BY <1>6, <1>2 DEF AuditBlocked, SettledOutcome
  <2>3. Recorded' = Recorded \cup {call}
    BY <1>6, <2>1, RecordedGrows DEF AuditBlocked
  <2>4. Abstract!Refuse(call)
    BY <2>1, <2>2, <2>3 DEF Abstract!Refuse, Abstract!Settle
  <2> QED BY <2>1, <2>4 DEF Abstract!Next
<1>7. CASE AuditBlockedFails
  <2>1. call \in Call /\ SettledOutcome[call] = "pending"
    BY <1>7, <1>2 DEF AuditBlockedFails, SettledOutcome, Call
  <2>2. SettledOutcome' = [SettledOutcome EXCEPT ![call] = "raised"]
    BY <1>7, <1>2 DEF AuditBlockedFails, SettledOutcome
  <2>3. Recorded' \in {Recorded, Recorded \cup {call}}
    <3>1. CASE UNCHANGED blockedLog
      BY <3>1 DEF Recorded
    <3>2. CASE blockedLog' = Append(blockedLog, [call |-> call, direction |-> direction])
      BY <3>2, <2>1, RecordedGrows
    <3> QED BY <1>7, <3>1, <3>2 DEF AuditBlockedFails
  <2>4. Abstract!Raise(call)
    BY <2>1, <2>2, <2>3 DEF Abstract!Raise, Abstract!Settle
  <2> QED BY <2>1, <2>4 DEF Abstract!Next
<1>8. CASE Generate
  BY <1>8, <1>1 DEF Generate, SettledOutcome, Recorded
<1>9. CASE GenerateFails
  BY <1>9, <1>1 DEF GenerateFails, SettledOutcome, Recorded
<1>10. CASE CallSiteDegrades
  <2>1. call \in Call /\ outcome[call] = "pending" /\ Recorded' = Recorded
    BY <1>10 DEF CallSiteDegrades, Call, Recorded
  <2>2. CASE cause = "model"
    <3>1. SettledOutcome[call] = "pending"
      BY <2>1, <2>2 DEF SettledOutcome
    <3>2. SettledOutcome' = [SettledOutcome EXCEPT ![call] = "failed"]
      BY <1>10, <1>2, <2>2 DEF CallSiteDegrades, SettledOutcome
    <3>3. Abstract!Fail(call)
      BY <2>1, <3>1, <3>2 DEF Abstract!Fail, Abstract!Settle
    <3> QED BY <2>1, <3>3 DEF Abstract!Next
  <2>3. CASE cause # "model"
    <3>1. SettledOutcome' = SettledOutcome
      BY <1>10, <1>2, <2>3 DEF CallSiteDegrades, SettledOutcome
    <3> QED BY <2>1, <3>1, <1>1
  <2> QED BY <2>2, <2>3
<1>11. CASE CallSiteUses
  <2>1. call \in Call /\ SettledOutcome[call] = "pending" /\ Recorded' = Recorded
    BY <1>11 DEF CallSiteUses, Call, Recorded, SettledOutcome
  <2>2. SettledOutcome' = [SettledOutcome EXCEPT ![call] = "answered"]
    BY <1>11, <1>2 DEF CallSiteUses, SettledOutcome
  <2>3. Abstract!Answer(call)
    BY <2>1, <2>2 DEF Abstract!Answer, Abstract!Settle
  <2> QED BY <2>1, <2>3 DEF Abstract!Next
<1>12. CASE Finished \/ UNCHANGED vars
  <2>1. UNCHANGED vars
    BY <1>12 DEF Finished
  <2>2. SettledOutcome' = SettledOutcome /\ Recorded' = Recorded
    BY <2>1 DEF vars, SettledOutcome, Recorded
  <2> QED BY <2>2, <1>1
<1> QED
  BY <1>3, <1>4, <1>5, <1>6, <1>7, <1>8, <1>9, <1>10, <1>11, <1>12 DEF Next

(* ImplementsModelText for any number of calls: each call site is given    *)
(* only what rule R1 promises it, whichever of the three ports fails.      *)
THEOREM ScreensImplementModelText == Spec => ImplementsModelText
<1>1. Init => Abstract!Init
  <2> SUFFICES ASSUME Init PROVE Abstract!Init
    OBVIOUS
  <2>1. Recorded = {}
    <3>1. blockedLog = <<>>
      BY DEF Init
    <3> QED BY <3>1, NothingLogged DEF Recorded
  <2>2. SettledOutcome = [c \in Call |-> "pending"]
    BY DEF Init, SettledOutcome
  <2> QED BY <2>1, <2>2 DEF Abstract!Init
<1> QED
  BY <1>1, CallInit, CallStep, StepImplements, PTL
     DEF Spec, ImplementsModelText, Abstract!Spec
=============================================================================
