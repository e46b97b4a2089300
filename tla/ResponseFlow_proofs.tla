------------------------ MODULE ResponseFlow_proofs ------------------------
(***************************************************************************)
(* ResponseFlow, for any requests, cases and items, any number of them at  *)
(* once and any bound on crashes.  Part one: the type invariant, and the   *)
(* two invariants that tie the board and the outbox to the audit trail.    *)
(***************************************************************************)
EXTENDS ResponseFlow, TLAPS

(***************************************************************************)
(* Where a thread is determines how far through the items it is.           *)
(***************************************************************************)
Progress ==
  \A r \in Request :
    /\ pc[r] = "received" => pos[r] = 1 /\ Len(work[r]) = 0
    /\ pc[r] \in {"topic", "retrieve", "narrate", "normalise", "audit"} =>
         pos[r] \in Items(r) /\ Len(work[r]) = pos[r] - 1
    /\ pc[r] \in {"record", "route", "show"} =>
         pos[r] \in Items(r) /\ Len(work[r]) = pos[r]

TypeInv == TypeOK /\ Progress

LEMMA OutcomeIntro ==
  ASSUME NEW r \in Request, NEW p \in {0} \cup Items(r)
  PROVE  <<r, p>> \in Outcome
BY DEF Outcome

LEMMA ItemCase ==
  ASSUME NEW r \in Request, NEW p \in Items(r)
  PROVE  ItemsOf[r][p] \in ItemRef /\ KeyOf(<<r, p>>) \in Key
BY FlowAssumption DEF KeyOf, Key, Items

LEMMA EventType ==
  ASSUME NEW o \in Outcome, NEW a \in Action, NEW d \in Decision
  PROVE  Event(o, a, d) \in AuditEvent
BY DEF Event, AuditEvent

LEMMA SeqUpdate ==
  ASSUME NEW S, NEW s \in Seq(S), NEW i \in 1..Len(s), NEW e \in S
  PROVE  [s EXCEPT ![i] = e] \in Seq(S) /\ Len([s EXCEPT ![i] = e]) = Len(s)
OBVIOUS

LEMMA TypeInit == Init => TypeInv
BY FlowAssumption, NoValueAssumption
   DEF Init, TypeInv, TypeOK, Progress, PC, Draft, Items, HandOffs

-----------------------------------------------------------------------------
(* Every action of a thread moves its own control state and no other.      *)
LEMMA GoToType ==
  ASSUME TypeOK, NEW r \in Request, NEW w \in PC, GoTo(r, w)
  PROVE  /\ pc' \in [Request -> PC]
         /\ pc'[r] = w
         /\ \A q \in Request \ {r} : pc'[q] = pc[q]
BY DEF TypeOK, GoTo

LEMMA FirstItem ==
  ASSUME NEW r \in Request
  PROVE  1 \in Items(r)
BY FlowAssumption DEF Items

\* Steps that only move the thread on and note what it found.
LEMMA QuietType ==
  ASSUME TypeInv, NEW r \in Request,
         Validate(r) \/ TopicDeclared(r) \/ Retrieve(r) \/ Reply(r)
           \/ PortFails(r)
  PROVE  TypeOK'
<1>1. pc' \in [Request -> PC]
  <2>1. PICK w \in PC : GoTo(r, w)
    BY DEF Validate, TopicDeclared, Retrieve, Reply, PortFails, Abandon, PC, InFlight,
           InAssessItem, Settled
  <2>2. QED
    BY <2>1, GoToType DEF TypeInv
<1>2. draft' \in [Request -> Draft] /\ serious' \in [Request -> BOOLEAN]
  BY DEF TypeInv, TypeOK, Validate, TopicDeclared, Retrieve, Reply, PortFails,
         Draft
<1>3. UNCHANGED <<pos, work, itemRouting, packRouting, audit, board, outbox,
                  lost, routerOn, crashes>>
  BY DEF Validate, TopicDeclared, Retrieve, Reply, PortFails, shared
<1>4. QED
  BY <1>1, <1>2, <1>3 DEF TypeInv, TypeOK

(* Steps that may also write a record about their own item or pack.        *)
LEMMA CallType ==
  ASSUME TypeInv, NEW r \in Request,
         ItemRejected(r) \/ Narrate(r) \/ Normalise(r) \/ CoverNote(r)
           \/ WritePackAudit(r)
  PROVE  TypeOK'
<1>1. pc' \in [Request -> PC]
  <2>1. PICK w \in PC : GoTo(r, w)
    BY DEF ItemRejected, Narrate, Normalise, CoverNote, WritePackAudit, PC,
           InFlight, InAssessItem, Settled
  <2>2. QED
    BY <2>1, GoToType DEF TypeInv
<1>2. draft' \in [Request -> Draft] /\ serious' \in [Request -> BOOLEAN]
  BY DEF TypeInv, TypeOK, ItemRejected, Narrate, Normalise, CoverNote,
         WritePackAudit, Draft
<1>3. audit' \subseteq AuditEvent
  <2>1. pc[r] \in {"topic", "narrate", "normalise"} => This(r) \in Outcome
    BY OutcomeIntro DEF TypeInv, Progress, This
  <2>2. Pack(r) \in Outcome
    BY OutcomeIntro DEF Pack
  <2>3. \A o \in Outcome, a \in Action, d \in Decision :
          Event(o, a, d) \in AuditEvent
    BY EventType
  <2>4. \/ audit' = audit
        \/ \E o \in Outcome, a \in Action, d \in Decision :
             audit' = audit \cup {Event(o, a, d)}
    BY <2>1, <2>2
       DEF ItemRejected, Narrate, Normalise, CoverNote, WritePackAudit,
           Unanswered, WriteAudit, At, Action, Decision
  <2>5. QED
    BY <2>3, <2>4 DEF TypeInv, TypeOK
<1>4. UNCHANGED <<pos, work, itemRouting, packRouting, board, outbox, lost, routerOn,
                  crashes>>
  BY DEF ItemRejected, Narrate, Normalise, CoverNote, WritePackAudit
<1>5. QED
  BY <1>1, <1>2, <1>3, <1>4 DEF TypeInv, TypeOK

\* The hand-off of one outcome leaves the outbox a set of outcomes.
LEMMA RouteType ==
  ASSUME TypeOK, NEW o \in Outcome, NEW how \in HandOffs, Route(o, how)
  PROVE  outbox' \subseteq Outcome
BY DEF TypeOK, Route, HandOffs

LEMMA RoutePackType ==
  ASSUME TypeInv, NEW r \in Request, RoutePack(r)
  PROVE  TypeOK'
<1>1. pc' \in [Request -> PC]
  BY GoToType DEF TypeInv, RoutePack, PC, InFlight
<1>2. PICK how \in HandOffs :
        Route(Pack(r), how) /\ packRouting' = [packRouting EXCEPT ![r] = how]
  BY DEF RoutePack
<1>3. outbox' \subseteq Outcome
  BY <1>2, RouteType, OutcomeIntro DEF TypeInv, Pack
<1>4. packRouting' \in [Request -> HandOffs \cup {"none"}]
  BY <1>2 DEF TypeInv, TypeOK
<1>5. UNCHANGED <<pos, draft, serious, work, itemRouting, audit, board,
                  lost, routerOn, crashes>>
  BY DEF RoutePack
<1>6. QED
  BY <1>1, <1>3, <1>4, <1>5 DEF TypeInv, TypeOK

(* The steps that stay at their item and add no assessment keep its        *)
(* place.                                                                  *)
LEMMA StayProgress ==
  ASSUME TypeInv, NEW r \in Request,
         \/ Validate(r) \/ TopicDeclared(r) \/ ItemRejected(r)
         \/ Retrieve(r) \/ Narrate(r) \/ Normalise(r) \/ CoverNote(r)
         \/ WritePackAudit(r) \/ RoutePack(r) \/ Reply(r) \/ PortFails(r)
         \/ LateFailure(r)
  PROVE  Progress'
<1>1. pos' = pos /\ work' = work
  BY DEF Validate, TopicDeclared, ItemRejected, Retrieve, Narrate, Normalise,
         CoverNote, WritePackAudit, RoutePack, Reply, PortFails, Abandon,
         LateFailure
<1>2. PICK w \in PC :
        /\ GoTo(r, w)
        /\ \/ pc[r] = "received" /\ w = "topic"
           \/ pc[r] = "topic" /\ w = "retrieve"
           \/ pc[r] = "retrieve" /\ w \in {"narrate", "audit"}
           \/ pc[r] = "narrate" /\ w = "normalise"
           \/ pc[r] = "normalise" /\ w = "audit"
           \/ w \in {"pack audit", "pack route", "reply", "answered", "failed",
                     "rejected"}
  BY DEF At, PC, InFlight, InAssessItem, Settled, Validate, TopicDeclared,
         ItemRejected, Retrieve, Narrate, Normalise, CoverNote,
         WritePackAudit, RoutePack, Reply, PortFails, Abandon, LateFailure
<1>3. pc'[r] = w /\ \A q \in Request \ {r} : pc'[q] = pc[q]
  BY <1>2, GoToType DEF TypeInv
<1>4. pc[r] = "received" => 1 - 1 = 0 /\ 1 \in Items(r)
  BY FirstItem
<1>5. /\ w \in {"topic", "retrieve", "narrate", "normalise", "audit"} =>
           pos[r] \in Items(r) /\ Len(work[r]) = pos[r] - 1
      /\ w \notin {"received", "record", "route", "show"}
  BY <1>2, <1>4 DEF TypeInv, Progress
<1>6. QED
  BY <1>1, <1>3, <1>5 DEF TypeInv, Progress

-----------------------------------------------------------------------------
LEMMA ItemAuditType ==
  ASSUME TypeInv, NEW r \in Request, WriteItemAudit(r)
  PROVE  TypeInv'
<1> DEFINE a == [draft |-> draft[r], serious |-> serious[r],
                 handoff |-> "none"]
<1>1. pc[r] = "audit" /\ pos[r] \in Items(r) /\ Len(work[r]) = pos[r] - 1
  BY DEF TypeInv, Progress, WriteItemAudit, At
<1>2. pc' \in [Request -> PC] /\ pc'[r] = "record"
      /\ \A q \in Request \ {r} : pc'[q] = pc[q]
  BY GoToType DEF TypeInv, WriteItemAudit, PC, InFlight, InAssessItem
<1>3. a \in Assessment
  BY DEF TypeInv, TypeOK, Assessment
<1>4. Append(work[r], a) \in Seq(Assessment)
      /\ Len(Append(work[r], a)) = Len(work[r]) + 1
  BY <1>3 DEF TypeInv, TypeOK
<1>5. work' = [work EXCEPT ![r] = Append(work[r], a)]
  BY DEF WriteItemAudit
<1>6. work' \in [Request -> Seq(Assessment)]
  BY <1>4, <1>5 DEF TypeInv, TypeOK
<1>7. audit' \subseteq AuditEvent
  <2>1. This(r) \in Outcome
    BY <1>1, OutcomeIntro DEF This
  <2>2. Event(This(r), "assess_item", DecisionOf(r)) \in AuditEvent
    BY <2>1, EventType DEF Action, Decision, DecisionOf
  <2>3. QED
    BY <2>2 DEF TypeInv, TypeOK, WriteItemAudit, WriteAudit
<1>8. UNCHANGED <<pos, draft, serious, itemRouting, packRouting, board, outbox,
                  lost, routerOn, crashes>>
  BY DEF WriteItemAudit
<1>9. TypeOK'
  BY <1>2, <1>6, <1>7, <1>8 DEF TypeInv, TypeOK
<1>10. work'[r] = Append(work[r], a)
       /\ \A q \in Request \ {r} : work'[q] = work[q]
  BY <1>5 DEF TypeInv, TypeOK
<1>11. pos'[r] \in Items(r) /\ Len(work'[r]) = pos'[r]
  BY <1>1, <1>4, <1>8, <1>10 DEF TypeInv, TypeOK, Items
<1>12. Progress'
  BY <1>2, <1>8, <1>10, <1>11 DEF TypeInv, Progress
<1>13. QED
  BY <1>9, <1>12 DEF TypeInv

-----------------------------------------------------------------------------
(* The board keeps its shape under an upsert, whatever reference it gets.  *)
LEMMA UpsertType ==
  ASSUME TypeInv, NEW r \in Request, pc[r] \in {"record", "show"},
         NEW ref \in Outcome \cup {NoRef}, Upsert(r, ref)
  PROVE  board' \in [Key -> CaseRecord \cup {NoRow}]
<1>1. This(r) \in Outcome
  BY OutcomeIntro DEF TypeInv, Progress, This
<1>2. [by |-> This(r), serious |-> serious[r], reviewRef |-> ref] \in CaseRecord
  BY <1>1 DEF TypeInv, TypeOK, CaseRecord
<1>3. QED
  BY <1>2 DEF TypeInv, TypeOK, Upsert

(* The next item exists, or the pack is next.                              *)
LEMMA NextItemType ==
  ASSUME TypeInv, NEW r \in Request, pc[r] \in {"record", "show"}, NextItem(r)
  PROVE  /\ pc' \in [Request -> PC]
         /\ pos' \in [Request -> Nat \ {0}]
         /\ \A q \in Request \ {r} : pc'[q] = pc[q] /\ pos'[q] = pos[q]
         /\ pos'[r] = pos[r] + 1
         /\ \/ pc'[r] = "topic" /\ pos'[r] \in Items(r)
            \/ pc'[r] = "pack"
<1>1. pos[r] \in Items(r)
  BY DEF TypeInv, Progress
<1>2. /\ pos' \in [Request -> Nat \ {0}]
      /\ pos'[r] = pos[r] + 1
      /\ \A q \in Request \ {r} : pos'[q] = pos[q]
  BY DEF TypeInv, TypeOK, NextItem
<1>3. PICK w \in {"topic", "pack"} :
        GoTo(r, w) /\ (w = "topic" => pos[r] < Len(ItemsOf[r]))
  BY DEF NextItem
<1>4. w \in PC
  BY DEF PC, InFlight
<1>5. /\ pc' \in [Request -> PC]
      /\ pc'[r] = w
      /\ \A q \in Request \ {r} : pc'[q] = pc[q]
  BY <1>3, <1>4, GoToType DEF TypeInv
<1>6. Len(ItemsOf[r]) \in Nat
  BY FlowAssumption
<1>7. w = "topic" => pos'[r] \in Items(r)
  BY <1>1, <1>2, <1>3, <1>6 DEF Items
<1>8. QED
  BY <1>2, <1>5, <1>7

LEMMA LateFailureType ==
  ASSUME TypeInv, NEW r \in Request, LateFailure(r)
  PROVE  TypeOK'
<1>1. pc' \in [Request -> PC]
  BY GoToType DEF LateFailure, Abandon, TypeInv, PC, Settled
<1>2. pc[r] \in {"topic", "narrate", "normalise", "audit", "record", "show"}
        => This(r) \in Outcome
  BY OutcomeIntro DEF TypeInv, Progress, This
<1>3. Pack(r) \in Outcome
  BY OutcomeIntro DEF Pack
<1>4. audit' \subseteq AuditEvent
  <2>1. \/ audit' = audit
        \/ \E o \in Outcome, a \in Action, d \in Decision :
             audit' = audit \cup {Event(o, a, d)}
    BY <1>2, <1>3
       DEF LateFailure, WriteAudit, At, Action, Decision, DecisionOf
  <2>2. QED
    BY <2>1, EventType DEF TypeInv, TypeOK
<1>5. board' \in [Key -> CaseRecord \cup {NoRow}]
  <2>1. CASE pc[r] \in {"record", "show"} /\ Upsert(r, Reference(r))
    BY <1>2, <2>1, UpsertType DEF Reference
  <2>2. CASE UNCHANGED board
    BY <2>2 DEF TypeInv, TypeOK
  <2>3. QED
    BY <2>1, <2>2 DEF LateFailure
<1>6. UNCHANGED <<pos, draft, serious, work, itemRouting, packRouting, outbox,
                  lost, routerOn, crashes>>
  BY DEF LateFailure
<1>7. QED
  BY <1>1, <1>4, <1>5, <1>6 DEF TypeInv, TypeOK

LEMMA RecordType ==
  ASSUME TypeInv, NEW r \in Request, RecordCase(r) \/ ShowRouting(r)
  PROVE  TypeInv'
<1>1. pc[r] \in {"record", "show"}
  BY DEF RecordCase, ShowRouting, At
<1>2. pos[r] \in Items(r) /\ Len(work[r]) = pos[r]
  BY <1>1 DEF TypeInv, Progress
<1>3. board' \in [Key -> CaseRecord \cup {NoRow}]
  <2>1. This(r) \in Outcome
    BY <1>2, OutcomeIntro DEF This
  <2>2. QED
    BY <1>1, <2>1, UpsertType DEF RecordCase, ShowRouting, Reference
<1>4. UNCHANGED <<draft, serious, work, itemRouting, packRouting, audit, outbox,
                  lost, routerOn, crashes>>
  BY DEF RecordCase, ShowRouting
<1>5. CASE NextItem(r)
  <2>1. TypeOK'
    BY <1>1, <1>3, <1>4, <1>5, NextItemType DEF TypeInv, TypeOK
  <2>2. pos[r] \in Nat
    BY DEF TypeInv, TypeOK
  <2>3. Progress'
    BY <1>1, <1>2, <1>4, <1>5, <2>2, NextItemType DEF TypeInv, Progress
  <2>4. QED
    BY <2>1, <2>3 DEF TypeInv
<1>6. CASE GoTo(r, "route") /\ UNCHANGED pos
  <2>1. pc' \in [Request -> PC] /\ pc'[r] = "route"
        /\ \A q \in Request \ {r} : pc'[q] = pc[q]
    BY <1>6, GoToType DEF TypeInv, PC, InFlight
  <2>2. TypeOK'
    BY <1>3, <1>4, <1>6, <2>1 DEF TypeInv, TypeOK
  <2>3. Progress'
    BY <1>2, <1>4, <1>6, <2>1 DEF TypeInv, Progress
  <2>4. QED
    BY <2>2, <2>3 DEF TypeInv
<1>7. QED
  BY <1>5, <1>6 DEF RecordCase, ShowRouting

-----------------------------------------------------------------------------
(* What RouteItem does to the assessment it hands off, and to nothing else.*)
LEMMA RouteItemWork ==
  ASSUME TypeInv, NEW r \in Request, NEW how \in HandOffs, pc[r] = "route",
         work' = [work EXCEPT ![r][pos[r]].handoff = how]
  PROVE  /\ work' \in [Request -> Seq(Assessment)]
         /\ Len(work'[r]) = Len(work[r])
         /\ work'[r][pos[r]].handoff = how
         /\ \A q \in Request \ {r} : work'[q] = work[q]
<1> DEFINE a == [work[r][pos[r]] EXCEPT !.handoff = how]
<1>1. pos[r] \in 1..Len(work[r])
  BY DEF TypeInv, TypeOK, Progress
<1>2. work[r] \in Seq(Assessment)
  BY DEF TypeInv, TypeOK
<1>3. work[r][pos[r]] \in Assessment
  BY <1>1, <1>2
<1>4. a \in Assessment /\ a.handoff = how
  BY <1>3 DEF Assessment, HandOffs
<1>5. work' = [work EXCEPT ![r] = [work[r] EXCEPT ![pos[r]] = a]]
  OBVIOUS
<1>6. [work[r] EXCEPT ![pos[r]] = a] \in Seq(Assessment)
      /\ Len([work[r] EXCEPT ![pos[r]] = a]) = Len(work[r])
  BY <1>1, <1>2, <1>4, SeqUpdate
<1>7. [work[r] EXCEPT ![pos[r]] = a][pos[r]] = a
  BY <1>1, <1>2
<1>8. QED
  BY <1>4, <1>5, <1>6, <1>7 DEF TypeInv, TypeOK

LEMMA RouteItemType ==
  ASSUME TypeInv, NEW r \in Request, RouteItem(r)
  PROVE  TypeInv'
<1>1. PICK how \in HandOffs :
        /\ Route(This(r), how)
        /\ work' = [work EXCEPT ![r][pos[r]].handoff = how]
        /\ itemRouting' = [itemRouting EXCEPT ![r][Item(r)] = how]
  BY DEF RouteItem
<1>2. pc[r] = "route" /\ pos[r] \in Items(r) /\ Len(work[r]) = pos[r]
  BY DEF RouteItem, At, TypeInv, Progress
<1>3. pc' \in [Request -> PC] /\ pc'[r] = "show"
      /\ \A q \in Request \ {r} : pc'[q] = pc[q]
  BY GoToType DEF TypeInv, RouteItem, PC, InFlight
<1>4. outbox' \subseteq Outcome
  BY <1>1, <1>2, RouteType, OutcomeIntro DEF TypeInv, This
<1>5. /\ work' \in [Request -> Seq(Assessment)]
      /\ Len(work'[r]) = Len(work[r])
      /\ \A q \in Request \ {r} : work'[q] = work[q]
  BY <1>1, <1>2, RouteItemWork
<1>6. itemRouting' \in [Request -> [ItemRef -> HandOffs \cup {"none"}]]
  <2>1. itemRouting[r] \in [ItemRef -> HandOffs \cup {"none"}]
    BY DEF TypeInv, TypeOK
  <2>2. [itemRouting[r] EXCEPT ![Item(r)] = how]
          \in [ItemRef -> HandOffs \cup {"none"}]
    BY <2>1
  <2>3. itemRouting' = [itemRouting EXCEPT
                          ![r] = [itemRouting[r] EXCEPT ![Item(r)] = how]]
    BY <1>1
  <2>4. QED
    BY <2>2, <2>3 DEF TypeInv, TypeOK
<1>7. UNCHANGED <<pos, draft, serious, packRouting, audit, board, lost, routerOn,
                  crashes>>
  BY DEF RouteItem
<1>8. TypeOK'
  BY <1>3, <1>4, <1>5, <1>6, <1>7 DEF TypeInv, TypeOK
<1>9. Progress'
  BY <1>2, <1>3, <1>5, <1>7 DEF TypeInv, Progress
<1>10. QED
  BY <1>8, <1>9 DEF TypeInv

LEMMA CrashType ==
  ASSUME TypeInv, Crash
  PROVE  TypeInv'
<1>1. /\ pc' \in [Request -> PC]
      /\ \A q \in Request : pc'[q] = pc[q] \/ pc'[q] = "crashed"
  BY DEF TypeInv, TypeOK, Crash, PC, InFlight, Settled
<1>2. UNCHANGED <<pos, draft, serious, work, itemRouting, packRouting, audit>>
  BY DEF Crash
<1>3. /\ board' \in [Key -> CaseRecord \cup {NoRow}]
      /\ outbox' \subseteq Outcome /\ lost' \subseteq Outcome
      /\ routerOn' \in BOOLEAN
  BY DEF TypeInv, TypeOK, Crash
<1>4. crashes' \in 0..MaxCrashes
  BY FlowAssumption DEF TypeInv, TypeOK, Crash
<1>5. TypeOK'
  BY <1>1, <1>2, <1>3, <1>4 DEF TypeInv, TypeOK
<1>6. Progress'
  BY <1>1, <1>2 DEF TypeInv, Progress
<1>7. QED
  BY <1>5, <1>6 DEF TypeInv

LEMMA TypeStep == TypeInv /\ [Next]_vars => TypeInv'
<1> SUFFICES ASSUME TypeInv, [Next]_vars PROVE TypeInv'
  OBVIOUS
<1>1. ASSUME NEW r \in Request, Serve(r) PROVE TypeInv'
  BY <1>1, QuietType, CallType, RoutePackType, LateFailureType, StayProgress,
     ItemAuditType, RecordType, RouteItemType DEF Serve, TypeInv
<1>2. CASE Crash
  BY <1>2, CrashType
<1>3. CASE UNCHANGED vars
  BY <1>3 DEF vars, local, shared, TypeInv, TypeOK, Progress
<1>4. QED
  BY <1>1, <1>2, <1>3 DEF Next, Idle

(* Control, counters, records, board and outbox stay of their types,       *)
(* whatever the threads, the ports and the crashes do.                     *)
THEOREM TypeCorrect == Spec => []TypeOK
<1>1. TypeInv => TypeOK
  BY DEF TypeInv
<1>2. QED
  BY <1>1, TypeInit, TypeStep, PTL DEF Spec

-----------------------------------------------------------------------------
(***************************************************************************)
(* AuditPrecedesEffects alone is not inductive: a thread about to write a  *)
(* row or to hand off must already have its record on the trail.           *)
(***************************************************************************)
Trailed ==
  \A r \in Request :
    /\ pc[r] \in {"record", "route", "show"} =>
         Event(This(r), "assess_item", DecisionOf(r)) \in audit
    /\ pc[r] \in {"route", "show"} => serious[r]
    /\ pc[r] = "pack route" =>
         Event(Pack(r), "assemble_pack", "ESCALATED") \in audit

(***************************************************************************)
(* Nor is RowIsOneAssessment: the reference about to be written names a    *)
(* review that is already with the reviewers.                              *)
(***************************************************************************)
Shown ==
  \A r \in Request :
    pc[r] = "show" /\ work[r][pos[r]].handoff = "routed" => This(r) \in outbox

SafeInv ==
  TypeInv /\ Trailed /\ Shown /\ AuditPrecedesEffects /\ RowIsOneAssessment

LEMMA SafeInit == Init => SafeInv
BY TypeInit
   DEF Init, SafeInv, Trailed, Shown, AuditPrecedesEffects, RowIsOneAssessment

-----------------------------------------------------------------------------
(* What a step of one thread leaves alone.                                 *)
LEMMA OthersKeep ==
  ASSUME TypeInv, NEW r \in Request, Serve(r), NEW q \in Request \ {r}
  PROVE  /\ pc'[q] = pc[q] /\ pos'[q] = pos[q]
         /\ serious'[q] = serious[q] /\ work'[q] = work[q]
<1>1. CASE RecordCase(r) \/ ShowRouting(r)
  BY <1>1 DEF RecordCase, ShowRouting, NextItem, GoTo, TypeInv, TypeOK
<1>2. CASE RouteItem(r)
  BY <1>2 DEF RouteItem, GoTo, TypeInv, TypeOK
<1>3. CASE WriteItemAudit(r)
  BY <1>3 DEF WriteItemAudit, GoTo, TypeInv, TypeOK
<1>4. CASE \/ Validate(r) \/ TopicDeclared(r) \/ ItemRejected(r)
           \/ Retrieve(r) \/ Narrate(r) \/ Normalise(r)
  BY <1>4 DEF Validate, TopicDeclared, ItemRejected, Retrieve, Narrate,
              Normalise, GoTo, TypeInv, TypeOK
<1>5. CASE \/ CoverNote(r) \/ WritePackAudit(r) \/ RoutePack(r) \/ Reply(r)
           \/ PortFails(r) \/ LateFailure(r)
  BY <1>5 DEF CoverNote, WritePackAudit, RoutePack, Reply, PortFails, Abandon,
                LateFailure, GoTo,
              TypeInv, TypeOK
<1>6. QED
  BY <1>1, <1>2, <1>3, <1>4, <1>5 DEF Serve

(* R2, append-only: no step takes a record off the trail.                  *)
LEMMA AuditGrows == [Next]_vars => audit \subseteq audit'
<1>1. ASSUME NEW r \in Request, Serve(r) PROVE audit \subseteq audit'
  BY <1>1
     DEF Serve, Validate, TopicDeclared, ItemRejected, Retrieve, Narrate,
         Normalise, WriteItemAudit, RecordCase, RouteItem, ShowRouting,
         CoverNote, WritePackAudit, RoutePack, Reply, PortFails, LateFailure,
         Unanswered, WriteAudit, shared
<1>2. Crash => audit' = audit
  BY DEF Crash
<1>3. QED
  BY <1>1, <1>2 DEF Next, Idle, vars, shared

LEMMA AuditedGrows ==
  ASSUME audit \subseteq audit', NEW o, NEW d, Audited(o, d)
  PROVE  Audited(o, d)'
BY DEF Audited

-----------------------------------------------------------------------------
LEMMA TrailedServe ==
  ASSUME TypeInv, Trailed, NEW r \in Request, Serve(r)
  PROVE  Trailed'
<1>1. audit \subseteq audit'
  BY AuditGrows DEF Next
<1>2. ASSUME NEW q \in Request \ {r}
      PROVE  /\ pc'[q] \in {"record", "route", "show"} =>
                  Event(<<q, pos'[q]>>, "assess_item",
                    IF serious'[q] THEN "ESCALATED" ELSE "ALLOWED") \in audit'
             /\ pc'[q] \in {"route", "show"} => serious'[q]
             /\ pc'[q] = "pack route" =>
                  Event(<<q, 0>>, "assemble_pack", "ESCALATED") \in audit'
  BY <1>1, <1>2, OthersKeep DEF Trailed, This, Pack, DecisionOf
<1>3. /\ pc'[r] \in {"record", "route", "show"} =>
           Event(<<r, pos'[r]>>, "assess_item",
             IF serious'[r] THEN "ESCALATED" ELSE "ALLOWED") \in audit'
      /\ pc'[r] \in {"route", "show"} => serious'[r]
      /\ pc'[r] = "pack route" =>
           Event(<<r, 0>>, "assemble_pack", "ESCALATED") \in audit'
  <2>1. CASE WriteItemAudit(r)
    BY <2>1 DEF WriteItemAudit, WriteAudit, GoTo, This, DecisionOf, TypeInv,
                TypeOK
  <2>2. CASE RecordCase(r)
    BY <2>2, <1>1 DEF RecordCase, NextItem, GoTo, At, This, Trailed,
                      DecisionOf, TypeInv, TypeOK
  <2>3. CASE RouteItem(r)
    BY <2>3, <1>1 DEF RouteItem, GoTo, At, This, Trailed, DecisionOf,
                      TypeInv, TypeOK
  <2>4. CASE WritePackAudit(r)
    BY <2>4 DEF WritePackAudit, WriteAudit, GoTo, Pack, TypeInv, TypeOK
  <2>5. CASE ShowRouting(r)
    BY <2>5 DEF ShowRouting, NextItem, GoTo, TypeInv, TypeOK
  <2>6. CASE \/ Validate(r) \/ TopicDeclared(r) \/ ItemRejected(r)
             \/ Retrieve(r) \/ Narrate(r) \/ Normalise(r) \/ CoverNote(r)
             \/ RoutePack(r) \/ Reply(r) \/ PortFails(r) \/ LateFailure(r)
    BY <2>6 DEF Validate, TopicDeclared, ItemRejected, Retrieve, Narrate,
                Normalise, CoverNote, RoutePack, Reply, PortFails, Abandon,
                LateFailure, GoTo,
                TypeInv, TypeOK
  <2>7. QED
    BY <2>1, <2>2, <2>3, <2>4, <2>5, <2>6 DEF Serve
<1>4. QED
  BY <1>2, <1>3 DEF Trailed, This, Pack, DecisionOf

(* The two effects others see, and when each of them happens.              *)
LEMMA OutboxServe ==
  ASSUME NEW r \in Request, Serve(r)
  PROVE  /\ outbox \subseteq outbox'
         /\ \A o \in outbox' \ outbox :
              \/ o = This(r) /\ pc[r] = "route"
              \/ o = Pack(r) /\ pc[r] = "pack route"
<1>1. CASE RouteItem(r)
  BY <1>1 DEF RouteItem, Route, At, HandOffs
<1>2. CASE RoutePack(r)
  BY <1>2 DEF RoutePack, Route, At, HandOffs
<1>3. CASE ~RouteItem(r) /\ ~RoutePack(r)
  BY <1>3
     DEF Serve, Validate, TopicDeclared, ItemRejected, Retrieve, Narrate,
         Normalise, WriteItemAudit, RecordCase, ShowRouting, CoverNote,
         WritePackAudit, Reply, PortFails, LateFailure, shared
<1>4. QED
  BY <1>1, <1>2, <1>3

(* Nothing is taken back from the reviewers but what a crash loses, which  *)
(* the history keeps.                                                      *)
LEMMA HandedOverGrows == [Next]_vars => HandedOver \subseteq HandedOver'
<1>1. ASSUME NEW r \in Request, Serve(r) PROVE HandedOver \subseteq HandedOver'
  <2>1. outbox \subseteq outbox'
    BY <1>1, OutboxServe
  <2>2. lost' = lost
    BY <1>1
       DEF Serve, Validate, TopicDeclared, ItemRejected, Retrieve, Narrate,
           Normalise, WriteItemAudit, RecordCase, RouteItem, ShowRouting,
           CoverNote, WritePackAudit, RoutePack, Reply, PortFails, LateFailure,
           shared
  <2>3. QED
    BY <2>1, <2>2 DEF HandedOver
<1>2. Crash => HandedOver \subseteq HandedOver'
  BY DEF Crash, HandedOver
<1>3. UNCHANGED vars => HandedOver' = HandedOver
  BY DEF vars, shared, HandedOver
<1>4. QED
  BY <1>1, <1>2, <1>3 DEF Next, Idle

LEMMA BoardServe ==
  ASSUME TypeInv, Shown, Trailed, NEW r \in Request, Serve(r), NEW k \in Key,
         board'[k] # board[k]
  PROVE  /\ pc[r] \in {"record", "show"}
         /\ k = KeyOf(This(r))
         /\ board'[k].by = This(r)
         /\ board'[k].serious = serious[r]
         /\ board'[k].reviewRef # NoRef =>
              /\ board'[k].reviewRef = This(r)
              /\ serious[r]
              /\ This(r) \in outbox
<1>1. PICK ref \in {NoRef, Reference(r)} :
        pc[r] \in {"record", "show"} /\ Upsert(r, ref)
  BY DEF Serve, Validate, TopicDeclared, ItemRejected, Retrieve, Narrate,
         Normalise, WriteItemAudit, RecordCase, RouteItem, ShowRouting,
         CoverNote, WritePackAudit, RoutePack, Reply, PortFails, LateFailure,
         At, shared
<1>2. ref # NoRef => ref = This(r) /\ serious[r] /\ This(r) \in outbox
  BY DEF Reference, At, Shown, Trailed
<1>3. QED
  BY <1>1, <1>2 DEF Upsert, TypeInv, TypeOK

LEMMA ShownServe ==
  ASSUME TypeInv, Shown, NEW r \in Request, Serve(r)
  PROVE  Shown'
<1>1. outbox \subseteq outbox'
  BY OutboxServe
<1>2. ASSUME NEW q \in Request \ {r}
      PROVE  pc'[q] = "show" /\ work'[q][pos'[q]].handoff = "routed"
               => <<q, pos'[q]>> \in outbox'
  BY <1>1, <1>2, OthersKeep DEF Shown, This
<1>3. pc'[r] = "show" /\ work'[r][pos'[r]].handoff = "routed"
        => <<r, pos'[r]>> \in outbox'
  <2>1. CASE RouteItem(r)
    <3>1. PICK how \in HandOffs :
            /\ Route(This(r), how)
            /\ work' = [work EXCEPT ![r][pos[r]].handoff = how]
      BY <2>1 DEF RouteItem
    <3>2. work'[r][pos[r]].handoff = how /\ pos' = pos
      BY <2>1, <3>1, RouteItemWork DEF RouteItem, At
    <3>3. how = "routed" => This(r) \in outbox'
      BY <3>1 DEF Route
    <3>4. QED
      BY <3>2, <3>3 DEF This
  <2>2. CASE ~RouteItem(r)
    <3>1. pc'[r] # "show"
      BY <2>2
         DEF Serve, Validate, TopicDeclared, ItemRejected, Retrieve,
             Narrate, Normalise, WriteItemAudit, RecordCase, ShowRouting,
             NextItem, CoverNote, WritePackAudit, RoutePack, Reply, PortFails,
             LateFailure, Abandon, GoTo, TypeInv, TypeOK
    <3>2. QED
      BY <3>1
  <2>3. QED
    BY <2>1, <2>2
<1>4. QED
  BY <1>2, <1>3 DEF Shown, This

LEMMA EffectsServe ==
  ASSUME SafeInv, NEW r \in Request, Serve(r)
  PROVE  AuditPrecedesEffects'
<1>1. audit \subseteq audit'
  BY AuditGrows DEF Next
<1>2. ASSUME NEW o \in outbox' PROVE Audited(o, "ESCALATED")'
  <2>1. CASE o \in outbox
    BY <1>1, <2>1, AuditedGrows DEF SafeInv, AuditPrecedesEffects
  <2>2. CASE o \notin outbox
    <3>1. Audited(o, "ESCALATED")
      BY <1>2, <2>2, OutboxServe DEF SafeInv, Trailed, Audited, DecisionOf
    <3>2. QED
      BY <1>1, <3>1, AuditedGrows
  <2>3. QED
    BY <2>1, <2>2
<1>3. ASSUME NEW k \in Key, board'[k] # NoRow
      PROVE  \E a \in {"assess_item", "assemble_pack"} :
               Event(board'[k].by, a,
                 IF board'[k].serious THEN "ESCALATED" ELSE "ALLOWED")
                   \in audit'
  <2>1. CASE board'[k] = board[k]
    BY <1>1, <1>3, <2>1 DEF SafeInv, AuditPrecedesEffects, Audited
  <2>2. CASE board'[k] # board[k]
    <3>1. /\ pc[r] \in {"record", "show"}
          /\ board'[k].by = This(r)
          /\ board'[k].serious = serious[r]
      BY <2>2, BoardServe DEF SafeInv
    <3>2. Event(This(r), "assess_item",
                IF serious[r] THEN "ESCALATED" ELSE "ALLOWED") \in audit
      BY <3>1 DEF SafeInv, Trailed, DecisionOf
    <3>3. QED
      BY <1>1, <3>1, <3>2
  <2>3. QED
    BY <2>1, <2>2
<1>4. QED
  BY <1>2, <1>3 DEF AuditPrecedesEffects, Audited

LEMMA RowsServe ==
  ASSUME SafeInv, NEW r \in Request, Serve(r)
  PROVE  RowIsOneAssessment'
<1>1. HandedOver \subseteq HandedOver'
  BY HandedOverGrows DEF Next
<1>2. ASSUME NEW k \in Key, board'[k] # NoRow
      PROVE  /\ KeyOf(board'[k].by) = k
             /\ board'[k].reviewRef # NoRef =>
                  /\ board'[k].reviewRef = board'[k].by
                  /\ board'[k].serious
                  /\ board'[k].by \in HandedOver'
  <2>1. CASE board'[k] = board[k]
    BY <1>1, <1>2, <2>1 DEF SafeInv, RowIsOneAssessment
  <2>2. CASE board'[k] # board[k]
    <3>1. outbox \subseteq HandedOver
      BY DEF HandedOver
    <3>2. QED
      BY <1>1, <2>2, <3>1, BoardServe DEF SafeInv
  <2>3. QED
    BY <2>1, <2>2
<1>3. QED
  BY <1>2 DEF RowIsOneAssessment, KeyOf

-----------------------------------------------------------------------------
(* A crash takes every thread out of its critical places; a board that     *)
(* survives it may refer to reviews that did not, which are lost then.     *)
LEMMA SafeCrash ==
  ASSUME SafeInv, Crash
  PROVE  Trailed' /\ Shown' /\ AuditPrecedesEffects' /\ RowIsOneAssessment'
<1>1. \A r \in Request : pc'[r] \notin InFlight
  BY DEF SafeInv, TypeInv, TypeOK, Crash, InFlight, InAssessItem
<1>2. Trailed' /\ Shown'
  BY <1>1 DEF Trailed, Shown, InFlight, InAssessItem
<1>3. audit' = audit /\ outbox' \subseteq outbox
  BY DEF Crash
<1>4. \A k \in Key : board'[k] # NoRow => board'[k] = board[k]
  BY DEF Crash
<1>5. AuditPrecedesEffects'
  BY <1>3, <1>4 DEF SafeInv, AuditPrecedesEffects, Audited
<1>6. HandedOver \subseteq HandedOver'
  BY HandedOverGrows DEF Next
<1>7. RowIsOneAssessment'
  BY <1>4, <1>6 DEF SafeInv, RowIsOneAssessment, KeyOf
<1>8. QED
  BY <1>2, <1>5, <1>7

LEMMA SafeStep == SafeInv /\ [Next]_vars => SafeInv'
<1> SUFFICES ASSUME SafeInv, [Next]_vars PROVE SafeInv'
  OBVIOUS
<1>1. TypeInv'
  BY TypeStep DEF SafeInv
<1>2. ASSUME NEW r \in Request, Serve(r) PROVE SafeInv'
  BY <1>1, <1>2, TrailedServe, ShownServe, EffectsServe, RowsServe DEF SafeInv
<1>3. CASE Crash
  BY <1>1, <1>3, SafeCrash DEF SafeInv
<1>4. CASE UNCHANGED vars
  BY <1>1, <1>4
     DEF vars, local, shared, SafeInv, Trailed, Shown, AuditPrecedesEffects,
         RowIsOneAssessment, HandedOver, Audited, This, Pack, KeyOf, DecisionOf
<1>5. QED
  BY <1>2, <1>3, <1>4 DEF Next, Idle

LEMMA SafeAlways == Spec => []SafeInv
BY SafeInit, SafeStep, PTL DEF Spec

(* Rule R2 before rule R8, for any number of requests on any cases: what   *)
(* the board shows and what reviewers are given is already on the trail.   *)
THEOREM AuditFirst == Spec => []AuditPrecedesEffects
<1>1. SafeInv => AuditPrecedesEffects
  BY DEF SafeInv
<1>2. QED
  BY <1>1, SafeAlways, PTL

(* Concurrent requests on one case and item never mix their rows, and a    *)
(* reference on the board is the review of its own assessment, which is    *)
(* with the reviewers unless their queue was held in memory and died with  *)
(* a process the board outlived: whatever is durable and whatever is not.  *)
THEOREM RowsNeverMix == Spec => []RowIsOneAssessment
<1>1. SafeInv => RowIsOneAssessment
  BY DEF SafeInv
<1>2. QED
  BY <1>1, SafeAlways, PTL

-----------------------------------------------------------------------------
(***************************************************************************)
(* Part two.  An answer accounts for every escalation, the pack never      *)
(* reaches the checker ahead of its exceptions, and the threads implement  *)
(* EscalationContract, for any requests, failures and crashes.             *)
(***************************************************************************)

Stopped == {"rejected", "failed", "crashed"}
Rolled == {"pack", "pack audit", "pack route", "reply", "answered"}

(* A finding that only fallback or no text stands for is serious.          *)
Found(r) == pc[r] \in {"normalise", "audit"} => (draft[r] # "model" => serious[r])

(* The assessments made, the decision on the trail for each, and whether   *)
(* its hand-off is behind it.                                              *)
Assessed(r) ==
  \A p \in Positions(r) :
    /\ work[r][p].draft # "model" => work[r][p].serious
    /\ work[r][p].handoff # "none" => work[r][p].serious
    /\ Audited(<<r, p>>, "ESCALATED") <=> work[r][p].serious
    /\ ~work[r][p].serious => Audited(<<r, p>>, "ALLOWED")
    /\ \/ work[r][p].serious => work[r][p].handoff # "none"
       \/ pc[r] \in {"record", "route"} /\ p = pos[r]
       \/ pc[r] \in Stopped

(* The thread is at the assessment it made last.                           *)
Current(r) ==
  /\ pc[r] \in {"record", "route"} => work[r][pos[r]].handoff = "none"
  /\ pc[r] \in {"record", "route", "show"} => work[r][pos[r]].serious = serious[r]

(* Nothing is on the trail for an item that is not yet assessed, unless    *)
(* the request stopped right there.                                        *)
NotAhead(r) ==
  \A p \in Items(r) : \A d \in {"ESCALATED", "ALLOWED"} :
    Audited(<<r, p>>, d) => p \in Positions(r) \/ pc[r] \in Stopped

(* How many items are assessed, and all of them once the pack is due.      *)
Counted(r) ==
  /\ Len(work[r]) <= Len(ItemsOf[r])
  /\ pc[r] \in Rolled => Len(work[r]) = Len(ItemsOf[r])

(* The pack's own record and hand-off.                                     *)
PackInv(r) ==
  /\ ~Audited(Pack(r), "ALLOWED")
  /\ Audited(Pack(r), "ESCALATED") => pc[r] \in {"pack route", "reply", "answered"} \cup Stopped
  /\ pc[r] \in {"pack route", "reply", "answered"} => Audited(Pack(r), "ESCALATED")
  /\ pc[r] \in {"reply", "answered"} => packRouting[r] # "none"
  /\ packRouting[r] # "none" => pc[r] \in {"reply", "answered", "crashed"}
  /\ Pack(r) \in outbox =>
       /\ pc[r] \in {"reply", "answered", "crashed"}
       /\ Len(work[r]) = Len(ItemsOf[r])
       /\ \A p \in Positions(r) : work[r][p].serious => work[r][p].handoff # "none"

(* What was reported routed was given to the reviewers.                    *)
Reached(r) ==
  /\ packRouting[r] = "routed" => Pack(r) \in HandedOver
  /\ \A p \in Positions(r) :
       work[r][p].handoff = "routed" => <<r, p>> \in HandedOver

(* The hand-offs of one item_ref so far, and its entry in item_routing:    *)
(* that of the last of them, if there is any.                              *)
HandOffsFor(r, i) ==
  {p \in Positions(r) : ItemsOf[r][p] = i /\ work[r][p].handoff # "none"}

LastWins(r) ==
  \A i \in ItemRef :
    \/ HandOffsFor(r, i) = {} /\ itemRouting[r][i] = "none"
    \/ \E last \in HandOffsFor(r, i) :
         /\ \A p \in HandOffsFor(r, i) : p <= last
         /\ itemRouting[r][i] = work[r][last].handoff

Flow(r) ==
  /\ Found(r) /\ Assessed(r) /\ Current(r) /\ NotAhead(r)
  /\ Counted(r) /\ PackInv(r) /\ Reached(r) /\ LastWins(r)

FlowInv == SafeInv /\ \A r \in Request : Flow(r)

-----------------------------------------------------------------------------
(* The trail, as a value.                                                  *)
AuditedIn(trail, o, decision) ==
  \E a \in {"assess_item", "assemble_pack"} : Event(o, a, decision) \in trail

Outspoken == {"ESCALATED", "ALLOWED"}

(* One record more says one thing more.                                    *)
LEMMA OneMore ==
  \A A, o, d, p, e : \A a \in {"assess_item", "assemble_pack"} :
    AuditedIn(A \cup {Event(o, a, d)}, p, e) <=> AuditedIn(A, p, e) \/ (p = o /\ e = d)
BY DEF AuditedIn, Event

(* A BLOCKED record decides nothing.                                       *)
LEMMA BlockedSaysNothing ==
  \A A, o, a, p : \A e \in Outspoken :
    AuditedIn(A \cup {Event(o, a, "BLOCKED")}, p, e) <=> AuditedIn(A, p, e)
BY DEF AuditedIn, Event, Outspoken

LEMMA PositionsAre ==
  ASSUME TypeInv, NEW r \in Request
  PROVE  /\ Positions(r) = 1..Len(work[r]) /\ Len(work[r]) \in Nat
         /\ Positions(r)' = DOMAIN work'[r]
BY DEF Positions, TypeInv, TypeOK

LEMMA ItemsAre ==
  ASSUME NEW r \in Request
  PROVE  Items(r) = 1..Len(ItemsOf[r]) /\ Len(ItemsOf[r]) \in Nat /\ 0 \notin Items(r)
<1>1. Len(ItemsOf[r]) \in Nat
  BY FlowAssumption
<1> QED BY <1>1 DEF Items

LEMMA NoZero ==
  ASSUME TypeInv, NEW r \in Request
  PROVE  0 \notin Positions(r) /\ (work' = work => Positions(r)' = Positions(r))
<1>1. 0 \notin Positions(r)
  BY PositionsAre
<1> QED BY <1>1 DEF Positions

(* A request whose assessments and routing stay as they are.               *)
LEMMA LastWinsKept ==
  ASSUME NEW r, LastWins(r), work'[r] = work[r], itemRouting'[r] = itemRouting[r]
  PROVE  LastWins(r)'
<1>1. \A i : HandOffsFor(r, i)' = HandOffsFor(r, i)
  BY DEF HandOffsFor, Positions
<1> QED BY <1>1 DEF LastWins

LEMMA RoutingKept ==
  ASSUME NEW r, Reached(r), LastWins(r), HandedOver \subseteq HandedOver',
         work'[r] = work[r], itemRouting'[r] = itemRouting[r],
         packRouting'[r] = packRouting[r]
  PROVE  Reached(r)' /\ LastWins(r)'
<1>1. Positions(r)' = Positions(r)
  BY DEF Positions
<1>2. Reached(r)'
  BY <1>1 DEF Reached, Pack
<1> QED BY <1>2, LastWinsKept

(* What a step of one thread leaves alone, concluded.                      *)
LEMMA OthersKeepAll ==
  ASSUME TypeInv, NEW r \in Request, Serve(r), NEW q \in Request \ {r}
  PROVE  /\ pc'[q] = pc[q] /\ pos'[q] = pos[q] /\ serious'[q] = serious[q]
         /\ work'[q] = work[q] /\ draft'[q] = draft[q]
         /\ itemRouting'[q] = itemRouting[q] /\ packRouting'[q] = packRouting[q]
<1>1. draft'[q] = draft[q]
  BY DEF Serve, Validate, TopicDeclared, ItemRejected, Retrieve, Narrate, Normalise,
         WriteItemAudit, RecordCase, RouteItem, ShowRouting, CoverNote, WritePackAudit,
         RoutePack, Reply, PortFails, LateFailure, TypeInv, TypeOK
<1>2. itemRouting'[q] = itemRouting[q] /\ packRouting'[q] = packRouting[q]
  BY DEF Serve, Validate, TopicDeclared, ItemRejected, Retrieve, Narrate, Normalise,
         WriteItemAudit, RecordCase, RouteItem, ShowRouting, CoverNote, WritePackAudit,
         RoutePack, Reply, PortFails, LateFailure, TypeInv, TypeOK
<1> QED BY <1>1, <1>2, OthersKeep

(* A thread writes records of its own item and pack only.                  *)
LEMMA OwnRecords ==
  ASSUME NEW r \in Request, Serve(r), NEW q \in Request \ {r}, NEW p, NEW d
  PROVE  AuditedIn(audit', <<q, p>>, d) <=> AuditedIn(audit, <<q, p>>, d)
<1>1. \/ audit' = audit
      \/ \E n \in {pos[r], 0} : \E a, e : audit' = audit \cup {Event(<<r, n>>, a, e)}
  BY DEF Serve, Validate, TopicDeclared, ItemRejected, Retrieve, Narrate, Normalise,
         WriteItemAudit, RecordCase, RouteItem, ShowRouting, CoverNote, WritePackAudit,
         RoutePack, Reply, PortFails, LateFailure, Unanswered, WriteAudit, This, Pack, shared
<1>2. \A n, a, e, x : Event(<<q, p>>, x, d) # Event(<<r, n>>, a, e)
  BY DEF Event
<1> QED BY <1>1, <1>2 DEF AuditedIn

LEMMA OthersFlow ==
  ASSUME TypeInv, NEW r \in Request, Serve(r), NEW q \in Request \ {r}, Flow(q)
  PROVE  Flow(q)'
<1>1. /\ pc'[q] = pc[q] /\ pos'[q] = pos[q] /\ serious'[q] = serious[q]
      /\ work'[q] = work[q] /\ draft'[q] = draft[q]
      /\ itemRouting'[q] = itemRouting[q] /\ packRouting'[q] = packRouting[q]
  BY OthersKeepAll
<1>2. \A p, d : AuditedIn(audit', <<q, p>>, d) <=> AuditedIn(audit, <<q, p>>, d)
  BY OwnRecords
<1>3. outbox \subseteq outbox' /\ (<<q, 0>> \in outbox' => <<q, 0>> \in outbox)
  <2>1. \A o \in outbox' \ outbox : o = <<r, pos[r]>> \/ o = <<r, 0>>
    BY OutboxServe DEF This, Pack
  <2>2. <<q, 0>> # <<r, pos[r]>> /\ <<q, 0>> # <<r, 0>>
    OBVIOUS
  <2> QED BY <2>1, <2>2, OutboxServe
<1>4. HandedOver \subseteq HandedOver'
  BY HandedOverGrows DEF Next
<1>5. \A p, d : Audited(<<q, p>>, d)' <=> Audited(<<q, p>>, d)
  BY <1>2 DEF Audited, AuditedIn
<1>6. Found(q)' /\ Current(q)' /\ Counted(q)'
  BY <1>1 DEF Flow, Found, Current, Counted
<1>7. Assessed(q)' /\ NotAhead(q)'
  BY <1>1, <1>5 DEF Flow, Assessed, NotAhead, Positions
<1>8. PackInv(q)'
  BY <1>1, <1>3, <1>5 DEF Flow, PackInv, Pack, Positions
<1>9. Reached(q)' /\ LastWins(q)'
  BY <1>1, <1>4, RoutingKept DEF Flow
<1> QED BY <1>6, <1>7, <1>8, <1>9 DEF Flow

LEMMA FlowInit == Init => FlowInv
<1> SUFFICES ASSUME Init PROVE FlowInv
  OBVIOUS
<1>1. SafeInv
  BY SafeInit
<1>2. ASSUME NEW r \in Request PROVE Flow(r)
  <2>1. pc[r] = "received" /\ work[r] = << >> /\ audit = {} /\ outbox = {}
        /\ packRouting[r] = "none" /\ \A i \in ItemRef : itemRouting[r][i] = "none"
    BY DEF Init
  <2>2. Positions(r) = {} /\ Len(work[r]) = 0
    BY <1>1, <2>1, PositionsAre DEF SafeInv
  <2>3. Len(ItemsOf[r]) \in Nat
    BY FlowAssumption
  <2>4. LastWins(r)
    BY <2>1, <2>2 DEF LastWins, HandOffsFor
  <2> QED
    BY <2>1, <2>2, <2>3, <2>4
       DEF Flow, Found, Assessed, Current, NotAhead, Counted, PackInv, Reached,
           Audited, Stopped, Rolled
<1> QED BY <1>1, <1>2 DEF FlowInv

-----------------------------------------------------------------------------
(* Steps that only move the thread on.                                     *)
LEMMA QuietFlow ==
  ASSUME TypeInv, NEW r \in Request, Flow(r),
         UNCHANGED <<pos, work, itemRouting, packRouting, outbox, lost>>,
         \A p : \A d \in Outspoken :
           AuditedIn(audit', <<r, p>>, d) <=> AuditedIn(audit, <<r, p>>, d),
         Found(r)',
         pc[r] \notin Stopped,
         pc'[r] \notin {"record", "route", "show", "pack route", "reply"},
         pc'[r] \in Rolled => pc[r] \in Rolled,
         pc'[r] = "answered" => pc[r] = "reply",
         pc[r] \in {"record", "route"} => pc'[r] \in Stopped,
         pc[r] \in {"pack route", "reply", "answered"} => pc'[r] = "answered"
  PROVE  Flow(r)'
<1>1. \A p : \A d \in Outspoken : Audited(<<r, p>>, d)' <=> Audited(<<r, p>>, d)
  BY DEF Audited, AuditedIn
<1>2. Assessed(r)'
  BY <1>1 DEF Flow, Assessed, Positions, Outspoken, Stopped
<1>3. Current(r)' /\ Counted(r)'
  BY DEF Flow, Current, Counted
<1>4. NotAhead(r)'
  BY <1>1 DEF Flow, NotAhead, Positions, Outspoken
<1>5. PackInv(r)'
  BY <1>1 DEF Flow, PackInv, Pack, Positions, Outspoken, Stopped
<1>6. Reached(r)' /\ LastWins(r)'
  BY RoutingKept DEF Flow, HandedOver
<1> QED BY <1>2, <1>3, <1>4, <1>5, <1>6 DEF Flow

LEMMA QuietServe ==
  ASSUME TypeInv, NEW r \in Request, Flow(r),
         \/ Validate(r) \/ TopicDeclared(r) \/ ItemRejected(r) \/ Retrieve(r)
         \/ Narrate(r) \/ Normalise(r) \/ CoverNote(r) \/ Reply(r) \/ PortFails(r)
  PROVE  Flow(r)'
<1>1. UNCHANGED <<pos, work, itemRouting, packRouting, outbox, lost>>
  BY DEF Validate, TopicDeclared, ItemRejected, Retrieve, Narrate, Normalise, CoverNote,
         Reply, PortFails, shared
<1>2. \/ audit' = audit
      \/ \E o, a : audit' = audit \cup {Event(o, a, "BLOCKED")}
  BY DEF Validate, TopicDeclared, ItemRejected, Retrieve, Narrate, Normalise, CoverNote,
         Reply, PortFails, shared, Unanswered, WriteAudit
<1>3. \A p : \A d \in Outspoken :
        AuditedIn(audit', <<r, p>>, d) <=> AuditedIn(audit, <<r, p>>, d)
  BY <1>2, BlockedSaysNothing
<1>4. Found(r)'
  BY DEF Validate, TopicDeclared, ItemRejected, Retrieve, Narrate, Normalise, CoverNote,
         Reply, PortFails, Abandon, GoTo, Found, Flow, TypeInv, TypeOK, At
<1>5. /\ pc[r] \notin Stopped
      /\ pc'[r] \notin {"record", "route", "show", "pack route", "reply"}
      /\ pc'[r] \in Rolled => pc[r] \in Rolled
      /\ pc'[r] = "answered" => pc[r] = "reply"
      /\ pc[r] \in {"record", "route"} => pc'[r] \in Stopped
      /\ pc[r] \in {"pack route", "reply", "answered"} => pc'[r] = "answered"
  BY DEF Validate, TopicDeclared, ItemRejected, Retrieve, Narrate, Normalise, CoverNote,
         Reply, PortFails, Abandon, GoTo, TypeInv, TypeOK, At, Stopped, Rolled, InAssessItem
<1> QED BY <1>1, <1>3, <1>4, <1>5, QuietFlow

-----------------------------------------------------------------------------
(* The assessment is made and recorded.                                    *)
LEMMA ItemAuditFlow ==
  ASSUME TypeInv, NEW r \in Request, Flow(r), WriteItemAudit(r)
  PROVE  Flow(r)'
<1> DEFINE a == [draft |-> draft[r], serious |-> serious[r], handoff |-> "none"]
<1>1. /\ pc[r] = "audit" /\ pc'[r] = "record" /\ pos[r] \in Items(r)
      /\ Len(work[r]) = pos[r] - 1 /\ pos[r] \in Nat
      /\ UNCHANGED <<pos, draft, serious, itemRouting, packRouting, outbox, lost>>
  BY DEF WriteItemAudit, At, GoTo, TypeInv, TypeOK, Progress
<1>2. work'[r] = Append(work[r], a) /\ work[r] \in Seq(Assessment) /\ a \in Assessment
  BY DEF WriteItemAudit, TypeInv, TypeOK, Assessment
<1>3. /\ Len(work'[r]) = pos[r]
      /\ \A p \in 1..Len(work[r]) : work'[r][p] = work[r][p]
      /\ work'[r][pos[r]] = a
  BY <1>1, <1>2
<1>4. /\ Positions(r) = 1..(pos[r] - 1)
      /\ Positions(r)' = 1..pos[r]
  <2>1. TypeInv'
    BY ItemAuditType
  <2> QED BY <1>1, <1>2, <1>3 DEF Positions
<1>5. \A p, d : Audited(<<r, p>>, d)' <=>
        Audited(<<r, p>>, d) \/ (p = pos[r] /\ d = DecisionOf(r))
  <2>1. audit' = audit \cup {Event(<<r, pos[r]>>, "assess_item", DecisionOf(r))}
    BY DEF WriteItemAudit, WriteAudit, This
  <2> QED BY <2>1, OneMore DEF Audited, AuditedIn
<1>6. \A d \in {"ESCALATED", "ALLOWED"} : ~Audited(<<r, pos[r]>>, d)
  BY <1>1, <1>4 DEF Flow, NotAhead, Stopped
<1>7. Assessed(r)'
  <2> SUFFICES ASSUME NEW p \in 1..pos[r]
               PROVE  /\ work'[r][p].draft # "model" => work'[r][p].serious
                      /\ work'[r][p].handoff # "none" => work'[r][p].serious
                      /\ Audited(<<r, p>>, "ESCALATED")' <=> work'[r][p].serious
                      /\ ~work'[r][p].serious => Audited(<<r, p>>, "ALLOWED")'
                      /\ \/ work'[r][p].serious => work'[r][p].handoff # "none"
                         \/ p = pos[r]
    BY <1>1, <1>4 DEF Assessed
  <2>1. CASE p = pos[r]
    BY <2>1, <1>1, <1>3, <1>5, <1>6 DEF DecisionOf, Flow, Found
  <2>2. CASE p # pos[r]
    <3>1. p \in Positions(r) /\ work'[r][p] = work[r][p]
      BY <2>2, <1>1, <1>3, <1>4
    <3> QED BY <2>2, <3>1, <1>1, <1>5 DEF Flow, Assessed, Stopped
  <2> QED BY <2>1, <2>2
<1>8. Found(r)' /\ Current(r)' /\ Counted(r)'
  BY <1>1, <1>3, FlowAssumption DEF Found, Current, Counted, Rolled, Items
<1>9. NotAhead(r)'
  BY <1>1, <1>4, <1>5 DEF Flow, NotAhead, Stopped
<1>10. PackInv(r)'
  BY <1>1, <1>5 DEF Flow, PackInv, Pack, Items, Stopped
<1>11. Reached(r)' /\ LastWins(r)'
  <2>1. /\ HandedOver' = HandedOver
        /\ itemRouting' = itemRouting /\ packRouting' = packRouting
    BY <1>1 DEF HandedOver
  <2>2. \A p \in Positions(r)' :
          \/ p \in Positions(r) /\ work'[r][p] = work[r][p]
          \/ work'[r][p].handoff = "none"
    BY <1>1, <1>3, <1>4
  <2>3. \A p \in Positions(r) : p \in Positions(r)' /\ work'[r][p] = work[r][p]
    BY <1>1, <1>3, <1>4
  <2>4. Reached(r)'
    BY <2>1, <2>2 DEF Flow, Reached, Pack
  <2>5. \A i : HandOffsFor(r, i)' = HandOffsFor(r, i)
    BY <2>2, <2>3 DEF HandOffsFor
  <2>6. \A i : \A p \in HandOffsFor(r, i) : work'[r][p] = work[r][p]
    BY <2>3 DEF HandOffsFor
  <2>7. LastWins(r)'
    BY <2>1, <2>5, <2>6 DEF Flow, LastWins
  <2> QED BY <2>4, <2>7
<1> QED BY <1>7, <1>8, <1>9, <1>10, <1>11 DEF Flow

-----------------------------------------------------------------------------
(* The row goes to the board, and the thread to the router or on.          *)
LEMMA RecordFlow ==
  ASSUME TypeInv, NEW r \in Request, Flow(r), RecordCase(r) \/ ShowRouting(r)
  PROVE  Flow(r)'
<1>1. /\ pc[r] \in {"record", "show"} /\ pos[r] \in Items(r) /\ Len(work[r]) = pos[r]
      /\ UNCHANGED <<draft, serious, work, itemRouting, packRouting, audit, outbox, lost>>
  BY DEF RecordCase, ShowRouting, At, TypeInv, Progress
<1>2. /\ Positions(r)' = Positions(r)
      /\ pos[r] \in Positions(r)
      /\ \A p, d : Audited(<<r, p>>, d)' <=> Audited(<<r, p>>, d)
  BY <1>1, PositionsAre DEF Positions, Audited, Items
<1>3. \/ /\ pc[r] = "record" /\ serious[r] /\ pc'[r] = "route" /\ pos' = pos
      \/ /\ pc[r] = "record" => ~serious[r]
         /\ pc'[r] = "topic" \/ (pc'[r] = "pack" /\ ~(pos[r] < Len(ItemsOf[r])))
  BY DEF RecordCase, ShowRouting, NextItem, GoTo, At, TypeInv, TypeOK
<1>4. Assessed(r)'
  <2>1. pc'[r] # "route" =>
          \A p \in Positions(r) : work[r][p].serious => work[r][p].handoff # "none"
    BY <1>1, <1>3 DEF Flow, Assessed, Current, Stopped
  <2> QED BY <1>1, <1>2, <1>3, <2>1 DEF Flow, Assessed, Stopped
<1>5. Found(r)' /\ Current(r)'
  BY <1>1, <1>3 DEF Flow, Found, Current
<1>6. Counted(r)'
  <2>1. pc'[r] = "pack" => Len(work[r]) = Len(ItemsOf[r])
    BY <1>1, <1>3, ItemsAre
  <2>2. pc'[r] \in Rolled => pc'[r] = "pack"
    BY <1>3 DEF Rolled
  <2> QED BY <1>1, <2>1, <2>2 DEF Flow, Counted
<1>7. NotAhead(r)'
  BY <1>1, <1>2 DEF Flow, NotAhead, Stopped
<1>8. PackInv(r)'
  BY <1>1, <1>2, <1>3 DEF Flow, PackInv, Pack, Stopped
<1>9. Reached(r)' /\ LastWins(r)'
  BY <1>1, RoutingKept DEF Flow, HandedOver
<1> QED BY <1>4, <1>5, <1>6, <1>7, <1>8, <1>9 DEF Flow

(* What RouteItem leaves of the assessment it hands off.                   *)
LEMMA RouteItemKeeps ==
  ASSUME TypeInv, NEW r \in Request, NEW how \in HandOffs, pc[r] = "route",
         work' = [work EXCEPT ![r][pos[r]].handoff = how]
  PROVE  /\ Positions(r)' = Positions(r) /\ pos[r] \in Positions(r)
         /\ \A p \in Positions(r) :
              /\ work'[r][p].serious = work[r][p].serious
              /\ work'[r][p].draft = work[r][p].draft
              /\ work'[r][p].handoff = IF p = pos[r] THEN how ELSE work[r][p].handoff
<1>1. work[r] \in Seq(Assessment) /\ pos[r] \in 1..Len(work[r])
  BY DEF TypeInv, TypeOK, Progress
<1>2. work'[r] = [work[r] EXCEPT ![pos[r]] = [@ EXCEPT !.handoff = how]]
  BY DEF TypeInv, TypeOK
<1>3. \A p \in 1..Len(work[r]) : work[r][p] \in Assessment
  BY <1>1
<1>4. \A b, c : b \in Assessment /\ c = [b EXCEPT !.handoff = how] =>
        c.serious = b.serious /\ c.draft = b.draft /\ c.handoff = how
  BY DEF Assessment
<1>5. DOMAIN work'[r] = DOMAIN work[r] /\ DOMAIN work[r] = 1..Len(work[r])
  BY <1>1, <1>2
<1>6. \A p \in 1..Len(work[r]) :
        work'[r][p] = IF p = pos[r] THEN [work[r][p] EXCEPT !.handoff = how] ELSE work[r][p]
  BY <1>1, <1>2
<1>7. \A p \in 1..Len(work[r]) :
        /\ work'[r][p].serious = work[r][p].serious
        /\ work'[r][p].draft = work[r][p].draft
        /\ work'[r][p].handoff = IF p = pos[r] THEN how ELSE work[r][p].handoff
  <2> TAKE p \in 1..Len(work[r])
  <2>1. CASE p = pos[r]
    <3>1. work'[r][p] = [work[r][p] EXCEPT !.handoff = how]
      BY <1>6, <2>1
    <3>2. work[r][p] \in Assessment
      BY <1>3
    <3>3. /\ work'[r][p].serious = work[r][p].serious
          /\ work'[r][p].draft = work[r][p].draft
          /\ work'[r][p].handoff = how
      BY <1>4, <3>1, <3>2
    <3> QED BY <2>1, <3>3
  <2>2. CASE p # pos[r]
    BY <1>6, <2>2
  <2> QED BY <2>1, <2>2
<1> QED BY <1>1, <1>5, <1>7 DEF Positions

LEMMA RouteItemFlow ==
  ASSUME TypeInv, Trailed, NEW r \in Request, Flow(r), RouteItem(r)
  PROVE  Flow(r)'
<1>1. PICK how \in HandOffs :
        /\ Route(This(r), how)
        /\ work' = [work EXCEPT ![r][pos[r]].handoff = how]
        /\ itemRouting' = [itemRouting EXCEPT ![r][Item(r)] = how]
  BY DEF RouteItem
<1>2. /\ pc[r] = "route" /\ pc'[r] = "show" /\ pos[r] \in Items(r)
      /\ UNCHANGED <<pos, draft, serious, packRouting, audit, lost>>
  BY DEF RouteItem, At, GoTo, TypeInv, TypeOK, Progress
<1>3. /\ Positions(r)' = Positions(r) /\ pos[r] \in Positions(r)
      /\ \A p \in Positions(r) :
           /\ work'[r][p].serious = work[r][p].serious
           /\ work'[r][p].draft = work[r][p].draft
           /\ work'[r][p].handoff = IF p = pos[r] THEN how ELSE work[r][p].handoff
      /\ Len(work'[r]) = Len(work[r])
  BY <1>1, <1>2, RouteItemKeeps, RouteItemWork
<1>4. /\ how # "none"
      /\ \A i \in ItemRef : itemRouting'[r][i] = IF i = Item(r) THEN how ELSE itemRouting[r][i]
  BY <1>1 DEF HandOffs, TypeInv, TypeOK
<1>5. /\ outbox \subseteq outbox' /\ outbox' \subseteq outbox \cup {<<r, pos[r]>>}
      /\ how = "routed" => <<r, pos[r]>> \in outbox'
  BY <1>1 DEF Route, HandOffs, This
<1>6. \A p, d : Audited(<<r, p>>, d)' <=> Audited(<<r, p>>, d)
  BY <1>2 DEF Audited
<1>7. work[r][pos[r]].serious
  BY <1>2 DEF Flow, Current, Trailed
<1>8. Assessed(r)'
  <2> SUFFICES ASSUME NEW p \in Positions(r)
               PROVE  /\ work'[r][p].draft # "model" => work'[r][p].serious
                      /\ work'[r][p].handoff # "none" => work'[r][p].serious
                      /\ Audited(<<r, p>>, "ESCALATED")' <=> work'[r][p].serious
                      /\ ~work'[r][p].serious => Audited(<<r, p>>, "ALLOWED")'
                      /\ work'[r][p].serious => work'[r][p].handoff # "none"
    BY <1>3 DEF Assessed
  <2>1. CASE p = pos[r]
    BY <1>3, <1>4, <1>6, <1>7, <2>1 DEF Flow, Assessed
  <2>2. CASE p # pos[r]
    BY <1>2, <1>3, <1>6, <2>2 DEF Flow, Assessed, Stopped
  <2> QED BY <2>1, <2>2
<1>9. Found(r)' /\ Current(r)' /\ Counted(r)'
  BY <1>2, <1>3 DEF Flow, Found, Current, Counted, Rolled
<1>10. NotAhead(r)'
  BY <1>2, <1>3, <1>6 DEF Flow, NotAhead, Stopped
<1>11. PackInv(r)'
  <2>1. Pack(r) \notin outbox'
    BY <1>2, <1>5 DEF Flow, PackInv, Pack, Items
  <2> QED BY <1>2, <1>6, <2>1 DEF Flow, PackInv, Pack, Stopped
<1>12. Reached(r)'
  <2>1. HandedOver \subseteq HandedOver' /\ (how = "routed" => <<r, pos[r]>> \in HandedOver')
    BY <1>2, <1>5 DEF HandedOver
  <2> QED BY <1>2, <1>3, <2>1 DEF Flow, Reached, Pack
<1>13. LastWins(r)'
  <2> SUFFICES ASSUME NEW i \in ItemRef
               PROVE  \/ HandOffsFor(r, i)' = {} /\ itemRouting'[r][i] = "none"
                      \/ \E last \in HandOffsFor(r, i)' :
                           /\ \A p \in HandOffsFor(r, i)' : p <= last
                           /\ itemRouting'[r][i] = work'[r][last].handoff
    BY DEF LastWins
  <2>1. CASE i = Item(r)
    <3>1. pos[r] \in HandOffsFor(r, i)'
      BY <1>2, <1>3, <1>4, <2>1 DEF HandOffsFor, Item
    <3>2. \A p \in HandOffsFor(r, i)' : p <= pos[r]
      <4>1. Positions(r) = 1..pos[r]
        BY <1>2, PositionsAre DEF TypeInv, Progress
      <4> QED BY <1>3, <4>1 DEF HandOffsFor
    <3>3. itemRouting'[r][i] = work'[r][pos[r]].handoff
      BY <1>3, <1>4, <2>1
    <3> QED BY <3>1, <3>2, <3>3
  <2>2. CASE i # Item(r)
    <3>1. \A p \in Positions(r) :
            ItemsOf[r][p] = i => work'[r][p].handoff = work[r][p].handoff
      BY <1>3, <2>2 DEF Item
    <3>2. HandOffsFor(r, i)' = HandOffsFor(r, i)
      BY <1>3, <3>1 DEF HandOffsFor
    <3>3. \A p \in HandOffsFor(r, i) : work'[r][p].handoff = work[r][p].handoff
      BY <3>1 DEF HandOffsFor
    <3>4. itemRouting'[r][i] = itemRouting[r][i]
      BY <1>4, <2>2
    <3>5. LastWins(r)
      BY DEF Flow
    <3>6. CASE HandOffsFor(r, i) = {} /\ itemRouting[r][i] = "none"
      BY <3>2, <3>4, <3>6
    <3>7. CASE \E last \in HandOffsFor(r, i) :
                 /\ \A p \in HandOffsFor(r, i) : p <= last
                 /\ itemRouting[r][i] = work[r][last].handoff
      <4>1. PICK last \in HandOffsFor(r, i) :
                 /\ \A p \in HandOffsFor(r, i) : p <= last
                 /\ itemRouting[r][i] = work[r][last].handoff
        BY <3>7
      <4>2. itemRouting'[r][i] = work'[r][last].handoff
        BY <3>3, <3>4, <4>1
      <4> QED BY <3>2, <4>1, <4>2
    <3> QED BY <3>5, <3>6, <3>7 DEF LastWins
  <2> QED BY <2>1, <2>2
<1> QED BY <1>8, <1>9, <1>10, <1>11, <1>12, <1>13 DEF Flow

-----------------------------------------------------------------------------
LEMMA PackAuditFlow ==
  ASSUME TypeInv, NEW r \in Request, Flow(r), WritePackAudit(r)
  PROVE  Flow(r)'
<1>1. /\ pc[r] = "pack audit" /\ pc'[r] = "pack route"
      /\ UNCHANGED <<pos, draft, serious, work, itemRouting, packRouting, outbox, lost>>
      /\ audit' = audit \cup {Event(<<r, 0>>, "assemble_pack", "ESCALATED")}
  BY DEF WritePackAudit, At, GoTo, WriteAudit, Pack, TypeInv, TypeOK
<1>2. \A p, d : Audited(<<r, p>>, d)' <=>
        Audited(<<r, p>>, d) \/ (p = 0 /\ d = "ESCALATED")
  <2>1. \A p : <<r, p>> = <<r, 0>> <=> p = 0
    OBVIOUS
  <2>2. \A p, d : AuditedIn(audit', <<r, p>>, d) <=>
          AuditedIn(audit, <<r, p>>, d) \/ (<<r, p>> = <<r, 0>> /\ d = "ESCALATED")
    BY <1>1, OneMore
  <2> QED BY <2>1, <2>2 DEF Audited, AuditedIn
<1>3. 0 \notin Positions(r) /\ 0 \notin Items(r) /\ Positions(r)' = Positions(r)
  BY <1>1, NoZero, ItemsAre
<1>4. Assessed(r)'
  BY <1>1, <1>2, <1>3 DEF Flow, Assessed, Stopped
<1>5. Found(r)' /\ Current(r)' /\ Counted(r)'
  BY <1>1 DEF Flow, Found, Current, Counted, Rolled
<1>6. NotAhead(r)'
  BY <1>1, <1>2, <1>3 DEF Flow, NotAhead, Stopped
<1>7. PackInv(r)'
  <2>1. Pack(r) \notin outbox /\ packRouting[r] = "none" /\ ~Audited(<<r, 0>>, "ALLOWED")
    BY <1>1 DEF Flow, PackInv, Pack
  <2>2. Audited(<<r, 0>>, "ESCALATED")' /\ ~Audited(<<r, 0>>, "ALLOWED")'
    BY <1>2, <2>1
  <2> QED BY <1>1, <2>1, <2>2 DEF PackInv, Pack
<1>8. Reached(r)' /\ LastWins(r)'
  BY <1>1, RoutingKept DEF Flow, HandedOver
<1> QED BY <1>4, <1>5, <1>6, <1>7, <1>8 DEF Flow

LEMMA RoutePackFlow ==
  ASSUME TypeInv, NEW r \in Request, Flow(r), RoutePack(r)
  PROVE  Flow(r)'
<1>1. PICK how \in HandOffs :
        Route(Pack(r), how) /\ packRouting' = [packRouting EXCEPT ![r] = how]
  BY DEF RoutePack
<1>2. /\ pc[r] = "pack route" /\ pc'[r] = "reply"
      /\ UNCHANGED <<pos, draft, serious, work, itemRouting, audit, lost>>
  BY DEF RoutePack, At, GoTo, TypeInv, TypeOK
<1>3. packRouting'[r] = how /\ how # "none"
  BY <1>1 DEF HandOffs, TypeInv, TypeOK
<1>4. /\ outbox \subseteq outbox'
      /\ how = "routed" => Pack(r) \in outbox'
  BY <1>1 DEF Route, HandOffs
<1>5. /\ Positions(r)' = Positions(r)
      /\ \A p, d : Audited(<<r, p>>, d)' <=> Audited(<<r, p>>, d)
  BY <1>2 DEF Positions, Audited
<1>6. Assessed(r)'
  BY <1>2, <1>5 DEF Flow, Assessed, Stopped
<1>7. Found(r)' /\ Current(r)' /\ Counted(r)'
  BY <1>2 DEF Flow, Found, Current, Counted, Rolled
<1>8. NotAhead(r)'
  BY <1>2, <1>5 DEF Flow, NotAhead, Stopped
<1>9. PackInv(r)'
  <2>1. /\ Len(work[r]) = Len(ItemsOf[r])
        /\ \A p \in Positions(r) : work[r][p].serious => work[r][p].handoff # "none"
    BY <1>2 DEF Flow, Assessed, Counted, Rolled, Stopped
  <2> QED BY <1>2, <1>3, <1>5, <2>1 DEF Flow, PackInv, Pack, Stopped
<1>10. Reached(r)' /\ LastWins(r)'
  <2>1. Reached(r)'
    BY <1>2, <1>3, <1>4, <1>5 DEF Flow, Reached, Pack, HandedOver
  <2>2. LastWins(r)'
    BY <1>2, LastWinsKept DEF Flow
  <2> QED BY <2>1, <2>2
<1> QED BY <1>6, <1>7, <1>8, <1>9, <1>10 DEF Flow

(* The request stops where it stands, its last record on the trail.        *)
LEMMA LateFlow ==
  ASSUME TypeInv, NEW r \in Request, Flow(r), LateFailure(r)
  PROVE  Flow(r)'
<1>1. /\ pc'[r] \in {"failed", "rejected"}
      /\ UNCHANGED <<pos, draft, serious, work, itemRouting, packRouting, outbox, lost>>
      /\ pc[r] \in {"topic", "narrate", "normalise", "audit", "pack", "pack audit",
                    "record", "show"}
  BY DEF LateFailure, Abandon, GoTo, At, TypeInv, TypeOK
<1>2. \/ audit' = audit
      \/ \E o, a : audit' = audit \cup {Event(o, a, "BLOCKED")}
      \/ /\ pc[r] = "audit"
         /\ audit' = audit \cup {Event(<<r, pos[r]>>, "assess_item", DecisionOf(r))}
      \/ audit' = audit \cup {Event(<<r, 0>>, "assemble_pack", "ESCALATED")}
  BY DEF LateFailure, At, WriteAudit, This, Pack
<1>3. \A p : \A d \in Outspoken :
        Audited(<<r, p>>, d)' <=>
          \/ Audited(<<r, p>>, d)
          \/ /\ pc[r] = "audit" /\ p = pos[r]
             /\ Audited(<<r, p>>, d)'
          \/ p = 0 /\ d = "ESCALATED" /\ Audited(<<r, p>>, d)'
  <2>1. \A p : <<r, p>> = <<r, 0>> <=> p = 0
    OBVIOUS
  <2>2. \A p : \A d \in Outspoken :
          AuditedIn(audit', <<r, p>>, d) <=>
            \/ AuditedIn(audit, <<r, p>>, d)
            \/ /\ pc[r] = "audit" /\ p = pos[r]
               /\ AuditedIn(audit', <<r, p>>, d)
            \/ p = 0 /\ d = "ESCALATED" /\ AuditedIn(audit', <<r, p>>, d)
    <3>1. CASE audit' = audit
      BY <3>1
    <3>2. CASE \E o, a : audit' = audit \cup {Event(o, a, "BLOCKED")}
      BY <3>2, BlockedSaysNothing
    <3>3. CASE /\ pc[r] = "audit"
               /\ audit' = audit \cup {Event(<<r, pos[r]>>, "assess_item", DecisionOf(r))}
      <4>1. \A p : <<r, p>> = <<r, pos[r]>> <=> p = pos[r]
        OBVIOUS
      <4> QED BY <3>3, <4>1, OneMore
    <3>4. CASE audit' = audit \cup {Event(<<r, 0>>, "assemble_pack", "ESCALATED")}
      BY <2>1, <3>4, OneMore
    <3> QED BY <1>2, <3>1, <3>2, <3>3, <3>4
  <2> QED BY <2>2 DEF Audited, AuditedIn
<1>4. /\ 0 \notin Positions(r)
      /\ pc[r] = "audit" => pos[r] \notin Positions(r) /\ pos[r] # 0
      /\ Positions(r)' = Positions(r)
  <2>1. pc[r] = "audit" => pos[r] \notin 1..Len(work[r]) /\ pos[r] # 0
    BY DEF TypeInv, TypeOK, Progress
  <2> QED BY <1>1, <2>1, NoZero, PositionsAre
<1>5. Assessed(r)'
  <2>1. \A p \in Positions(r) : \A d \in Outspoken : Audited(<<r, p>>, d)' <=> Audited(<<r, p>>, d)
    BY <1>3, <1>4
  <2>2. pc'[r] \in Stopped
    BY <1>1 DEF Stopped
  <2> QED BY <1>1, <1>4, <2>1, <2>2 DEF Flow, Assessed, Outspoken
<1>6. Found(r)' /\ Current(r)' /\ Counted(r)'
  BY <1>1 DEF Flow, Found, Current, Counted, Rolled
<1>7. NotAhead(r)'
  BY <1>1 DEF NotAhead, Stopped
<1>8. PackInv(r)'
  BY <1>1, <1>3, <1>4 DEF Flow, PackInv, Pack, Stopped, Outspoken
<1>9. Reached(r)' /\ LastWins(r)'
  BY <1>1, RoutingKept DEF Flow, HandedOver
<1> QED BY <1>5, <1>6, <1>7, <1>8, <1>9 DEF Flow

(* The process dies: the threads in flight stop, and what a queue in       *)
(* memory held was handed over all the same.                               *)
LEMMA CrashFlow ==
  ASSUME TypeInv, NEW r \in Request, Flow(r), Crash
  PROVE  Flow(r)'
<1>1. /\ UNCHANGED <<pos, draft, serious, work, itemRouting, packRouting, audit>>
      /\ pc'[r] = IF pc[r] \in InFlight THEN "crashed" ELSE pc[r]
      /\ outbox' \subseteq outbox
      /\ pc[r] \in PC
  BY DEF Crash, TypeInv, TypeOK
<1>2. pc'[r] = pc[r] \/ pc'[r] = "crashed"
  BY <1>1
<1>3. pc'[r] = "crashed" \/ pc[r] \in {"received", "answered", "rejected", "failed"}
  BY <1>1 DEF PC, Settled
<1>4. /\ Positions(r)' = Positions(r)
      /\ \A p, d : Audited(<<r, p>>, d)' <=> Audited(<<r, p>>, d)
  BY <1>1 DEF Positions, Audited
<1>5. Assessed(r)'
  BY <1>1, <1>2, <1>4 DEF Flow, Assessed, Stopped
<1>6. Found(r)' /\ Current(r)' /\ Counted(r)'
  BY <1>1, <1>2 DEF Flow, Found, Current, Counted, Rolled
<1>7. NotAhead(r)'
  BY <1>1, <1>2, <1>4 DEF Flow, NotAhead, Stopped
<1>8. PackInv(r)'
  BY <1>1, <1>2, <1>4 DEF Flow, PackInv, Pack, Stopped
<1>9. Reached(r)' /\ LastWins(r)'
  <2>1. HandedOver \subseteq HandedOver'
    BY HandedOverGrows DEF Next
  <2> QED BY <1>1, <2>1, RoutingKept DEF Flow
<1> QED BY <1>5, <1>6, <1>7, <1>8, <1>9 DEF Flow

-----------------------------------------------------------------------------
LEMMA FlowServe ==
  ASSUME TypeInv, Trailed, NEW r \in Request, Serve(r), NEW q \in Request, Flow(q), Flow(r)
  PROVE  Flow(q)'
<1>1. CASE q = r
  <2>1. Flow(r)'
    BY QuietServe, ItemAuditFlow, RecordFlow, RouteItemFlow, PackAuditFlow, RoutePackFlow,
       LateFlow DEF Serve
  <2> QED BY <1>1, <2>1
<1>2. CASE q # r
  BY <1>2, OthersFlow
<1> QED BY <1>1, <1>2

LEMMA FlowStep == FlowInv /\ [Next]_vars => FlowInv'
<1> SUFFICES ASSUME FlowInv, [Next]_vars PROVE FlowInv'
  OBVIOUS
<1>1. SafeInv' /\ TypeInv /\ Trailed
  BY SafeStep DEF FlowInv, SafeInv
<1>2. ASSUME NEW q \in Request PROVE Flow(q)'
  <2>1. CASE \E r \in Request : Serve(r)
    BY <1>1, <2>1, FlowServe DEF FlowInv
  <2>2. CASE Crash
    BY <1>1, <2>2, CrashFlow DEF FlowInv
  <2>3. CASE UNCHANGED vars
    <3>1. Flow(q)
      BY DEF FlowInv
    <3> QED
      BY <2>3, <3>1
         DEF vars, local, shared, Flow, Found, Assessed, Current, NotAhead, Counted, PackInv,
             Reached, LastWins, HandOffsFor, HandedOver, Positions, Audited, Pack
  <2> QED BY <2>1, <2>2, <2>3 DEF Next, Idle
<1> QED BY <1>1, <1>2 DEF FlowInv

LEMMA FlowAlways == Spec => []FlowInv
BY FlowInit, FlowStep, PTL DEF Spec

(* Whatever fails, crashes or interleaves, an answered request has every   *)
(* serious item and its pack accounted for, tells of an item_ref asked     *)
(* about twice what became of its last escalation, and reports as routed   *)
(* only what the reviewers were given (response_pack).                     *)
THEOREM AnswersAccount == Spec => []AnswerAccountsForEscalations
<1>1. FlowInv => AnswerAccountsForEscalations
  <2> SUFFICES ASSUME FlowInv, NEW r \in Request, pc[r] = "answered"
               PROVE  /\ Positions(r) = Items(r)
                      /\ packRouting[r] # "none"
                      /\ Reached(r)
                      /\ \A p \in Positions(r) :
                           work[r][p].serious => work[r][p].handoff # "none"
                      /\ \A i \in ItemRef :
                           \/ Escalations(r, i) = {} /\ itemRouting[r][i] = "none"
                           \/ \E last \in Escalations(r, i) :
                                /\ \A p \in Escalations(r, i) : p <= last
                                /\ itemRouting[r][i] = work[r][last].handoff
    BY DEF AnswerAccountsForEscalations, Reached
  <2>1. Flow(r) /\ TypeInv
    BY DEF FlowInv, SafeInv
  <2>2. Positions(r) = Items(r)
    BY <2>1, PositionsAre, ItemsAre DEF Flow, Counted, Rolled
  <2>3. packRouting[r] # "none" /\ Reached(r)
    BY <2>1 DEF Flow, PackInv
  <2>4. \A p \in Positions(r) : work[r][p].serious <=> work[r][p].handoff # "none"
    BY <2>1 DEF Flow, Assessed, Stopped
  <2>5. \A i : Escalations(r, i) = HandOffsFor(r, i)
    BY <2>4 DEF Escalations, HandOffsFor
  <2> QED BY <2>1, <2>2, <2>3, <2>4, <2>5 DEF Flow, LastWins
<1> QED BY <1>1, FlowAlways, PTL

(* The checker is never given a pack before each serious item in it, and   *)
(* each item standing on no model text, has gone to a reviewer of its own. *)
THEOREM PackComesLast == Spec => []PackFollowsItsExceptions
<1>1. FlowInv => PackFollowsItsExceptions
  <2> SUFFICES ASSUME FlowInv, NEW r \in Request, Pack(r) \in outbox
               PROVE  /\ Positions(r) = Items(r)
                      /\ \A p \in Positions(r) :
                           work[r][p].serious \/ work[r][p].draft # "model" =>
                             work[r][p].handoff # "none"
    BY DEF PackFollowsItsExceptions
  <2>1. Flow(r) /\ TypeInv
    BY DEF FlowInv, SafeInv
  <2>2. Positions(r) = Items(r)
    BY <2>1, PositionsAre, ItemsAre DEF Flow, PackInv
  <2> QED BY <2>1, <2>2 DEF Flow, PackInv, Assessed
<1> QED BY <1>1, FlowAlways, PTL

-----------------------------------------------------------------------------
(***************************************************************************)
(* The board against the hand-offs: RowShowsRouting, said of the rows of   *)
(* items, which are the only ones there are.                               *)
(***************************************************************************)
RowsAreItems ==
  \A k \in Key : board[k] # NoRow =>
    \E r \in Request : \E p \in Items(r) : board[k].by = <<r, p>>

Shows(k) ==
  board[k] # NoRow =>
    \A r \in Request : \A p \in Items(r) :
      board[k].by = <<r, p>> /\ pos[r] > p =>
        (board[k].reviewRef = <<r, p>> <=> work[r][p].handoff = "routed")

ShowInv == FlowInv /\ RowsAreItems /\ \A k \in Key : Shows(k)

LEMMA ShowInit == Init => ShowInv
<1> SUFFICES ASSUME Init PROVE ShowInv
  OBVIOUS
<1>1. \A k \in Key : board[k] = NoRow
  BY DEF Init
<1> QED BY <1>1, FlowInit DEF ShowInv, RowsAreItems, Shows

(* A thread goes on to the next item only in the step that writes the row  *)
(* of this one, and that row shows its hand-off.                           *)
LEMMA MovesOnShown ==
  ASSUME FlowInv, NEW r \in Request, Serve(r), pos'[r] # pos[r]
  PROVE  /\ pos[r] \in Items(r) /\ pos'[r] = pos[r] + 1 /\ work' = work
         /\ board'[KeyOf(This(r))].reviewRef = This(r)
              <=> work[r][pos[r]].handoff = "routed"
<1>1. TypeInv /\ Flow(r)
  BY DEF FlowInv, SafeInv
<1>2. PICK ref \in {NoRef, Reference(r)} :
        /\ Upsert(r, ref) /\ NextItem(r) /\ work' = work
        /\ \/ pc[r] = "record" /\ ref = NoRef
           \/ pc[r] = "show" /\ ref = Reference(r)
  BY DEF Serve, Validate, TopicDeclared, ItemRejected, Retrieve, Narrate,
         Normalise, WriteItemAudit, RecordCase, RouteItem, ShowRouting,
         CoverNote, WritePackAudit, RoutePack, Reply, PortFails, LateFailure, At
<1>3. pos[r] \in Items(r) /\ pos'[r] = pos[r] + 1
  BY <1>1, <1>2 DEF TypeInv, TypeOK, Progress, NextItem
<1>4. This(r) \in Outcome /\ KeyOf(This(r)) \in Key
  BY <1>3, OutcomeIntro, ItemCase DEF This
<1>5. board'[KeyOf(This(r))] =
        [by |-> This(r), serious |-> serious[r], reviewRef |-> ref]
  BY <1>1, <1>2, <1>4 DEF Upsert, TypeInv, TypeOK
<1>6. ref = This(r) <=> work[r][pos[r]].handoff = "routed"
  <2>1. NoRef # This(r)
    BY <1>4, NoValueAssumption
  <2>2. pc[r] = "record" => work[r][pos[r]].handoff = "none"
    BY <1>1 DEF Flow, Current
  <2> QED BY <1>2, <2>1, <2>2 DEF Reference, At
<1> QED BY <1>2, <1>3, <1>5, <1>6

(* What was made of an item the thread is past stays as it is.             *)
LEMMA PastKept ==
  ASSUME TypeInv, NEW r \in Request, Serve(r), NEW p \in Items(r), p < pos[r]
  PROVE  work'[r][p].handoff = work[r][p].handoff
<1>1. p \in Nat \ {0} /\ pos[r] \in Nat
  <2>1. p \in Nat \ {0}
    BY ItemsAre
  <2> QED BY <2>1 DEF TypeInv, TypeOK
<1>2. CASE WriteItemAudit(r)
  <2>1. Len(work[r]) = pos[r] - 1 /\ work[r] \in Seq(Assessment)
    BY <1>2 DEF WriteItemAudit, At, TypeInv, TypeOK, Progress
  <2>2. PICK a \in Assessment : work'[r] = Append(work[r], a)
    BY <1>2 DEF WriteItemAudit, TypeInv, TypeOK, Assessment
  <2>3. p \in 1..Len(work[r])
    BY <1>1, <2>1
  <2> QED BY <2>1, <2>2, <2>3
<1>3. CASE RouteItem(r)
  <2>1. PICK how \in HandOffs : work' = [work EXCEPT ![r][pos[r]].handoff = how]
    BY <1>3 DEF RouteItem
  <2>2. pc[r] = "route" /\ Len(work[r]) = pos[r]
    BY <1>3 DEF RouteItem, At, TypeInv, Progress
  <2>3. p \in Positions(r) /\ p # pos[r]
    BY <1>1, <2>2, PositionsAre
  <2> QED BY <2>1, <2>2, <2>3, RouteItemKeeps
<1>4. CASE ~WriteItemAudit(r) /\ ~RouteItem(r)
  <2>1. work' = work
    BY <1>4
       DEF Serve, Validate, TopicDeclared, ItemRejected, Retrieve, Narrate,
           Normalise, RecordCase, ShowRouting, CoverNote, WritePackAudit,
           RoutePack, Reply, PortFails, LateFailure
  <2> QED BY <2>1
<1> QED BY <1>2, <1>3, <1>4

LEMMA ShowServe ==
  ASSUME ShowInv, RowIsOneAssessment', NEW r \in Request, Serve(r)
  PROVE  RowsAreItems' /\ \A k \in Key : Shows(k)'
<1>1. FlowInv /\ SafeInv /\ TypeInv
  BY DEF ShowInv, FlowInv, SafeInv
<1>2. \A k \in Key : board'[k] # board[k] =>
        pos[r] \in Items(r) /\ board'[k].by = <<r, pos[r]>>
  <2>1. \A k \in Key : board'[k] # board[k] =>
          pc[r] \in {"record", "show"} /\ board'[k].by = <<r, pos[r]>>
    BY <1>1, BoardServe DEF SafeInv, This
  <2> QED BY <1>1, <2>1 DEF TypeInv, Progress
<1>3. RowsAreItems'
  <2> SUFFICES ASSUME NEW k \in Key, board'[k] # NoRow
               PROVE  \E q \in Request : \E p \in Items(q) : board'[k].by = <<q, p>>
    BY DEF RowsAreItems, Items
  <2>1. CASE board'[k] = board[k]
    BY <2>1 DEF ShowInv, RowsAreItems
  <2>2. CASE board'[k] # board[k]
    BY <1>2, <2>2
  <2> QED BY <2>1, <2>2
<1>4. ASSUME NEW k \in Key, board'[k] # NoRow, NEW q \in Request,
             NEW p \in Items(q), board'[k].by = <<q, p>>, pos'[q] > p
      PROVE  board'[k].reviewRef = <<q, p>> <=> work'[q][p].handoff = "routed"
  <2>1. p \in Nat /\ pos[q] \in Nat
    <3>1. p \in Nat
      BY ItemsAre
    <3>2. pos[q] \in Nat
      BY <1>1 DEF TypeInv, TypeOK
    <3> QED BY <3>1, <3>2
  <2>2. CASE q = r /\ pos'[r] # pos[r] /\ p = pos[r]
    <3>1. k = KeyOf(This(r))
      BY <1>4, <2>2 DEF RowIsOneAssessment, KeyOf, This
    <3> QED BY <1>1, <2>2, <3>1, MovesOnShown DEF This
  <2>3. CASE ~(q = r /\ pos'[r] # pos[r] /\ p = pos[r])
    <3>1. pos[q] > p
      <4>1. CASE q # r
        BY <1>1, <1>4, <4>1, OthersKeep
      <4>2. CASE q = r
        <5>1. pos'[r] = pos[r] \/ pos'[r] = pos[r] + 1
          BY <1>1, MovesOnShown
        <5> QED BY <1>4, <2>1, <2>3, <4>2, <5>1
      <4> QED BY <4>1, <4>2
    <3>2. board'[k] = board[k]
      <4>1. CASE q # r
        BY <1>2, <1>4, <4>1
      <4>2. CASE q = r
        <5>1. p # pos[r]
          BY <2>1, <3>1, <4>2
        <5> QED BY <1>2, <1>4, <4>2, <5>1
      <4> QED BY <4>1, <4>2
    <3>3. work'[q][p].handoff = work[q][p].handoff
      <4>1. CASE q # r
        BY <1>1, <4>1, OthersKeep
      <4>2. CASE q = r
        <5>1. p < pos[r]
          BY <2>1, <3>1, <4>2
        <5> QED BY <1>1, <4>2, <5>1, PastKept
      <4> QED BY <4>1, <4>2
    <3>4. Shows(k)
      BY DEF ShowInv
    <3> QED BY <1>4, <3>1, <3>2, <3>3, <3>4 DEF Shows
  <2> QED BY <2>2, <2>3
<1>5. ASSUME NEW k \in Key PROVE Shows(k)'
  BY <1>4 DEF Shows, Items
<1> QED BY <1>3, <1>5

LEMMA ShowStep == ShowInv /\ [Next]_vars => ShowInv'
<1> SUFFICES ASSUME ShowInv, [Next]_vars PROVE ShowInv'
  OBVIOUS
<1>1. FlowInv'
  BY FlowStep DEF ShowInv
<1>2. RowIsOneAssessment'
  BY <1>1 DEF FlowInv, SafeInv
<1>3. CASE \E r \in Request : Serve(r)
  BY <1>1, <1>2, <1>3, ShowServe DEF ShowInv
<1>4. CASE Crash \/ UNCHANGED vars
  <2>1. pos' = pos /\ work' = work
    BY <1>4 DEF Crash, vars, local
  <2>2. \A k \in Key : board'[k] = board[k] \/ board'[k] = NoRow
    BY <1>4 DEF Crash, vars, shared
  <2>3. RowsAreItems'
    BY <2>2 DEF ShowInv, RowsAreItems, Items
  <2>4. ASSUME NEW k \in Key PROVE Shows(k)'
    <3>1. Shows(k)
      BY DEF ShowInv
    <3> QED BY <2>1, <2>2, <3>1 DEF Shows, Items
  <2> QED BY <1>1, <2>3, <2>4 DEF ShowInv
<1> QED BY <1>3, <1>4 DEF Next, Idle

(* However two requests interleave on a case and item, and whatever fails  *)
(* or crashes, the row of an assessment its request has gone past carries  *)
(* a reference exactly when that assessment was routed (response_pack's    *)
(* second record_case).                                                    *)
THEOREM RowsShowRouting == Spec => []RowShowsRouting
<1>1. ShowInv => RowShowsRouting
  <2> SUFFICES ASSUME ShowInv, NEW k \in Key, board[k] # NoRow,
                      pos[board[k].by[1]] > board[k].by[2]
               PROVE  board[k].reviewRef = board[k].by
                        <=> work[board[k].by[1]][board[k].by[2]].handoff = "routed"
    BY DEF RowShowsRouting
  <2>1. PICK r \in Request : \E p \in Items(r) : board[k].by = <<r, p>>
    BY DEF ShowInv, RowsAreItems
  <2>2. PICK p \in Items(r) : board[k].by = <<r, p>>
    BY <2>1
  <2>3. Shows(k)
    BY DEF ShowInv
  <2> QED BY <2>2, <2>3 DEF Shows
<1> QED BY <1>1, ShowInit, ShowStep, PTL DEF Spec

-----------------------------------------------------------------------------
(***************************************************************************)
(* The refinement: the trail is the abstract decision, the hand-offs those *)
(* of the assessments and of the pack.                                     *)
(***************************************************************************)
LEMMA OutcomeElim ==
  ASSUME NEW o \in Outcome
  PROVE  \E r \in Request : \E p \in {0} \cup Items(r) : o = <<r, p>>
<1>1. PICK r \in Request : o \in {r} \X ({0} \cup Items(r))
  BY DEF Outcome
<1>2. o = <<r, o[2]>> /\ o[2] \in {0} \cup Items(r)
  BY <1>1
<1> QED BY <1>2

LEMMA SameOutcomes == Contract!Outcome = Outcome
BY DEF Contract!Outcome, Outcome

LEMMA ContractInit == Init => Contract!Init
<1> SUFFICES ASSUME Init PROVE Contract!Init
  OBVIOUS
<1>1. \A o \in Outcome : AssessedAs(o) = "no"
  BY DEF Init, AssessedAs, Audited
<1>2. \A o \in Outcome : HandedAs(o) = "no"
  <2> TAKE o \in Outcome
  <2>1. PICK r \in Request : \E p \in {0} \cup Items(r) : o = <<r, p>>
    BY OutcomeElim
  <2>2. PICK p \in {0} \cup Items(r) : o = <<r, p>>
    BY <2>1
  <2>3. packRouting[r] = "none" /\ Positions(r) = {}
    BY TypeInit, PositionsAre DEF Init
  <2> QED BY <2>2, <2>3 DEF HandedAs
<1>3. \A r \in Request : pc[r] # "answered"
  BY DEF Init
<1> QED BY <1>1, <1>2, <1>3, SameOutcomes DEF Contract!Init

LEMMA AssessedIs ==
  \A o : AssessedAs(o) = IF Audited(o, "ESCALATED") THEN "ESCALATED"
                          ELSE IF Audited(o, "ALLOWED") THEN "ALLOWED" ELSE "no"
BY DEF AssessedAs

LEMMA SameTrail ==
  ASSUME \A r \in Request : \A p : \A d \in Outspoken :
           Audited(<<r, p>>, d)' <=> Audited(<<r, p>>, d)
  PROVE  [o \in Outcome |-> AssessedAs(o)]' = [o \in Outcome |-> AssessedAs(o)]
<1> SUFFICES ASSUME NEW o \in Outcome PROVE AssessedAs(o)' = AssessedAs(o)
  OBVIOUS
<1>1. PICK r \in Request : \E p \in {0} \cup Items(r) : o = <<r, p>>
  BY OutcomeElim
<1>2. Audited(o, "ESCALATED")' <=> Audited(o, "ESCALATED")
  BY <1>1 DEF Outspoken
<1>3. Audited(o, "ALLOWED")' <=> Audited(o, "ALLOWED")
  BY <1>1 DEF Outspoken
<1>4. AssessedAs(o)' = IF Audited(o, "ESCALATED")' THEN "ESCALATED"
                       ELSE IF Audited(o, "ALLOWED")' THEN "ALLOWED" ELSE "no"
  BY DEF AssessedAs
<1> QED BY <1>2, <1>3, <1>4, AssessedIs

LEMMA SameHands ==
  ASSUME work' = work, packRouting' = packRouting
  PROVE  [o \in Outcome |-> HandedAs(o)]' = [o \in Outcome |-> HandedAs(o)]
BY DEF HandedAs, Positions

LEMMA SameReplies ==
  ASSUME \A r \in Request : pc'[r] = "answered" <=> pc[r] = "answered"
  PROVE  {r \in Request : pc[r] = "answered"}' = {r \in Request : pc[r] = "answered"}
OBVIOUS

(* One decision more on the trail.                                         *)
LEMMA OneDecision ==
  ASSUME NEW r \in Request, NEW n \in {0} \cup Items(r), NEW d \in Outspoken,
         NEW a \in {"assess_item", "assemble_pack"},
         audit' = audit \cup {Event(<<r, n>>, a, d)},
         ~Audited(<<r, n>>, "ESCALATED"), ~Audited(<<r, n>>, "ALLOWED")
  PROVE  /\ AssessedAs(<<r, n>>) = "no"
         /\ [o \in Outcome |-> AssessedAs(o)]' =
              [[o \in Outcome |-> AssessedAs(o)] EXCEPT ![<<r, n>>] = d]
<1>1. \A o, e : Audited(o, e)' <=> Audited(o, e) \/ (o = <<r, n>> /\ e = d)
  BY DEF Audited, Event
<1>2. AssessedAs(<<r, n>>) = "no"
  BY AssessedIs
<1>3. \A o : AssessedAs(o)' = IF Audited(o, "ESCALATED")' THEN "ESCALATED"
                        ELSE IF Audited(o, "ALLOWED")' THEN "ALLOWED" ELSE "no"
  BY DEF AssessedAs
<1>4. \A o \in Outcome : AssessedAs(o)' = IF o = <<r, n>> THEN d ELSE AssessedAs(o)
  BY <1>1, <1>3, AssessedIs DEF Outspoken
<1>5. <<r, n>> \in Outcome
  BY OutcomeIntro
<1> QED BY <1>2, <1>4, <1>5

(* Once the pack is due, every item is settled.                            *)
LEMMA AllSettled ==
  ASSUME FlowInv, NEW r \in Request, pc[r] \in Rolled
  PROVE  Contract!ItemsSettled(r)
<1>1. TypeInv /\ Flow(r)
  BY DEF FlowInv, SafeInv
<1>2. Positions(r) = Items(r) /\ 0 \notin Items(r)
  BY <1>1, PositionsAre, ItemsAre DEF Flow, Counted
<1>3. ASSUME NEW p \in Items(r)
      PROVE  \/ AssessedAs(<<r, p>>) = "ALLOWED"
             \/ AssessedAs(<<r, p>>) = "ESCALATED" /\ HandedAs(<<r, p>>) # "no"
  <2>1. CASE work[r][p].serious
    <3>1. Audited(<<r, p>>, "ESCALATED") /\ work[r][p].handoff # "none"
      BY <1>1, <1>2, <2>1 DEF Flow, Assessed, Rolled, Stopped
    <3>2. work[r][p].handoff # "no"
      <4>1. work[r][p] \in Assessment
        BY <1>1, <1>2 DEF TypeInv, TypeOK, Positions
      <4> QED BY <4>1 DEF Assessment, HandOffs
    <3> QED BY <1>2, <3>1, <3>2, AssessedIs DEF HandedAs
  <2>2. CASE ~work[r][p].serious
    BY <1>1, <1>2, <2>2, AssessedIs DEF Flow, Assessed
  <2> QED BY <2>1, <2>2
<1>4. \A p \in Items(r) : <<r, p>> \in Outcome
  BY OutcomeIntro
<1> QED BY <1>3, <1>4 DEF Contract!ItemsSettled, Contract!Settled

(* A decision goes on the trail.                                           *)
LEMMA AssessStep ==
  ASSUME FlowInv, NEW r \in Request, NEW n \in {0} \cup Items(r), NEW d \in Outspoken,
         NEW a \in {"assess_item", "assemble_pack"},
         audit' = audit \cup {Event(<<r, n>>, a, d)},
         ~Audited(<<r, n>>, "ESCALATED"), ~Audited(<<r, n>>, "ALLOWED"),
         n = 0 => d = "ESCALATED" /\ pc[r] \in Rolled,
         pc[r] # "answered",
         [o \in Outcome |-> HandedAs(o)]' = [o \in Outcome |-> HandedAs(o)],
         {q \in Request : pc[q] = "answered"}' = {q \in Request : pc[q] = "answered"}
  PROVE  Contract!Next
<1>1. Contract!Assess(r, n, d)
  <2>1. n = 0 => Contract!ItemsSettled(r)
    BY AllSettled
  <2>2. <<r, n>> \in Outcome
    BY OutcomeIntro
  <2> QED BY <2>1, <2>2, OneDecision DEF Contract!Assess
<1> QED BY <1>1 DEF Contract!Next, Outspoken

LEMMA ItemAuditStep ==
  ASSUME FlowInv, NEW r \in Request, WriteItemAudit(r)
  PROVE  Contract!Next
<1>1. TypeInv /\ Flow(r)
  BY DEF FlowInv, SafeInv
<1>2. /\ pc[r] = "audit" /\ pos[r] \in Items(r) /\ Len(work[r]) = pos[r] - 1
      /\ packRouting' = packRouting
      /\ audit' = audit \cup {Event(<<r, pos[r]>>, "assess_item", DecisionOf(r))}
  BY <1>1 DEF WriteItemAudit, At, WriteAudit, This, TypeInv, Progress
<1>3. pos[r] \notin Positions(r)
  BY <1>1, <1>2, PositionsAre, ItemsAre
<1>4. ~Audited(<<r, pos[r]>>, "ESCALATED") /\ ~Audited(<<r, pos[r]>>, "ALLOWED")
  BY <1>1, <1>2, <1>3 DEF Flow, NotAhead, Stopped
<1>5. [o \in Outcome |-> HandedAs(o)]' = [o \in Outcome |-> HandedAs(o)]
  <2>1. \A q \in Request \ {r} : work'[q] = work[q]
    BY <1>1, OthersKeep DEF Serve
  <2>2. work'[r] = Append(work[r],
                     [draft |-> draft[r], serious |-> serious[r], handoff |-> "none"])
        /\ work[r] \in Seq(Assessment)
        /\ [draft |-> draft[r], serious |-> serious[r], handoff |-> "none"] \in Assessment
    BY <1>1 DEF WriteItemAudit, TypeInv, TypeOK, Assessment
  <2>3. /\ DOMAIN work'[r] = DOMAIN work[r] \cup {pos[r]}
        /\ \A p \in DOMAIN work[r] : work'[r][p] = work[r][p]
        /\ work'[r][pos[r]].handoff = "none"
    <3>1. /\ DOMAIN work[r] = 1..(pos[r] - 1) /\ DOMAIN work'[r] = 1..pos[r]
          /\ pos[r] \in Nat \ {0}
      BY <1>2, <2>2, ItemsAre
    <3>2. 1..pos[r] = (1..(pos[r] - 1)) \cup {pos[r]}
      BY <3>1
    <3>3. \A p \in 1..(pos[r] - 1) : work'[r][p] = work[r][p]
      BY <1>2, <2>2, <3>1
    <3>4. work'[r][pos[r]].handoff = "none"
      BY <1>2, <2>2, <3>1
    <3> QED BY <3>1, <3>2, <3>3, <3>4
  <2>4. \A q \in Request : \A p : HandedAs(<<q, p>>)' = HandedAs(<<q, p>>)
    <3> TAKE q \in Request
    <3> TAKE p
    <3>1. CASE q # r
      BY <1>2, <2>1, <3>1 DEF HandedAs, Positions
    <3>2. CASE q = r
      BY <1>2, <1>3, <2>3, <3>2 DEF HandedAs, Positions
    <3> QED BY <3>1, <3>2
  <2>5. \A o \in Outcome : HandedAs(o)' = HandedAs(o)
    BY <2>4, OutcomeElim
  <2> QED BY <2>5
<1>6. {q \in Request : pc[q] = "answered"}' = {q \in Request : pc[q] = "answered"}
  BY <1>1, <1>2 DEF WriteItemAudit, GoTo, TypeInv, TypeOK
<1>7. DecisionOf(r) \in Outspoken /\ pos[r] # 0 /\ pc[r] # "answered"
  BY <1>2, ItemsAre DEF DecisionOf, Outspoken
<1> QED BY <1>2, <1>4, <1>5, <1>6, <1>7, AssessStep

LEMMA PackAuditStep ==
  ASSUME FlowInv, NEW r \in Request, WritePackAudit(r)
  PROVE  Contract!Next
<1>1. TypeInv /\ Flow(r)
  BY DEF FlowInv, SafeInv
<1>2. /\ pc[r] = "pack audit" /\ work' = work /\ packRouting' = packRouting
      /\ audit' = audit \cup {Event(<<r, 0>>, "assemble_pack", "ESCALATED")}
  BY DEF WritePackAudit, At, WriteAudit, Pack
<1>3. ~Audited(<<r, 0>>, "ESCALATED") /\ ~Audited(<<r, 0>>, "ALLOWED")
  BY <1>1, <1>2 DEF Flow, PackInv, Pack, Stopped
<1>4. {q \in Request : pc[q] = "answered"}' = {q \in Request : pc[q] = "answered"}
  BY <1>1, <1>2 DEF WritePackAudit, GoTo, TypeInv, TypeOK
<1>5. "ESCALATED" \in Outspoken /\ pc[r] \in Rolled /\ pc[r] # "answered"
  BY <1>2 DEF Outspoken, Rolled
<1> QED BY <1>2, <1>3, <1>4, <1>5, SameHands, AssessStep

(* A hand-off is reported.                                                 *)
LEMMA RouteItemStep ==
  ASSUME FlowInv, NEW r \in Request, RouteItem(r)
  PROVE  Contract!Next
<1>1. TypeInv /\ Flow(r)
  BY DEF FlowInv, SafeInv
<1>2. /\ pc[r] = "route" /\ pos[r] \in Items(r) /\ audit' = audit
      /\ packRouting' = packRouting
  BY <1>1 DEF RouteItem, At, TypeInv, Progress
<1>3. PICK how \in HandOffs : work' = [work EXCEPT ![r][pos[r]].handoff = how]
  BY DEF RouteItem
<1>4. /\ Positions(r)' = Positions(r) /\ pos[r] \in Positions(r)
      /\ \A p \in Positions(r) :
           work'[r][p].handoff = IF p = pos[r] THEN how ELSE work[r][p].handoff
      /\ \A q \in Request \ {r} : work'[q] = work[q]
  <2>1. \A q \in Request \ {r} : work'[q] = work[q]
    BY <1>1, <1>2, <1>3, RouteItemWork
  <2>2. /\ Positions(r)' = Positions(r) /\ pos[r] \in Positions(r)
        /\ \A p \in Positions(r) :
             work'[r][p].handoff = IF p = pos[r] THEN how ELSE work[r][p].handoff
    BY <1>1, <1>2, <1>3, RouteItemKeeps
  <2> QED BY <2>1, <2>2
<1>5. how # "none"
  BY DEF HandOffs
<1>6. \A q \in Request : \A p \in {0} \cup Items(q) :
        HandedAs(<<q, p>>)' = IF q = r /\ p = pos[r] THEN how ELSE HandedAs(<<q, p>>)
  <2> TAKE q \in Request
  <2> TAKE p \in {0} \cup Items(q)
  <2>1. CASE q # r
    BY <1>2, <1>4, <2>1 DEF HandedAs, Positions
  <2>2. CASE q = r
    BY <1>2, <1>4, <1>5, <2>2, ItemsAre DEF HandedAs
  <2> QED BY <2>1, <2>2
<1>7. \A o \in Outcome : HandedAs(o)' = IF o = <<r, pos[r]>> THEN how ELSE HandedAs(o)
  BY <1>6, OutcomeElim
<1>8. /\ <<r, pos[r]>> \in Outcome
      /\ AssessedAs(<<r, pos[r]>>) = "ESCALATED"
      /\ HandedAs(<<r, pos[r]>>) = "no"
  <2>1. work[r][pos[r]].serious
    BY <1>1, <1>2 DEF Flow, Current, FlowInv, SafeInv, Trailed
  <2>2. Audited(<<r, pos[r]>>, "ESCALATED") /\ work[r][pos[r]].handoff = "none"
    BY <1>1, <1>2, <1>4, <2>1 DEF Flow, Assessed, Current
  <2>3. pos[r] # 0
    BY <1>2, ItemsAre
  <2> QED BY <1>2, <2>2, <2>3, OutcomeIntro, AssessedIs DEF HandedAs
<1>9. [o \in Outcome |-> AssessedAs(o)]' = [o \in Outcome |-> AssessedAs(o)]
  BY <1>2 DEF AssessedAs, Audited
<1>10. {q \in Request : pc[q] = "answered"}' = {q \in Request : pc[q] = "answered"}
  BY <1>1, <1>2 DEF RouteItem, GoTo, TypeInv, TypeOK
<1>11. Contract!HandOff(r, pos[r], how)
  BY <1>7, <1>8, <1>9, <1>10 DEF Contract!HandOff
<1> QED BY <1>2, <1>11 DEF Contract!Next, Contract!HandOffs, HandOffs

LEMMA RoutePackStep ==
  ASSUME FlowInv, NEW r \in Request, RoutePack(r)
  PROVE  Contract!Next
<1>1. TypeInv /\ Flow(r)
  BY DEF FlowInv, SafeInv
<1>2. pc[r] = "pack route" /\ audit' = audit /\ work' = work
  BY DEF RoutePack, At
<1>3. PICK how \in HandOffs : packRouting' = [packRouting EXCEPT ![r] = how]
  BY DEF RoutePack
<1>4. \A q \in Request : packRouting'[q] = IF q = r THEN how ELSE packRouting[q]
  BY <1>1, <1>3 DEF TypeInv, TypeOK
<1>5. how # "none"
  BY DEF HandOffs
<1>6. \A q \in Request : \A p \in {0} \cup Items(q) :
        HandedAs(<<q, p>>)' = IF q = r /\ p = 0 THEN how ELSE HandedAs(<<q, p>>)
  BY <1>2, <1>4, <1>5 DEF HandedAs, Positions
<1>7. \A o \in Outcome : HandedAs(o)' = IF o = <<r, 0>> THEN how ELSE HandedAs(o)
  BY <1>6, OutcomeElim
<1>8. /\ <<r, 0>> \in Outcome
      /\ AssessedAs(<<r, 0>>) = "ESCALATED"
      /\ HandedAs(<<r, 0>>) = "no"
  BY <1>1, <1>2, OutcomeIntro, AssessedIs DEF Flow, PackInv, Pack, Stopped, HandedAs
<1>9. [o \in Outcome |-> AssessedAs(o)]' = [o \in Outcome |-> AssessedAs(o)]
  BY <1>2 DEF AssessedAs, Audited
<1>10. {q \in Request : pc[q] = "answered"}' = {q \in Request : pc[q] = "answered"}
  BY <1>1, <1>2 DEF RoutePack, GoTo, TypeInv, TypeOK
<1>11. Contract!HandOff(r, 0, how)
  BY <1>7, <1>8, <1>9, <1>10 DEF Contract!HandOff
<1> QED BY <1>11 DEF Contract!Next, Contract!HandOffs, HandOffs

(* The caller has its answer.                                              *)
LEMMA ReplyStep ==
  ASSUME FlowInv, NEW r \in Request, Reply(r)
  PROVE  Contract!Next
<1>1. TypeInv /\ Flow(r)
  BY DEF FlowInv, SafeInv
<1>2. pc[r] = "reply" /\ pc'[r] = "answered" /\ audit' = audit /\ work' = work
      /\ packRouting' = packRouting /\ \A q \in Request \ {r} : pc'[q] = pc[q]
  BY <1>1 DEF Reply, At, GoTo, shared, TypeInv, TypeOK
<1>3. Contract!ItemsSettled(r)
  BY <1>2, AllSettled DEF Rolled
<1>4. AssessedAs(<<r, 0>>) = "ESCALATED" /\ HandedAs(<<r, 0>>) # "no"
  <2>1. Audited(<<r, 0>>, "ESCALATED") /\ packRouting[r] # "none" /\ packRouting[r] # "no"
    BY <1>1, <1>2 DEF Flow, PackInv, Pack, TypeInv, TypeOK, HandOffs
  <2> QED BY <2>1, AssessedIs DEF HandedAs
<1>5. Contract!Settled(<<r, 0>>)
  BY <1>4, OutcomeIntro DEF Contract!Settled
<1>6. [o \in Outcome |-> AssessedAs(o)]' = [o \in Outcome |-> AssessedAs(o)]
  BY <1>2 DEF AssessedAs, Audited
<1>7. {q \in Request : pc[q] = "answered"}' = {q \in Request : pc[q] = "answered"} \cup {r}
  BY <1>2
<1>8. Contract!Reply(r)
  BY <1>2, <1>3, <1>5, <1>6, <1>7, SameHands DEF Contract!Reply
<1> QED BY <1>8 DEF Contract!Next

-----------------------------------------------------------------------------
(* Every other step says nothing new: it stutters.                         *)
LEMMA Stutter ==
  ASSUME work' = work, packRouting' = packRouting,
         \A r \in Request : pc'[r] = "answered" <=> pc[r] = "answered",
         \/ audit' = audit
         \/ \E o, a : audit' = audit \cup {Event(o, a, "BLOCKED")}
  PROVE  UNCHANGED Contract!vars
<1>1. \A r \in Request : \A p : \A d \in Outspoken :
        Audited(<<r, p>>, d)' <=> Audited(<<r, p>>, d)
  <2>1. \A r \in Request : \A p : \A d \in Outspoken :
          AuditedIn(audit', <<r, p>>, d) <=> AuditedIn(audit, <<r, p>>, d)
    BY BlockedSaysNothing
  <2> QED BY <2>1 DEF Audited, AuditedIn
<1>2. [o \in Outcome |-> AssessedAs(o)]' = [o \in Outcome |-> AssessedAs(o)]
  BY <1>1, SameTrail
<1> QED BY <1>2, SameHands, SameReplies DEF Contract!vars

LEMMA SilentStep ==
  ASSUME FlowInv, NEW r \in Request,
         \/ Validate(r) \/ TopicDeclared(r) \/ ItemRejected(r) \/ Retrieve(r)
         \/ Narrate(r) \/ Normalise(r) \/ CoverNote(r) \/ PortFails(r)
         \/ RecordCase(r) \/ ShowRouting(r)
  PROVE  UNCHANGED Contract!vars
<1>1. TypeInv
  BY DEF FlowInv, SafeInv
<1>2. work' = work /\ packRouting' = packRouting
  BY DEF Validate, TopicDeclared, ItemRejected, Retrieve, Narrate, Normalise, CoverNote,
         PortFails, RecordCase, ShowRouting
<1>3. \/ audit' = audit
      \/ \E o, a : audit' = audit \cup {Event(o, a, "BLOCKED")}
  BY DEF Validate, TopicDeclared, ItemRejected, Retrieve, Narrate, Normalise, CoverNote,
         PortFails, RecordCase, ShowRouting, shared, Unanswered, WriteAudit
<1>4. \A q \in Request : pc'[q] = "answered" <=> pc[q] = "answered"
  BY <1>1
     DEF Validate, TopicDeclared, ItemRejected, Retrieve, Narrate, Normalise, CoverNote,
         PortFails, RecordCase, ShowRouting, NextItem, Abandon, GoTo, At, InAssessItem,
         TypeInv, TypeOK
<1> QED BY <1>2, <1>3, <1>4, Stutter

(* A failure after the record is a decision without a hand-off.            *)
LEMMA LateStep ==
  ASSUME FlowInv, NEW r \in Request, LateFailure(r)
  PROVE  Contract!Next \/ UNCHANGED Contract!vars
<1>1. TypeInv /\ Flow(r)
  BY DEF FlowInv, SafeInv
<1>2. /\ work' = work /\ packRouting' = packRouting
      /\ pc'[r] \in {"failed", "rejected"} /\ pc[r] # "answered"
      /\ \A q \in Request \ {r} : pc'[q] = pc[q]
  BY <1>1 DEF LateFailure, Abandon, GoTo, At, TypeInv, TypeOK
<1>3. {q \in Request : pc[q] = "answered"}' = {q \in Request : pc[q] = "answered"}
      /\ \A q \in Request : pc'[q] = "answered" <=> pc[q] = "answered"
  BY <1>2
<1>4. CASE \/ audit' = audit
           \/ \E o, a : audit' = audit \cup {Event(o, a, "BLOCKED")}
  BY <1>2, <1>3, <1>4, Stutter
<1>5. CASE /\ pc[r] = "audit"
           /\ audit' = audit \cup {Event(<<r, pos[r]>>, "assess_item", DecisionOf(r))}
  <2>1. pos[r] \in Items(r) /\ pos[r] # 0 /\ pos[r] \notin Positions(r)
    BY <1>1, <1>5, PositionsAre, ItemsAre DEF TypeInv, Progress
  <2>2. ~Audited(<<r, pos[r]>>, "ESCALATED") /\ ~Audited(<<r, pos[r]>>, "ALLOWED")
    BY <1>1, <1>5, <2>1 DEF Flow, NotAhead, Stopped
  <2>3. DecisionOf(r) \in Outspoken
    BY DEF DecisionOf, Outspoken
  <2> QED BY <1>2, <1>3, <1>5, <2>1, <2>2, <2>3, SameHands, AssessStep
<1>6. CASE /\ pc[r] = "pack audit"
           /\ audit' = audit \cup {Event(<<r, 0>>, "assemble_pack", "ESCALATED")}
  <2>1. ~Audited(<<r, 0>>, "ESCALATED") /\ ~Audited(<<r, 0>>, "ALLOWED")
    BY <1>1, <1>6 DEF Flow, PackInv, Pack, Stopped
  <2>2. "ESCALATED" \in Outspoken /\ pc[r] \in Rolled
    BY <1>6 DEF Outspoken, Rolled
  <2> QED BY <1>2, <1>3, <1>6, <2>1, <2>2, SameHands, AssessStep
<1> QED
  BY <1>4, <1>5, <1>6 DEF LateFailure, At, WriteAudit, This, Pack

LEMMA ContractStep ==
  FlowInv /\ [Next]_vars => [Contract!Next]_(Contract!vars)
<1> SUFFICES ASSUME FlowInv, [Next]_vars
             PROVE  Contract!Next \/ UNCHANGED Contract!vars
  OBVIOUS
<1>1. CASE \E r \in Request : Serve(r)
  BY <1>1, SilentStep, ItemAuditStep, RouteItemStep, PackAuditStep, RoutePackStep, ReplyStep,
     LateStep DEF Serve
<1>2. CASE Crash
  <2>1. \A r \in Request : pc'[r] = "answered" <=> pc[r] = "answered"
    BY <1>2 DEF Crash, InFlight, InAssessItem
  <2> QED BY <1>2, <2>1, Stutter DEF Crash
<1>3. CASE UNCHANGED vars
  BY <1>3, Stutter DEF vars, local, shared
<1> QED BY <1>1, <1>2, <1>3 DEF Next, Idle

(* Threads, stores, late failures and crashes implement the escalation     *)
(* contract: trail first, one hand-off, the pack last, no answer before    *)
(* every escalation is handed off (rules R2, R8 and P2).                   *)
THEOREM FlowImplementsContract == Spec => ImplementsContract
BY ContractInit, ContractStep, FlowAlways, PTL DEF Spec, ImplementsContract, Contract!Spec
=============================================================================
