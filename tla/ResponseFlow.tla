---------------------------- MODULE ResponseFlow ----------------------------
(***************************************************************************)
(* One response pack per request: POST /v1/response-pack (and the CLI's    *)
(* `respond`, the same sequence) driving ResponsePackService.              *)
(*                                                                         *)
(* Requests run concurrently: FastAPI runs the synchronous endpoint on a   *)
(* thread pool over ONE cached container, so the audit log, the open-item  *)
(* board and the review outbox are shared.  Several requests may carry the *)
(* same request_id (a retry, or two people on one case) and one request    *)
(* may repeat an item_ref.  Every port call may fail; the process may      *)
(* crash and come back.                                                    *)
(*                                                                         *)
(* A generation call is one step with the outcomes of ModelText, which     *)
(* ScreenedGeneration implements.  What the engines decide about an item   *)
(* is reduced to `serious`: a HIGH or CRITICAL blocker or deadline band,   *)
(* that is, an item that requires human review.                            *)
(***************************************************************************)
EXTENDS Naturals, Sequences, FiniteSets

CONSTANTS
  Request,             \* the calls of the endpoint
  Case,                \* request_id values
  ItemRef,             \* item_ref values
  CaseOf,              \* CaseOf[r]: the request_id r carries
  ItemsOf,             \* ItemsOf[r]: the item_refs r asks about, in order
  BoardDurable,        \* case_store_path names a file
  OutboxDurable,       \* reviews are submitted to the console, not queued
  MaxCrashes,          \* bound: process crashes in one behaviour
  NoRow, NoRef         \* an absent board row, an empty review_ref

ASSUME FlowAssumption ==
  /\ CaseOf \in [Request -> Case]
  /\ ItemsOf \in [Request -> Seq(ItemRef)]
  /\ \A r \in Request : Len(ItemsOf[r]) > 0
  /\ BoardDurable \in BOOLEAN
  /\ OutboxDurable \in BOOLEAN
  /\ MaxCrashes \in Nat

Items(r) == 1..Len(ItemsOf[r])

\* An outcome is an item of a request, by position, or its pack, position 0.
Outcome == UNION {{r} \X ({0} \cup Items(r)) : r \in Request}
Key == Case \X ItemRef
KeyOf(o) == <<CaseOf[o[1]], ItemsOf[o[1]][o[2]]>>

Action   == {"propose_topic", "assess_item", "assemble_pack"}
Decision == {"ALLOWED", "ESCALATED", "BLOCKED"}
AuditEvent == [outcome : Outcome, action : Action, decision : Decision]
Draft == {"none", "pending", "model", "fallback"}
HandOffs == {"routed", "failed", "off"}
Assessment == [draft : Draft, serious : BOOLEAN, handoff : HandOffs \cup {"none"}]
CaseRecord == [by : Outcome, serious : BOOLEAN, reviewRef : Outcome \cup {NoRef}]

ASSUME NoValueAssumption == NoRef \notin Outcome /\ NoRow \notin CaseRecord

VARIABLES
  pc,                  \* pc[r]: what the thread serving r does next
  pos,                 \* pos[r]: the item it is at
  draft,               \* draft[r]: that item's narrative; "none": no exhibit
  serious,             \* serious[r]: a HIGH or CRITICAL finding on it so far
  work,                \* work[r]: the assessments made, with their hand-offs
  itemRouting,         \* itemRouting[r]: the item_outcomes dictionary
  packRouting,         \* packRouting[r]: outcome of the pack's hand-off
  audit,               \* the records on the WORM trail
  board,               \* board[k]: the open-item row of case and item, or NoRow
  outbox,              \* the outcomes a reviewer can find
  lost,                \* history: those a queue held in memory died with
  routerOn,            \* the review-routing switch this process started with
  crashes

local  == <<pc, pos, draft, serious, work, itemRouting, packRouting>>
shared == <<audit, board, outbox, lost, routerOn, crashes>>
vars   == <<local, shared>>

InAssessItem == {"retrieve", "narrate", "normalise", "audit", "record"}
InFlight == InAssessItem \cup
  {"topic", "route", "show", "pack", "pack audit", "pack route", "reply"}
Settled == {"answered", "rejected", "failed", "crashed"}
PC == {"received"} \cup InFlight \cup Settled

TypeOK ==
  /\ pc \in [Request -> PC]
  /\ pos \in [Request -> Nat \ {0}]
  /\ draft \in [Request -> Draft]
  /\ serious \in [Request -> BOOLEAN]
  /\ work \in [Request -> Seq(Assessment)]
  /\ itemRouting \in [Request -> [ItemRef -> HandOffs \cup {"none"}]]
  /\ packRouting \in [Request -> HandOffs \cup {"none"}]
  /\ audit \subseteq AuditEvent
  /\ board \in [Key -> CaseRecord \cup {NoRow}]
  /\ outbox \subseteq Outcome
  /\ lost \subseteq Outcome
  /\ routerOn \in BOOLEAN
  /\ crashes \in 0..MaxCrashes

Init ==
  /\ pc = [r \in Request |-> "received"]
  /\ pos = [r \in Request |-> 1]
  /\ draft = [r \in Request |-> "none"]
  /\ serious = [r \in Request |-> FALSE]
  /\ work = [r \in Request |-> <<>>]
  /\ itemRouting = [r \in Request |-> [i \in ItemRef |-> "none"]]
  /\ packRouting = [r \in Request |-> "none"]
  /\ audit = {}
  /\ board = [k \in Key |-> NoRow]
  /\ outbox = {}
  /\ lost = {}
  /\ routerOn \in BOOLEAN
  /\ crashes = 0

-----------------------------------------------------------------------------
At(r, where) == pc[r] = where
GoTo(r, where) == pc' = [pc EXCEPT ![r] = where]

This(r) == <<r, pos[r]>>
Pack(r) == <<r, 0>>
Item(r) == ItemsOf[r][pos[r]]

DecisionOf(r) == IF serious[r] THEN "ESCALATED" ELSE "ALLOWED"

Event(o, action, decision) ==
  [outcome |-> o, action |-> action, decision |-> decision]
WriteAudit(o, action, decision) ==
  audit' = audit \cup {Event(o, action, decision)}

(* One screened generation call (ModelText): the refusal is on the trail   *)
(* by the time the call site sees it.                                      *)
Unanswered(o, action, how) ==
  \/ how = "failed" /\ UNCHANGED audit
  \/ how = "refused" /\ WriteAudit(o, action, "BLOCKED")

\* The surface's checks of the body, before any item is looked at.
Validate(r) ==
  /\ At(r, "received")
  /\ \E where \in {"topic", "rejected"} : GoTo(r, where)
  /\ UNCHANGED <<pos, draft, serious, work, itemRouting, packRouting, shared>>

\* _resolve_topic with a declared topic.
TopicDeclared(r) ==
  /\ At(r, "topic")
  /\ GoTo(r, "retrieve")
  /\ UNCHANGED <<pos, draft, serious, work, itemRouting, packRouting, shared>>

\* With no topic, the model's suggestion only words the refusal; an unknown
\* topic or artefact name is refused as well, earlier items notwithstanding.
ItemRejected(r) ==
  /\ At(r, "topic")
  /\ GoTo(r, "rejected")
  /\ \/ UNCHANGED audit
     \/ WriteAudit(This(r), "propose_topic", "BLOCKED")
  /\ UNCHANGED <<pos, draft, serious, work, itemRouting, packRouting, board,
                 outbox, lost, routerOn, crashes>>

-----------------------------------------------------------------------------
(* _assess_item.  Retrieval, the admissibility ladder and the clock: an    *)
(* item with no accepted document is never drafted and is always serious   *)
(* (NO_ADMISSIBLE_EVIDENCE is HIGH).                                       *)
Retrieve(r) ==
  /\ At(r, "retrieve")
  /\ \/ /\ draft' = [draft EXCEPT ![r] = "pending"]
        /\ \E s \in BOOLEAN : serious' = [serious EXCEPT ![r] = s]
        /\ GoTo(r, "narrate")
     \/ /\ draft' = [draft EXCEPT ![r] = "none"]
        /\ serious' = [serious EXCEPT ![r] = TRUE]
        /\ GoTo(r, "audit")
  /\ UNCHANGED <<pos, work, itemRouting, packRouting, shared>>

\* Slip: a discarded draft raises no blocker.
Narrate_NoBlocker(r) ==
  /\ At(r, "narrate")
  /\ \E d \in {"model", "fallback"} : draft' = [draft EXCEPT ![r] = d]
  /\ GoTo(r, "normalise")
  /\ UNCHANGED <<pos, serious, work, itemRouting, packRouting, shared>>

\* _draft: model text that is grounded, or the fallback paragraph and an
\* UNGROUNDED_DRAFT blocker, HIGH.
Narrate(r) ==
  /\ At(r, "narrate")
  /\ \/ /\ draft' = [draft EXCEPT ![r] = "model"]
        /\ UNCHANGED <<serious, audit>>
     \/ /\ draft' = [draft EXCEPT ![r] = "fallback"]
        /\ serious' = [serious EXCEPT ![r] = TRUE]
        /\ \/ UNCHANGED audit    \* answered, but discarded by G2 or G3
           \/ \E how \in {"failed", "refused"} :
                Unanswered(This(r), "assess_item", how)
  /\ GoTo(r, "normalise")
  /\ UNCHANGED <<pos, work, itemRouting, packRouting, board, outbox, lost,
                 routerOn, crashes>>

\* _normalise and check_consistency: facts may contradict a prior answer
\* (HIGH); no facts contradict nothing.
Normalise(r) ==
  /\ At(r, "normalise")
  /\ \/ /\ \E conflict \in BOOLEAN :
             serious' = [serious EXCEPT ![r] = @ \/ conflict]
        /\ UNCHANGED audit
     \/ /\ \E how \in {"failed", "refused"} :
             Unanswered(This(r), "assess_item", how)
        /\ UNCHANGED serious
  /\ GoTo(r, "audit")
  /\ UNCHANGED <<pos, draft, work, itemRouting, packRouting, board, outbox,
                 lost, routerOn, crashes>>

\* The ItemAssessment is built and _write_audit records its decision.
WriteItemAudit(r) ==
  /\ At(r, "audit")
  /\ work' = [work EXCEPT ![r] = Append(@,
                [draft |-> draft[r], serious |-> serious[r], handoff |-> "none"])]
  /\ WriteAudit(This(r), "assess_item", DecisionOf(r))
  /\ GoTo(r, "record")
  /\ UNCHANGED <<pos, draft, serious, itemRouting, packRouting, board, outbox,
                 lost, routerOn, crashes>>

\* record_case: the whole row is replaced.
Upsert(r, ref) ==
  board' = [board EXCEPT ![KeyOf(This(r))] =
              [by |-> This(r), serious |-> serious[r], reviewRef |-> ref]]

NextItem(r) ==
  /\ pos' = [pos EXCEPT ![r] = @ + 1]
  /\ GoTo(r, IF pos[r] < Len(ItemsOf[r]) THEN "topic" ELSE "pack")

\* Slip: requires_human_review is set and nobody reads it.
RecordCase_NeverRoutes(r) ==
  /\ At(r, "record")
  /\ Upsert(r, NoRef)
  /\ NextItem(r)
  /\ UNCHANGED <<draft, serious, work, itemRouting, packRouting, audit, outbox,
                 lost, routerOn, crashes>>

\* The row assess_item leaves, with no routing reference yet.
RecordCase(r) ==
  /\ At(r, "record")
  /\ Upsert(r, NoRef)
  /\ IF serious[r] THEN GoTo(r, "route") /\ UNCHANGED pos ELSE NextItem(r)
  /\ UNCHANGED <<draft, serious, work, itemRouting, packRouting, audit, outbox,
                 lost, routerOn, crashes>>

-----------------------------------------------------------------------------
(* RecordingReviewRouter.route for an outcome that requires review: off    *)
(* when the switch is, failed when the router raises (the review may have  *)
(* reached the console before it did), routed otherwise.                   *)
Route(o, how) ==
  CASE how = "off"    -> ~routerOn /\ UNCHANGED outbox
    [] how = "failed" -> routerOn /\ outbox' \in {outbox, outbox \cup {o}}
    [] how = "routed" -> routerOn /\ outbox' = outbox \cup {o}

\* Slip: an item_ref keeps the outcome of its first hand-off.
RouteItem_FirstWins(r) ==
  /\ At(r, "route")
  /\ \E how \in HandOffs :
       /\ Route(This(r), how)
       /\ work' = [work EXCEPT ![r][pos[r]].handoff = how]
       /\ itemRouting' = [itemRouting EXCEPT
            ![r][Item(r)] = IF @ = "none" THEN how ELSE @]
  /\ GoTo(r, "show")
  /\ UNCHANGED <<pos, draft, serious, packRouting, audit, board, lost,
                 routerOn, crashes>>

RouteItem(r) ==
  /\ At(r, "route")
  /\ \E how \in HandOffs :
       /\ Route(This(r), how)
       /\ work' = [work EXCEPT ![r][pos[r]].handoff = how]
       /\ itemRouting' = [itemRouting EXCEPT ![r][Item(r)] = how]
  /\ GoTo(r, "show")
  /\ UNCHANGED <<pos, draft, serious, packRouting, audit, board, lost,
                 routerOn, crashes>>

\* Slip: the row is not written again once the hand-off is over.
ShowRouting_Skipped(r) ==
  /\ At(r, "show")
  /\ NextItem(r)
  /\ UNCHANGED <<draft, serious, work, itemRouting, packRouting, audit, board,
                 outbox, lost, routerOn, crashes>>

\* Slip: only the reference column of the row found there is updated.
ShowRouting_PatchesRow(r) ==
  /\ At(r, "show")
  /\ board' = [board EXCEPT ![KeyOf(This(r))].reviewRef =
                 IF work[r][pos[r]].handoff = "routed" THEN This(r) ELSE NoRef]
  /\ NextItem(r)
  /\ UNCHANGED <<draft, serious, work, itemRouting, packRouting, audit, outbox,
                 lost, routerOn, crashes>>

Reference(r) ==
  IF At(r, "show") /\ work[r][pos[r]].handoff = "routed" THEN This(r) ELSE NoRef

\* The surface's second record_case, with the reference of the hand-off.
ShowRouting(r) ==
  /\ At(r, "show")
  /\ Upsert(r, Reference(r))
  /\ NextItem(r)
  /\ UNCHANGED <<draft, serious, work, itemRouting, packRouting, audit, outbox,
                 lost, routerOn, crashes>>

-----------------------------------------------------------------------------
HasExhibit(r) == \E p \in Items(r) : work[r][p].draft # "none"

\* _assemble_pack up to its audit record.  The cover note is drafted only
\* when the pack indexes an exhibit; its blockers are dropped.
CoverNote(r) ==
  /\ At(r, "pack")
  /\ \/ UNCHANGED audit
     \/ /\ HasExhibit(r)
        /\ \E how \in {"failed", "refused"} :
             Unanswered(Pack(r), "assemble_pack", how)
  /\ GoTo(r, "pack audit")
  /\ UNCHANGED <<pos, draft, serious, work, itemRouting, packRouting, board,
                 outbox, lost, routerOn, crashes>>

\* P2: the decision is ESCALATED whatever the items say.
WritePackAudit(r) ==
  /\ At(r, "pack audit")
  /\ WriteAudit(Pack(r), "assemble_pack", "ESCALATED")
  /\ GoTo(r, "pack route")
  /\ UNCHANGED <<pos, draft, serious, work, itemRouting, packRouting, board,
                 outbox, lost, routerOn, crashes>>

\* Slip: a pack with no serious item is not handed off.
RoutePack_SkipsClean(r) ==
  /\ At(r, "pack route")
  /\ \/ /\ \E p \in Items(r) : work[r][p].serious
        /\ \E how \in HandOffs :
             /\ Route(Pack(r), how)
             /\ packRouting' = [packRouting EXCEPT ![r] = how]
     \/ /\ \A p \in Items(r) : ~work[r][p].serious
        /\ UNCHANGED <<outbox, packRouting>>
  /\ GoTo(r, "reply")
  /\ UNCHANGED <<pos, draft, serious, work, itemRouting, audit, board, lost,
                 routerOn, crashes>>

RoutePack(r) ==
  /\ At(r, "pack route")
  /\ \E how \in HandOffs :
       /\ Route(Pack(r), how)
       /\ packRouting' = [packRouting EXCEPT ![r] = how]
  /\ GoTo(r, "reply")
  /\ UNCHANGED <<pos, draft, serious, work, itemRouting, audit, board, lost,
                 routerOn, crashes>>

Reply(r) ==
  /\ At(r, "reply")
  /\ GoTo(r, "answered")
  /\ UNCHANGED <<pos, draft, serious, work, itemRouting, packRouting, shared>>

\* Slip: a failing audit sink is absorbed like a failing hand-off.
PortFails_AuditAbsorbed(r) ==
  /\ At(r, "audit")
  /\ work' = [work EXCEPT ![r] = Append(@,
                [draft |-> draft[r], serious |-> serious[r], handoff |-> "none"])]
  /\ GoTo(r, "record")
  /\ UNCHANGED <<pos, draft, serious, itemRouting, packRouting, shared>>

\* A LookupError out of assess_item is the caller's error (422), anything
\* else the service's (500).
Abandon(r) ==
  \/ GoTo(r, "failed")
  \/ pc[r] \in InAssessItem /\ GoTo(r, "rejected")

\* A port raises and nothing absorbs it.  A hand-off never fails a request.
PortFails(r) ==
  /\ pc[r] \in InAssessItem \cup {"topic", "show", "pack", "pack audit"}
  /\ Abandon(r)
  /\ UNCHANGED <<pos, draft, serious, work, itemRouting, packRouting, shared>>

(* A write that took effect raises all the same: the sink's answer is lost *)
(* after the record is stored, or the local board fails between the row    *)
(* and its access list, on a connection every caller shares.               *)
LateFailure(r) ==
  /\ \/ /\ \/ At(r, "topic") /\ WriteAudit(This(r), "propose_topic", "BLOCKED")
           \/ /\ pc[r] \in {"narrate", "normalise"}
              /\ WriteAudit(This(r), "assess_item", "BLOCKED")
           \/ At(r, "audit") /\ WriteAudit(This(r), "assess_item", DecisionOf(r))
           \/ /\ At(r, "pack") /\ HasExhibit(r)
              /\ WriteAudit(Pack(r), "assemble_pack", "BLOCKED")
           \/ /\ At(r, "pack audit")
              /\ WriteAudit(Pack(r), "assemble_pack", "ESCALATED")
        /\ UNCHANGED board
     \/ /\ pc[r] \in {"record", "show"}
        /\ Upsert(r, Reference(r))
        /\ UNCHANGED audit
  /\ Abandon(r)
  /\ UNCHANGED <<pos, draft, serious, work, itemRouting, packRouting, outbox,
                 lost, routerOn, crashes>>

(* The process dies and comes back: every request in flight is gone, what  *)
(* is not on disk is gone, the settings are read again.  The audit trail   *)
(* is taken to be durable (audit_path names a file).                       *)
Crash ==
  /\ crashes < MaxCrashes
  /\ crashes' = crashes + 1
  /\ pc' = [r \in Request |-> IF pc[r] \in InFlight THEN "crashed" ELSE pc[r]]
  /\ board' = IF BoardDurable THEN board ELSE [k \in Key |-> NoRow]
  /\ outbox' = IF OutboxDurable THEN outbox ELSE {}
  /\ lost' = IF OutboxDurable THEN lost ELSE lost \cup outbox
  /\ routerOn' \in BOOLEAN
  /\ UNCHANGED <<pos, draft, serious, work, itemRouting, packRouting, audit>>

Serve(r) ==
  \/ Validate(r) \/ TopicDeclared(r) \/ ItemRejected(r)
  \/ Retrieve(r) \/ Narrate(r) \/ Normalise(r)
  \/ WriteItemAudit(r) \/ RecordCase(r) \/ RouteItem(r) \/ ShowRouting(r)
  \/ CoverNote(r) \/ WritePackAudit(r) \/ RoutePack(r) \/ Reply(r)
  \/ PortFails(r) \/ LateFailure(r)

\* Every request settled: the server idles.
Idle == (\A r \in Request : pc[r] \in Settled) /\ UNCHANGED vars

Next == (\E r \in Request : Serve(r)) \/ Crash \/ Idle

Spec == Init /\ [][Next]_vars

(* A thread that serves a request keeps running: every port call returns   *)
(* or raises (the adapters set timeouts), and no step waits on another     *)
(* request except for the board's lock, which is held for one call.        *)
FairSpec == Spec /\ \A r \in Request : WF_vars(Serve(r))

-----------------------------------------------------------------------------
Audited(o, decision) ==
  \E a \in {"assess_item", "assemble_pack"} : Event(o, a, decision) \in audit

(* R2 before R8: whatever another party can see of an outcome, on the      *)
(* board or in the review outbox, is on the WORM trail with the decision   *)
(* it is shown with, whatever fails, crashes or interleaves                *)
(* (_write_audit comes before record_case and before the router).          *)
AuditPrecedesEffects ==
  /\ \A o \in outbox : Audited(o, "ESCALATED")
  /\ \A k \in Key : board[k] # NoRow =>
       Audited(board[k].by, IF board[k].serious THEN "ESCALATED" ELSE "ALLOWED")

(* What the reviewers were given: a queue held in memory is lost with the  *)
(* process, what the console has stays there.                              *)
HandedOver == IF OutboxDurable THEN outbox ELSE outbox \cup lost

(* Concurrent requests on one case never mix: a row is one assessment of   *)
(* its own case and item, and a reference on it is the review of that      *)
(* assessment (record_case replaces the row).  A reviewer can find it, but *)
(* for one thing: a board on disk outlives a queue held in memory.         *)
RowIsOneAssessment ==
  \A k \in Key : board[k] # NoRow =>
    /\ KeyOf(board[k].by) = k
    /\ board[k].reviewRef # NoRef =>
         /\ board[k].reviewRef = board[k].by
         /\ board[k].serious
         /\ board[k].by \in HandedOver

(* The board never shows an escalation as unrouted once its request has    *)
(* gone on, nor a hand-off that failed as routed: the row of an assessment *)
(* the request is past carries its reference exactly when it was routed,   *)
(* whoever wrote the row in between (response_pack's second record_case).  *)
RowShowsRouting ==
  \A k \in Key : board[k] # NoRow =>
    LET o == board[k].by
    IN pos[o[1]] > o[2] =>
         (board[k].reviewRef = o <=> work[o[1]][o[2]].handoff = "routed")

Positions(r) == DOMAIN work[r]

(* The serious answers one request gives to one item_ref.                  *)
Escalations(r, i) ==
  {p \in Positions(r) : ItemsOf[r][p] = i /\ work[r][p].serious}

(* An answer accounts for every escalation in it, and for the pack: each   *)
(* was handed off, and what is reported routed was given to the reviewers. *)
(* item_routing has one entry per item_ref, so of an item_ref asked about  *)
(* twice it tells the hand-off of the last answer that escalated, and of   *)
(* one that never escalated it has none (response_pack).                   *)
AnswerAccountsForEscalations ==
  \A r \in Request : pc[r] = "answered" =>
    /\ Positions(r) = Items(r)
    /\ packRouting[r] # "none"
    /\ packRouting[r] = "routed" => Pack(r) \in HandedOver
    /\ \A p \in Positions(r) :
         /\ work[r][p].serious => work[r][p].handoff # "none"
         /\ work[r][p].handoff = "routed" => <<r, p>> \in HandedOver
    /\ \A i \in ItemRef :
         \/ Escalations(r, i) = {} /\ itemRouting[r][i] = "none"
         \/ \E last \in Escalations(r, i) :
              /\ \A p \in Escalations(r, i) : p <= last
              /\ itemRouting[r][i] = work[r][last].handoff

(* The checker never gets a pack ahead of its exceptions, and no item of   *)
(* it rests on discarded or absent model text without having gone to a     *)
(* reviewer of its own (_draft's blockers reach the hand-off).             *)
PackFollowsItsExceptions ==
  \A r \in Request : Pack(r) \in outbox =>
    /\ Positions(r) = Items(r)
    /\ \A p \in Positions(r) :
         work[r][p].serious \/ work[r][p].draft # "model" =>
           work[r][p].handoff # "none"

(* An escalation on the trail does not stop there: it is handed off, or    *)
(* the request that made it ends without an answer (rule R8).              *)
EscalationsSettle ==
  \A r \in Request : \A p \in {0} \cup Items(r) :
    Audited(<<r, p>>, "ESCALATED")
      ~> \/ p \in Positions(r) /\ work[r][p].handoff # "none"
         \/ p = 0 /\ packRouting[r] # "none"
         \/ pc[r] \in {"rejected", "failed", "crashed"}

-----------------------------------------------------------------------------
(* Refinement of EscalationContract: the trail is the abstract decision,   *)
(* the hand-offs are those of the assessments and of the pack.             *)
AssessedAs(o) ==
  IF Audited(o, "ESCALATED") THEN "ESCALATED"
  ELSE IF Audited(o, "ALLOWED") THEN "ALLOWED"
  ELSE "no"

HandedAs(o) ==
  LET r == o[1]
      h == IF o[2] = 0 THEN packRouting[r]
           ELSE IF o[2] \in Positions(r) THEN work[r][o[2]].handoff ELSE "none"
  IN IF h = "none" THEN "no" ELSE h

Contract == INSTANCE EscalationContract WITH
  assessed <- [o \in Outcome |-> AssessedAs(o)],
  handed   <- [o \in Outcome |-> HandedAs(o)],
  replied  <- {r \in Request : pc[r] = "answered"}

(* Threads, stores, failures and crashes implement the contract.           *)
ImplementsContract == Contract!Spec

=============================================================================
