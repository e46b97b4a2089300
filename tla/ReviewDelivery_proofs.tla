----------------------- MODULE ReviewDelivery_proofs -----------------------
(***************************************************************************)
(* For any callers, outcomes and bounds: what is reported as routed is     *)
(* held where its reference says, and the console has one review of an     *)
(* outcome.                                                                *)
(***************************************************************************)
EXTENDS ReviewDelivery, SequenceTheorems, TLAPS

LEMMA OneWord == ASSUME NEW S, NEW w \in S PROVE <<w>> \in Seq(S)
OBVIOUS

LEMMA TwoWords == ASSUME NEW S, NEW v \in S, NEW w \in S PROVE <<v, w>> \in Seq(S)
OBVIOUS

(* The words of a source key. *)
Word == STRING \cup {":", "item", "pack"}

LEMMA CaseRefIsASequence == \A o \in Outcomes : CaseRef(o) \in Seq(Word)
<1> SUFFICES ASSUME NEW o \in Outcomes PROVE CaseRef(o) \in Seq(Word)
  OBVIOUS
<1>1. o.request \in Seq(Word) /\ o.item \in Seq(Word)
  <2>1. o.request \in Seq(STRING) /\ o.item \in Seq(STRING)
    BY DeliveryAssumption DEF Outcome
  <2>2. STRING \subseteq Word
    BY DEF Word
  <2> QED BY <2>1, <2>2, SeqMonotonic
<1> DEFINE colon == <<":">>
<1>2. colon \in Seq(Word)
  <2>1. ":" \in Word
    BY DEF Word
  <2> QED BY <2>1, OneWord
<1> HIDE DEF colon
<1>3. o.request \o colon \in Seq(Word)
  BY <1>1, <1>2, ConcatProperties
<1>4. (o.request \o colon) \o o.item \in Seq(Word)
  BY <1>1, <1>3, ConcatProperties
<1> QED BY <1>1, <1>4 DEF CaseRef, colon

(* A source key says what kind of outcome it is for, and of which case,    *)
(* whatever the identifiers contain: the kind is its last word.            *)
LEMMA KeyNamesOutcome ==
  ASSUME NEW o \in Outcomes, NEW p \in Outcomes, SourceKey(o) = SourceKey(p)
  PROVE  o.kind = p.kind /\ CaseRef(o) = CaseRef(p)
<1> DEFINE s == CaseRef(o)
           t == CaseRef(p)
<1>1. s \in Seq(Word) /\ t \in Seq(Word)
  BY CaseRefIsASequence
<1>2. o.kind \in Word /\ p.kind \in Word
  BY DeliveryAssumption DEF Outcome, Word
<1>3. s \o <<":", o.kind>> = t \o <<":", p.kind>>
  BY DEF SourceKey
<1> HIDE DEF s, t
<1>4. Len(s) = Len(t)
  BY <1>1, <1>2, <1>3
<1>5. o.kind = p.kind
  <2>1. (s \o <<":", o.kind>>)[Len(s) + 2] = o.kind
    BY <1>1, <1>2
  <2>2. (t \o <<":", p.kind>>)[Len(t) + 2] = p.kind
    BY <1>1, <1>2
  <2> QED BY <2>1, <2>2, <1>3, <1>4
<1>6. \A i \in 1..Len(s) : s[i] = t[i]
  <2> SUFFICES ASSUME NEW i \in 1..Len(s) PROVE s[i] = t[i]
    OBVIOUS
  <2>1. (s \o <<":", o.kind>>)[i] = s[i]
    BY <1>1, <1>2
  <2>2. (t \o <<":", p.kind>>)[i] = t[i]
    BY <1>1, <1>2, <1>4
  <2> QED BY <2>1, <2>2, <1>3
<1>7. s = t
  BY <1>1, <1>4, <1>6, SeqEqual
<1> QED BY <1>5, <1>7 DEF s, t

-----------------------------------------------------------------------------
(* Types                                                                   *)

Busy(c) == pc[c] # "idle"

(* A busy caller has a call in hand. *)
InHand == \A c \in Callers : Busy(c) => call[c] \in Call

(* From the moment it is bound, a call has a container. *)
HasRouter ==
  \A c \in Callers : pc[c] \in {"publish", "route", "sent", "reply"} => router[c] \in 1..calls

Typed == TypeOK /\ InHand /\ HasRouter

(* What Told does to the calls. *)
LEMMA ToldEffect ==
  ASSUME TypeOK, NEW c \in Callers, call[c] \in Call,
         NEW routing \in Routing, NEW ref \in {NoRef} \cup {SourceKey(o) : o \in Outcomes},
         Told(c, routing, ref)
  PROVE  /\ call' \in [Callers -> {NoCall} \cup Call]
         /\ call'[c] \in Call
         /\ call'[c].n = call[c].n /\ call'[c].outcome = call[c].outcome
         /\ call'[c].routing = routing /\ call'[c].ref = ref
         /\ \A d \in Callers \ {c} : call'[d] = call[d]
         /\ pc' = [pc EXCEPT ![c] = "reply"]
         /\ pc' \in [Callers -> PC]
<1> DEFINE told == [call[c] EXCEPT !.routing = routing, !.ref = ref]
<1>1. call \in [Callers -> {NoCall} \cup Call] /\ pc \in [Callers -> PC]
  BY DEF TypeOK
<1>2. /\ told \in Call
      /\ told.n = call[c].n /\ told.outcome = call[c].outcome
      /\ told.routing = routing /\ told.ref = ref
  BY DEF Call
<1>3. call' = [call EXCEPT ![c] = told]
  BY <1>1 DEF Told
<1>4. pc' = [pc EXCEPT ![c] = "reply"] /\ pc' \in [Callers -> PC]
  BY <1>1 DEF Told, GoTo, PC
<1> HIDE DEF told
<1> QED BY <1>1, <1>2, <1>3, <1>4

LEMMA TypedInit == Init => Typed
BY DeliveryAssumption
   DEF Init, Typed, TypeOK, InHand, HasRouter, Busy, PC, NoContainer

LEMMA TypedStep == Typed /\ [Next]_vars => Typed'
<1> SUFFICES ASSUME Typed, [Next]_vars PROVE Typed'
  OBVIOUS
<1> USE DeliveryAssumption
<1>1. calls \in Nat /\ calls <= MaxCalls
  BY DEF Typed, TypeOK
<1>2. ASSUME NEW c \in Callers, Escalate(c) PROVE Typed'
  <2>1. PICK s \in Surfaces, o \in Outcomes :
          call' = [call EXCEPT ![c] = [n |-> calls + 1, surface |-> s, outcome |-> o,
                                       routing |-> "failed", ref |-> NoRef]]
    BY <1>2 DEF Escalate
  <2>2. calls' = calls + 1 /\ calls' \in 0..MaxCalls
    BY <1>1, <1>2 DEF Escalate
  <2>3. Call \subseteq Call'
    BY <1>1, <2>2 DEF Call
  <2>4. call' \in [Callers -> {NoCall} \cup Call'] /\ call'[c] \in Call'
    <3>1. [n |-> calls + 1, surface |-> s, outcome |-> o,
           routing |-> "failed", ref |-> NoRef] \in Call'
      BY <1>1, <2>2 DEF Call, Routing
    <3> QED BY <2>1, <2>3, <3>1 DEF Typed, TypeOK
  <2>5. pc' = [pc EXCEPT ![c] = "bind"] /\ pc' \in [Callers -> PC]
    BY <1>2 DEF Escalate, GoTo, Typed, TypeOK, PC
  <2>6. TypeOK'
    BY <1>1, <1>2, <2>2, <2>4, <2>5 DEF Escalate, Typed, TypeOK, remote
  <2>7. InHand'
    BY <2>1, <2>3, <2>4, <2>5 DEF Typed, TypeOK, InHand, Busy
  <2>8. HasRouter'
    BY <1>1, <1>2, <2>2, <2>5 DEF Escalate, Typed, TypeOK, HasRouter
  <2> QED BY <2>6, <2>7, <2>8 DEF Typed
<1>3. ASSUME NEW c \in Callers, Bind(c) PROVE Typed'
  <2>1. call[c] \in Call /\ call' = call /\ calls' = calls
    BY <1>3 DEF Bind, At, Typed, InHand, Busy, counts
  <2>2. Call' = Call
    BY <2>1 DEF Call
  <2>3. PICK b \in 1..calls : router' = [router EXCEPT ![c] = b]
    BY <1>1, <1>3, <2>1 DEF Bind, Typed, TypeOK, Call, NoContainer
  <2>4. PICK p \in {"publish", "route"} : pc' = [pc EXCEPT ![c] = p]
    BY <1>3 DEF Bind, GoTo
  <2>5. TypeOK'
    BY <1>3, <2>1, <2>2, <2>3, <2>4 DEF Bind, Typed, TypeOK, PC, remote, counts
  <2>6. InHand' /\ HasRouter'
    BY <2>1, <2>2, <2>3, <2>4 DEF Typed, TypeOK, InHand, HasRouter, Busy
  <2> QED BY <2>5, <2>6 DEF Typed
<1>4. ASSUME NEW c \in Callers, Publish(c) PROVE Typed'
  <2>1. call[c] \in Call /\ call' = call /\ calls' = calls /\ router' = router
    BY <1>4 DEF Publish, At, Typed, InHand, Busy, counts
  <2>2. Call' = Call
    BY <2>1 DEF Call
  <2>3. cached' \in 0..calls
    BY <1>4 DEF Publish, At, Typed, TypeOK, HasRouter
  <2>4. pc' = [pc EXCEPT ![c] = "route"] /\ pc[c] = "publish"
    BY <1>4 DEF Publish, GoTo, At
  <2>5. TypeOK'
    BY <1>4, <2>1, <2>2, <2>3, <2>4 DEF Publish, Typed, TypeOK, PC, remote, counts
  <2>6. InHand' /\ HasRouter'
    BY <2>1, <2>2, <2>4 DEF Typed, TypeOK, InHand, HasRouter, Busy
  <2> QED BY <2>5, <2>6 DEF Typed
<1>5. ASSUME NEW c \in Callers, NEW routing \in Routing,
             NEW ref \in {NoRef} \cup {SourceKey(o) : o \in Outcomes},
             pc[c] \in {"route", "sent"}, Told(c, routing, ref),
             UNCHANGED <<binding, cached, router, wire, console, counts>>,
             queue' \in [1..MaxCalls -> SUBSET Reviews], replies' \subseteq replies
      PROVE  Typed'
  <2>1. call[c] \in Call /\ calls' = calls /\ crashes' = crashes
    BY <1>5 DEF Typed, InHand, Busy, counts
  <2>2. Call' = Call
    BY <2>1 DEF Call
  <2>3. /\ call' \in [Callers -> {NoCall} \cup Call] /\ call'[c] \in Call
        /\ \A d \in Callers \ {c} : call'[d] = call[d]
        /\ pc' = [pc EXCEPT ![c] = "reply"] /\ pc' \in [Callers -> PC]
    BY <1>5, <2>1, ToldEffect DEF Typed
  <2>4. TypeOK'
    BY <1>5, <2>1, <2>2, <2>3 DEF Typed, TypeOK
  <2>5. InHand'
    BY <2>2, <2>3 DEF Typed, TypeOK, InHand, Busy
  <2>6. HasRouter'
    BY <1>5, <2>1, <2>3 DEF Typed, TypeOK, HasRouter
  <2> QED BY <2>4, <2>5, <2>6 DEF Typed
<1>6. ASSUME NEW c \in Callers, RouteOff(c) \/ RouteRefuses(c) PROVE Typed'
  BY <1>5, <1>6 DEF RouteOff, RouteRefuses, At, remote, counts, Routing, Typed, TypeOK
<1>7. ASSUME NEW c \in Callers, Enqueue(c) PROVE Typed'
  <2>1. call[c] \in Call /\ router[c] \in 1..calls
    BY <1>7 DEF Enqueue, At, Typed, InHand, HasRouter, Busy
  <2>2. call[c].n \in 1..MaxCalls /\ call[c].outcome \in Outcomes
    BY <1>1, <2>1 DEF Call
  <2> DEFINE r == Review(call[c].n, call[c].outcome)
  <2>3. r \in Reviews /\ r.key = SourceKey(call[c].outcome)
    BY <2>2 DEF Reviews, Review
  <2>4. queue' = [queue EXCEPT ![router[c]] = @ \cup {r}] /\ Told(c, "routed", r.key)
    BY <1>7 DEF Enqueue
  <2> HIDE DEF r
  <2>5. queue' \in [1..MaxCalls -> SUBSET Reviews]
    BY <1>1, <2>1, <2>3, <2>4 DEF Typed, TypeOK
  <2> QED BY <1>5, <1>7, <2>2, <2>3, <2>4, <2>5 DEF Enqueue, At, remote, counts, Routing
<1>8. ASSUME NEW c \in Callers, Submit(c) PROVE Typed'
  <2>1. call[c] \in Call /\ call' = call /\ calls' = calls /\ router' = router
    BY <1>8 DEF Submit, At, Typed, InHand, Busy, counts
  <2>2. Call' = Call
    BY <2>1 DEF Call
  <2>3. call[c].n \in 1..calls /\ call[c].n \in 1..MaxCalls /\ call[c].outcome \in Outcomes
    BY <1>1, <2>1 DEF Call
  <2>4. wire' \subseteq [n : 1..calls, review : Reviews]
    BY <1>8, <2>3 DEF Submit, Typed, TypeOK, Reviews
  <2>5. pc' = [pc EXCEPT ![c] = "sent"] /\ pc[c] = "route"
    BY <1>8 DEF Submit, GoTo, At
  <2>6. TypeOK'
    BY <1>8, <2>1, <2>2, <2>4, <2>5 DEF Submit, Typed, TypeOK, PC, counts
  <2>7. InHand' /\ HasRouter'
    BY <2>1, <2>2, <2>5 DEF Typed, TypeOK, InHand, HasRouter, Busy
  <2> QED BY <2>6, <2>7 DEF Typed
<1>9. ASSUME NEW c \in Callers, SubmitReturns(c) PROVE Typed'
  <2>1. call[c] \in Call
    BY <1>9 DEF SubmitReturns, At, Typed, InHand, Busy
  <2>2. /\ call[c].outcome \in Outcomes
        /\ Review(call[c].n, call[c].outcome).key = SourceKey(call[c].outcome)
    BY <2>1 DEF Call, Review
  <2> QED BY <1>5, <1>9, <2>2 DEF SubmitReturns, At, counts, Routing, Typed, TypeOK
<1>10. ASSUME NEW c \in Callers, SubmitFails(c) PROVE Typed'
  BY <1>5, <1>10 DEF SubmitFails, At, counts, Routing, Typed, TypeOK
<1>11. ASSUME NEW c \in Callers, Reply(c) PROVE Typed'
  <2>1. calls' = calls
    BY <1>11 DEF Reply, counts
  <2>2. Call' = Call
    BY <2>1 DEF Call
  <2>3. /\ pc' = [pc EXCEPT ![c] = "idle"] /\ call' = [call EXCEPT ![c] = NoCall]
        /\ router' = [router EXCEPT ![c] = 0]
    BY <1>11 DEF Reply, GoTo, NoContainer
  <2>4. queue' \in [1..MaxCalls -> SUBSET Reviews]
    BY <1>11 DEF Reply, Typed, TypeOK
  <2>5. TypeOK'
    BY <1>1, <1>11, <2>1, <2>2, <2>3, <2>4 DEF Reply, Typed, TypeOK, PC, remote, counts
  <2>6. InHand' /\ HasRouter'
    BY <2>1, <2>2, <2>3 DEF Typed, TypeOK, InHand, HasRouter, Busy
  <2> QED BY <2>5, <2>6 DEF Typed
<1>12. ASSUME UNCHANGED <<binding, cached, local, queue, calls, crashes>>,
              wire' \subseteq wire, console' \subseteq Reviews, replies' \subseteq 1..calls
       PROVE  Typed'
  <2>1. pc' = pc /\ call' = call /\ router' = router /\ Call' = Call
    BY <1>12 DEF local, Call
  <2>2. TypeOK'
    BY <1>12, <2>1 DEF Typed, TypeOK
  <2> QED BY <1>12, <2>1, <2>2 DEF Typed, InHand, HasRouter, Busy
<1>13. CASE Arrive
  <2>1. PICK m \in wire :
          /\ console' = Stored(console, m.review)
          /\ wire' \in {wire, wire \ {m}}
          /\ replies' = IF Waiting(m.n) THEN replies \cup {m.n} ELSE replies
          /\ UNCHANGED <<binding, cached, local, queue, answers, counts>>
    BY <1>13 DEF Arrive
  <2>2. m.review \in Reviews /\ m.n \in 1..calls
    BY DEF Typed, TypeOK
  <2>3. console' \subseteq Reviews /\ replies' \subseteq 1..calls
    BY <2>1, <2>2 DEF Stored, Typed, TypeOK
  <2> QED BY <1>12, <2>1, <2>3 DEF counts
<1>14. CASE Lose
  BY <1>12, <1>14 DEF Lose, counts, Typed, TypeOK
<1>15. CASE Crash
  <2>1. calls' = calls /\ crashes' = crashes + 1 /\ crashes < MaxCrashes
    BY <1>15 DEF Crash
  <2>2. Call' = Call
    BY <2>1 DEF Call
  <2>3. TypeOK'
    BY <1>1, <1>15, <2>1, <2>2 DEF Crash, Typed, TypeOK, PC, NoContainer
  <2> QED BY <1>15, <2>3 DEF Crash, Typed, InHand, HasRouter, Busy
<1>16. CASE UNCHANGED vars
  <2>1. Call' = Call
    BY <1>16 DEF vars, counts, Call
  <2> QED BY <1>16, <2>1
          DEF vars, local, remote, counts, Typed, TypeOK, InHand, HasRouter, Busy
<1> QED
  BY <1>2, <1>3, <1>4, <1>6, <1>7, <1>8, <1>9, <1>10, <1>11, <1>13, <1>14, <1>15, <1>16
     DEF Next, HandOff

(* Callers, containers, submissions, reviews and references always have     *)
(* their types, and no reference is anything but the key of an outcome.     *)
THEOREM TypeCorrect == Spec => []TypeOK
<1>1. Spec => []Typed
  BY TypedInit, TypedStep, PTL DEF Spec
<1>2. Typed => TypeOK
  BY DEF Typed
<1> QED BY <1>1, <1>2, PTL

-----------------------------------------------------------------------------
(* What is routed is held                                                  *)

(* Two callers never have the same call in hand. *)
Numbered ==
  \A c, d \in Callers : Busy(c) /\ Busy(d) /\ call[c].n = call[d].n => c = d

(* A submission under the number of a call in hand is for its outcome. *)
Own ==
  \A m \in wire, c \in Callers :
    Busy(c) /\ call[c].n = m.n => m.review.outcome = call[c].outcome

(* Only a console binding leaves a call waiting for an answer. *)
SentToConsole == \A c \in Callers : At(c, "sent") => binding = "console"

(* The console holds the outcome of a call it has answered. *)
Answered ==
  \A c \in Callers :
    Busy(c) /\ call[c].n \in replies =>
      At(c, "sent") /\ HeldFor(call[c].outcome, SourceKey(call[c].outcome), console)

(* A surface about to report a routed outcome has it in the console. *)
ReplyIsHeld ==
  binding = "console" =>
    \A c \in Callers : At(c, "reply") /\ call[c].routing = "routed" =>
      HeldFor(call[c].outcome, call[c].ref, console)

(* The console has one review for a key. *)
KeysAreUnique == \A r, s \in console : r.key = s.key => r = s

IInv ==
  /\ Typed
  /\ Numbered
  /\ Own
  /\ SentToConsole
  /\ Answered
  /\ ReplyIsHeld
  /\ KeysAreUnique
  /\ RoutedIsHeld

LEMMA HeldForMore ==
  ASSUME NEW o, NEW ref, NEW R, NEW S, R \subseteq S, HeldFor(o, ref, R)
  PROVE  HeldFor(o, ref, S)
BY DEF HeldFor

(* A stored review is held, in place of an earlier one of its key perhaps, *)
(* and nothing is lost or doubled.                                         *)
LEMMA StoredReview ==
  ASSUME console \subseteq Reviews, NEW r \in Reviews
  PROVE  /\ console \subseteq Stored(console, r)
         /\ HeldFor(r.outcome, SourceKey(r.outcome), Stored(console, r))
         /\ KeysAreUnique =>
              \A h, i \in Stored(console, r) : h.key = i.key => h = i
<1>1. r.outcome \in Outcomes /\ r.key = SourceKey(r.outcome)
  BY DEF Reviews, Review
<1>2. CASE \E h \in console : h.key = r.key
  <2>1. PICK h \in console : h.key = r.key
    BY <1>2
  <2>2. h.outcome \in Outcomes /\ h.key = SourceKey(h.outcome)
    BY DEF Reviews, Review
  <2>3. h.outcome.kind = r.outcome.kind /\ CaseRef(h.outcome) = CaseRef(r.outcome)
    BY <1>1, <2>1, <2>2, KeyNamesOutcome
  <2>4. Stored(console, r) = console
    BY <1>2 DEF Stored
  <2> QED BY <1>1, <2>1, <2>3, <2>4 DEF HeldFor, KeysAreUnique
<1>3. CASE ~ \E h \in console : h.key = r.key
  <2>1. Stored(console, r) = console \cup {r}
    BY <1>3 DEF Stored
  <2> QED BY <1>1, <1>3, <2>1 DEF HeldFor, KeysAreUnique
<1> QED BY <1>2, <1>3

LEMMA InvInit == Init => IInv
<1> SUFFICES ASSUME Init PROVE IInv
  OBVIOUS
<1>1. Typed
  BY TypedInit
<1> QED
  BY <1>1 DEF Init, IInv, Numbered, Own, SentToConsole, Answered, ReplyIsHeld, KeysAreUnique,
              RoutedIsHeld, Busy, At

LEMMA InvStep == IInv /\ [Next]_vars => IInv'
<1> SUFFICES ASSUME IInv, [Next]_vars PROVE IInv'
  OBVIOUS
<1> USE DEF IInv
<1>1. Typed'
  BY TypedStep
<1>2. /\ calls \in Nat
      /\ pc \in [Callers -> PC] /\ call \in [Callers -> {NoCall} \cup Call]
      /\ console \subseteq Reviews /\ wire \subseteq [n : 1..calls, review : Reviews]
      /\ replies \subseteq 1..calls
      /\ \A c \in Callers : Busy(c) =>
           /\ call[c] \in Call
           /\ call[c].n \in 1..calls /\ call[c].outcome \in Outcomes
  BY DeliveryAssumption DEF Typed, TypeOK, InHand, Call
<1>3. ASSUME NEW c \in Callers, Escalate(c) PROVE IInv'
  <2>1. /\ binding' = binding /\ router' = router /\ queue' = queue /\ wire' = wire
        /\ replies' = replies /\ console' = console /\ answers' = answers
    BY <1>3 DEF Escalate, remote
  <2>2. pc' = [pc EXCEPT ![c] = "bind"]
    BY <1>3 DEF Escalate, GoTo
  <2>3. call'[c].n = calls + 1 /\ \A d \in Callers \ {c} : call'[d] = call[d]
    BY <1>2, <1>3 DEF Escalate
  <2>4. Numbered'
    BY <1>2, <2>2, <2>3 DEF Numbered, Busy
  <2>5. Own'
    BY <1>2, <2>1, <2>2, <2>3 DEF Own, Busy
  <2>6. SentToConsole'
    BY <1>2, <2>1, <2>2 DEF SentToConsole, At
  <2>7. Answered'
    BY <1>2, <2>1, <2>2, <2>3 DEF Answered, Busy, At
  <2>8. ReplyIsHeld' /\ RoutedIsHeld'
    BY <1>2, <2>1, <2>2, <2>3 DEF ReplyIsHeld, RoutedIsHeld, At
  <2> QED BY <1>1, <2>1, <2>4, <2>5, <2>6, <2>7, <2>8 DEF KeysAreUnique
<1>4. ASSUME NEW c \in Callers, Bind(c) \/ Publish(c) PROVE IInv'
  <2>1. /\ binding' = binding /\ call' = call /\ queue' = queue /\ wire' = wire
        /\ replies' = replies /\ console' = console /\ answers' = answers
        /\ \A d \in Callers \ {c} : router'[d] = router[d]
    BY <1>4 DEF Bind, Publish, remote, Typed, TypeOK
  <2>2. pc[c] \in {"bind", "publish"} /\ \E p \in {"publish", "route"} : pc' = [pc EXCEPT ![c] = p]
    BY <1>4 DEF Bind, Publish, GoTo, At
  <2>3. Numbered' /\ Own'
    BY <1>2, <2>1, <2>2 DEF Numbered, Own, Busy
  <2>4. SentToConsole' /\ Answered'
    BY <1>2, <2>1, <2>2 DEF SentToConsole, Answered, Busy, At
  <2>5. ReplyIsHeld' /\ RoutedIsHeld'
    BY <1>2, <2>1, <2>2 DEF ReplyIsHeld, RoutedIsHeld, At
  <2> QED BY <1>1, <2>1, <2>3, <2>4, <2>5 DEF KeysAreUnique
<1>5. ASSUME NEW c \in Callers, pc[c] \in {"route", "sent"}, NEW routing \in Routing,
             NEW ref \in {NoRef} \cup {SourceKey(o) : o \in Outcomes},
             Told(c, routing, ref),
             UNCHANGED <<binding, router, wire, console, answers>>,
             replies' \subseteq replies, call[c].n \notin replies',
             \A b \in 1..calls : queue[b] \subseteq queue'[b],
             routing = "routed" =>
               /\ binding = "console" => HeldFor(call[c].outcome, ref, console)
               /\ binding = "outbox" => HeldFor(call[c].outcome, ref, queue'[router[c]])
      PROVE  IInv'
  <2>1. /\ call'[c].n = call[c].n /\ call'[c].outcome = call[c].outcome
        /\ call'[c].routing = routing /\ call'[c].ref = ref
        /\ \A d \in Callers \ {c} : call'[d] = call[d]
        /\ pc' = [pc EXCEPT ![c] = "reply"]
    BY <1>2, <1>5, ToldEffect DEF Typed, Busy
  <2>2. Numbered' /\ Own'
    BY <1>2, <1>5, <2>1 DEF Numbered, Own, Busy
  <2>3. SentToConsole'
    BY <1>2, <1>5, <2>1 DEF SentToConsole, At
  <2>4. Answered'
    BY <1>2, <1>5, <2>1 DEF Answered, Busy, At
  <2>5. ReplyIsHeld'
    BY <1>2, <1>5, <2>1 DEF ReplyIsHeld, At
  <2>6. ASSUME binding = "outbox", NEW d \in Callers, pc'[d] = "reply", call'[d].routing = "routed"
        PROVE  HeldFor(call'[d].outcome, call'[d].ref, queue'[router'[d]])
    <3>1. CASE d = c
      BY <1>5, <2>1, <2>6, <3>1
    <3>2. CASE d # c
      <4>1. pc[d] = "reply" /\ call'[d] = call[d] /\ router'[d] = router[d]
        BY <1>2, <1>5, <2>1, <2>6, <3>2
      <4>2. router[d] \in 1..calls
        BY <4>1 DEF Typed, HasRouter
      <4>3. HeldFor(call[d].outcome, call[d].ref, queue[router[d]])
        BY <2>6, <4>1 DEF RoutedIsHeld, At
      <4> QED BY <1>5, <4>1, <4>2, <4>3, HeldForMore
    <3> QED BY <3>1, <3>2
  <2>7. RoutedIsHeld'
    BY <1>5, <2>6 DEF RoutedIsHeld, At
  <2> QED BY <1>1, <1>5, <2>2, <2>3, <2>4, <2>5, <2>7 DEF KeysAreUnique
<1>6. ASSUME NEW c \in Callers, RouteOff(c) \/ RouteRefuses(c) PROVE IInv'
  <2>1. pc[c] = "route" /\ call[c].n \notin replies
    BY <1>6 DEF RouteOff, RouteRefuses, At, Answered, Busy
  <2> QED BY <1>5, <1>6, <2>1 DEF RouteOff, RouteRefuses, remote, Routing
<1>7. ASSUME NEW c \in Callers, Enqueue(c) PROVE IInv'
  <2> DEFINE r == Review(call[c].n, call[c].outcome)
  <2>1. pc[c] = "route" /\ call[c].n \notin replies /\ binding = "outbox"
    BY <1>7 DEF Enqueue, At, Answered, Busy
  <2>2. router[c] \in 1..calls /\ call[c].outcome \in Outcomes /\ calls <= MaxCalls
    BY <1>2, <2>1, DeliveryAssumption DEF Typed, TypeOK, HasRouter, Busy
  <2>3. r.key = SourceKey(call[c].outcome) /\ r.outcome = call[c].outcome
    BY DEF Review
  <2>4. queue' = [queue EXCEPT ![router[c]] = @ \cup {r}] /\ Told(c, "routed", r.key)
    BY <1>7 DEF Enqueue
  <2> HIDE DEF r
  <2>5. queue'[router[c]] = queue[router[c]] \cup {r} /\ \A b \in 1..calls : queue[b] \subseteq queue'[b]
    BY <1>2, <2>2, <2>4, DeliveryAssumption DEF Typed, TypeOK
  <2>6. HeldFor(call[c].outcome, r.key, queue'[router[c]])
    BY <2>3, <2>5 DEF HeldFor
  <2> QED BY <1>5, <1>7, <2>1, <2>2, <2>3, <2>4, <2>5, <2>6 DEF Enqueue, remote, Routing
<1>8. ASSUME NEW c \in Callers, Submit(c) PROVE IInv'
  <2>1. /\ binding' = binding /\ call' = call /\ router' = router /\ queue' = queue
        /\ replies' = replies /\ console' = console /\ answers' = answers
        /\ binding = "console"
    BY <1>8 DEF Submit
  <2>2. pc' = [pc EXCEPT ![c] = "sent"] /\ pc[c] = "route"
    BY <1>8 DEF Submit, GoTo, At
  <2> DEFINE m == [n |-> call[c].n, review |-> Review(call[c].n, call[c].outcome)]
  <2>3. wire' = wire \cup {m} /\ m.n = call[c].n /\ m.review.outcome = call[c].outcome
    BY <1>8 DEF Submit, Review
  <2> HIDE DEF m
  <2>4. Numbered'
    BY <1>2, <2>1, <2>2 DEF Numbered, Busy
  <2>5. Own'
    BY <1>2, <2>1, <2>2, <2>3 DEF Numbered, Own, Busy
  <2>6. SentToConsole' /\ Answered'
    BY <1>2, <2>1, <2>2 DEF SentToConsole, Answered, Busy, At
  <2>7. ReplyIsHeld' /\ RoutedIsHeld'
    BY <1>2, <2>1, <2>2 DEF ReplyIsHeld, RoutedIsHeld, At
  <2> QED BY <1>1, <2>1, <2>4, <2>5, <2>6, <2>7 DEF KeysAreUnique
<1>9. ASSUME NEW c \in Callers, SubmitReturns(c) PROVE IInv'
  <2>1. pc[c] = "sent" /\ call[c].n \in replies /\ binding = "console"
    BY <1>9 DEF SubmitReturns, At, SentToConsole
  <2>2. HeldFor(call[c].outcome, SourceKey(call[c].outcome), console)
    BY <2>1 DEF Answered, Busy
  <2>3. /\ call[c].outcome \in Outcomes
        /\ Review(call[c].n, call[c].outcome).key = SourceKey(call[c].outcome)
    BY <1>2, <2>1 DEF Busy, Review
  <2>4. replies' = replies \ {call[c].n} /\ queue' = queue
    BY <1>9 DEF SubmitReturns
  <2> QED BY <1>5, <1>9, <2>1, <2>2, <2>3, <2>4 DEF SubmitReturns, Routing
<1>10. ASSUME NEW c \in Callers, SubmitFails(c) PROVE IInv'
  <2>1. pc[c] = "sent" /\ replies' = replies \ {call[c].n} /\ queue' = queue
    BY <1>10 DEF SubmitFails, At
  <2> QED BY <1>5, <1>10, <2>1 DEF SubmitFails, Routing
<1>11. ASSUME NEW c \in Callers, Reply(c) PROVE IInv'
  <2>1. /\ binding' = binding /\ wire' = wire /\ replies' = replies /\ console' = console
        /\ pc[c] = "reply" /\ pc' = [pc EXCEPT ![c] = "idle"]
        /\ \A d \in Callers \ {c} : call'[d] = call[d] /\ router'[d] = router[d]
    BY <1>2, <1>11 DEF Reply, GoTo, At, remote, Typed, TypeOK
  <2>2. answers' = answers \cup
          {[outcome |-> call[c].outcome, routing |-> call[c].routing, ref |-> call[c].ref]}
    BY <1>11 DEF Reply
  <2>3. Numbered' /\ Own'
    BY <1>2, <2>1 DEF Numbered, Own, Busy
  <2>4. SentToConsole' /\ Answered'
    BY <1>2, <2>1 DEF SentToConsole, Answered, Busy, At
  <2>5. ReplyIsHeld'
    BY <1>2, <2>1 DEF ReplyIsHeld, At
  <2>6. ASSUME binding = "console", NEW a \in answers', a.routing = "routed"
        PROVE  HeldFor(a.outcome, a.ref, console)
    BY <2>1, <2>2, <2>6 DEF RoutedIsHeld, ReplyIsHeld, At
  <2>7. ASSUME binding = "outbox", NEW d \in Callers, pc'[d] = "reply", call'[d].routing = "routed"
        PROVE  HeldFor(call'[d].outcome, call'[d].ref, queue'[router'[d]])
    <3>1. d # c /\ pc[d] = "reply" /\ call'[d] = call[d] /\ router'[d] = router[d]
      BY <1>2, <2>1, <2>7
    <3>2. router[d] \in 1..MaxCalls
      BY <1>2, <3>1, DeliveryAssumption DEF Typed, TypeOK, HasRouter
    <3>3. queue'[router[d]] = queue[router[d]]
      BY <1>11, <3>1, <3>2 DEF Reply
    <3> QED BY <2>7, <3>1, <3>3 DEF RoutedIsHeld, At
  <2>8. RoutedIsHeld'
    BY <2>1, <2>6, <2>7 DEF RoutedIsHeld, At
  <2> QED BY <1>1, <2>1, <2>3, <2>4, <2>5, <2>8 DEF KeysAreUnique
<1>12. CASE Arrive
  <2>1. PICK m \in wire :
          /\ console' = Stored(console, m.review)
          /\ wire' \in {wire, wire \ {m}}
          /\ replies' = IF Waiting(m.n) THEN replies \cup {m.n} ELSE replies
          /\ UNCHANGED <<binding, cached, local, queue, answers, counts>>
    BY <1>12 DEF Arrive
  <2>2. /\ binding' = binding /\ pc' = pc /\ call' = call /\ router' = router
        /\ queue' = queue /\ answers' = answers /\ wire' \subseteq wire
    BY <2>1 DEF local
  <2>3. m.review \in Reviews
    BY <1>2
  <2>4. /\ console \subseteq console'
        /\ HeldFor(m.review.outcome, SourceKey(m.review.outcome), console')
        /\ KeysAreUnique'
    BY <1>2, <2>1, <2>3, StoredReview DEF KeysAreUnique
  <2>5. Numbered' /\ Own' /\ SentToConsole'
    BY <2>2 DEF Numbered, Own, SentToConsole, Busy, At
  <2>6. ASSUME NEW c \in Callers, Busy(c), call[c].n \in replies'
        PROVE  At(c, "sent") /\ HeldFor(call[c].outcome, SourceKey(call[c].outcome), console')
    <3>1. CASE call[c].n \in replies
      BY <2>4, <2>6, <3>1, HeldForMore DEF Answered
    <3>2. CASE call[c].n = m.n /\ Waiting(m.n)
      <4>1. At(c, "sent")
        BY <2>6, <3>2 DEF Waiting, Numbered, Busy, At
      <4>2. m.review.outcome = call[c].outcome
        BY <2>6, <3>2 DEF Own
      <4> QED BY <2>4, <4>1, <4>2
    <3> QED BY <2>1, <2>6, <3>1, <3>2
  <2>7. Answered'
    BY <2>2, <2>6 DEF Answered, Busy, At
  <2>8. ReplyIsHeld' /\ RoutedIsHeld'
    BY <2>2, <2>4, HeldForMore DEF ReplyIsHeld, RoutedIsHeld, At
  <2> QED BY <1>1, <2>4, <2>5, <2>7, <2>8
<1>13. CASE Lose
  <2>1. /\ binding' = binding /\ pc' = pc /\ call' = call /\ router' = router
        /\ queue' = queue /\ answers' = answers /\ wire' \subseteq wire
        /\ replies' = replies /\ console' = console
    BY <1>13 DEF Lose, local
  <2> QED BY <1>1, <2>1 DEF Numbered, Own, SentToConsole, Answered, ReplyIsHeld,
                            KeysAreUnique, RoutedIsHeld, Busy, At
<1>14. CASE Crash
  <2>1. /\ binding' = binding /\ answers' = answers /\ console' = console
        /\ \A c \in Callers : pc'[c] = "idle"
    BY <1>14 DEF Crash
  <2> QED BY <1>1, <2>1 DEF Numbered, Own, SentToConsole, Answered, ReplyIsHeld,
                            KeysAreUnique, RoutedIsHeld, Busy, At
<1>15. CASE UNCHANGED vars
  BY <1>1, <1>15 DEF vars, local, remote, counts, Numbered, Own, SentToConsole, Answered,
                     ReplyIsHeld, KeysAreUnique, RoutedIsHeld, Busy, At
<1> QED
  BY <1>3, <1>4, <1>6, <1>7, <1>8, <1>9, <1>10, <1>11, <1>12, <1>13, <1>14, <1>15
     DEF Next, HandOff

LEMMA Invariant == Spec => []IInv
BY InvInit, InvStep, PTL DEF Spec

(* What a caller was told is routed is held by the console under the        *)
(* reference it was given, for its kind and case, whatever the network did  *)
(* and whatever separators the identifiers contain; what a surface is about *)
(* to report is in its outbox.                                              *)
THEOREM RoutedStaysHeld == Spec => []RoutedIsHeld
<1>1. IInv => RoutedIsHeld
  BY DEF IInv
<1> QED BY <1>1, Invariant, PTL

(* However often and however late a hand-off is repeated, the console has   *)
(* one review of the outcome.                                               *)
THEOREM RetriesAreIdempotent == Spec => []OneReviewPerOutcome
<1>1. IInv => OneReviewPerOutcome
  <2> SUFFICES ASSUME IInv, NEW r \in console, NEW s \in console, r.outcome = s.outcome
               PROVE  r = s
    BY DEF OneReviewPerOutcome
  <2>1. r.key = SourceKey(r.outcome) /\ s.key = SourceKey(s.outcome)
    BY DEF IInv, Typed, TypeOK, Reviews, Review
  <2> QED BY <2>1 DEF IInv, KeysAreUnique
<1> QED BY <1>1, Invariant, PTL
=============================================================================
