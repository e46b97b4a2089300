--------------------------- MODULE ReviewDelivery ---------------------------
(***************************************************************************)
(* The hand-off of one reviewable outcome to its reviewers, from the       *)
(* surface that owns it (the API, the agent tool, the CLI) through the     *)
(* router the container binds to the review console or to the outbox.      *)
(*                                                                         *)
(* The router lives in a container.  The API caches one container, lazily  *)
(* and without a lock; the tool and the CLI build one for each call, and   *)
(* it goes when the call returns.  The console is a service behind a       *)
(* network: a submission or its answer may be lost, late or repeated, and  *)
(* the client gives up after its timeout.                                  *)
(***************************************************************************)
EXTENDS Naturals, Sequences

CONSTANTS
  Callers,       \* threads of the API, of an agent runtime, or shells
  Outcomes,      \* the outcomes that require review
  Surfaces,      \* where the callers call from
  Bindings,      \* the router bindings to consider
  MaxCalls,      \* bound: hand-offs in a behaviour
  MaxCrashes     \* bound: losses of the serving process

Surface == {"api", "tool", "cli"}

(* What a container may bind as its review router. *)
Binding == {"off", "outbox", "console", "console_unset", "onprem"}

Routing == {"routed", "failed", "off"}

(* An outcome is an item assessment or a pack.  Identifiers are free       *)
(* strings, hence sequences in which the separator may occur.              *)
Outcome == [kind : {"item", "pack"}, request : Seq(STRING), item : Seq(STRING)]

ASSUME DeliveryAssumption ==
  /\ Outcomes \subseteq Outcome
  /\ Surfaces \subseteq Surface
  /\ Bindings \subseteq Binding
  /\ MaxCalls \in Nat
  /\ MaxCrashes \in Nat

VARIABLES
  binding,   \* the router binding of the deployment
  cached,    \* the container the API has cached, or NoContainer
  pc,        \* control point of each caller
  call,      \* the call in hand of each caller
  router,    \* the container whose router each caller has in hand
  queue,     \* the outbox of each container
  wire,      \* submissions on their way to the console
  replies,   \* numbers of the calls the console has answered in time
  console,   \* the reviews the console holds
  answers,   \* what callers were told
  calls,     \* hand-offs so far
  crashes    \* losses of the serving process so far

local  == <<pc, call, router>>
remote == <<wire, replies, console>>
counts == <<calls, crashes>>
vars == <<binding, cached, local, queue, remote, answers, counts>>

(* A container is known by the number of the call that built it. *)
NoContainer == 0

NoRef == << >>
NoCall == [n |-> 0]
PC == {"idle", "bind", "publish", "route", "sent", "reply"}

CaseRef(o) ==
  IF o.kind = "item" THEN o.request \o <<":">> \o o.item ELSE o.request

(* A slip: the key does not say what kind of outcome it is. *)
SourceKey_NoKind(o) == CaseRef(o)

SourceKey(o) == CaseRef(o) \o <<":", o.kind>>

(* A slip: every attempt has a key of its own. *)
Review_PerCall(n, o) ==
  [key |-> SourceKey(o) \o [i \in 1..n |-> ":"], outcome |-> o, attempt |-> n]

(* The review built from the outcome in hand by call n. *)
Review(n, o) == [key |-> SourceKey(o), outcome |-> o, attempt |-> n]

(* The console keeps one review for each key, the first. *)
Stored(held, r) ==
  IF \E h \in held : h.key = r.key THEN held ELSE held \cup {r}

Init ==
  /\ binding \in Bindings
  /\ cached = NoContainer
  /\ pc = [c \in Callers |-> "idle"]
  /\ call = [c \in Callers |-> NoCall]
  /\ router = [c \in Callers |-> NoContainer]
  /\ queue = [b \in 1..MaxCalls |-> {}]
  /\ wire = {} /\ replies = {} /\ console = {} /\ answers = {}
  /\ calls = 0 /\ crashes = 0

At(c, p) == pc[c] = p
GoTo(c, p) == pc' = [pc EXCEPT ![c] = p]

-----------------------------------------------------------------------------
(* The surface                                                             *)

(* A surface has an escalated outcome to hand off, for the first time or   *)
(* because its caller sent the request again.                              *)
Escalate(c) ==
  /\ At(c, "idle") /\ calls < MaxCalls
  /\ \E s \in Surfaces, o \in Outcomes :
       call' = [call EXCEPT ![c] =
                  [n |-> calls + 1, surface |-> s, outcome |-> o, routing |-> "failed", ref |-> NoRef]]
  /\ calls' = calls + 1
  /\ GoTo(c, "bind")
  /\ UNCHANGED <<binding, cached, router, queue, remote, answers, crashes>>

(* The tool and the CLI build a container; the API looks for the cached    *)
(* one, and builds one when there is none.                                 *)
Bind(c) ==
  /\ At(c, "bind")
  /\ IF call[c].surface = "api" /\ cached # NoContainer
     THEN /\ router' = [router EXCEPT ![c] = cached]
          /\ GoTo(c, "route")
     ELSE /\ router' = [router EXCEPT ![c] = call[c].n]
          /\ GoTo(c, IF call[c].surface = "api" THEN "publish" ELSE "route")
  /\ UNCHANGED <<binding, cached, call, queue, remote, answers, counts>>

(* The built container is cached.  Nothing is locked: when another thread  *)
(* has cached its own meanwhile, either stays, and each thread goes on     *)
(* with the one it built.                                                  *)
Publish(c) ==
  /\ At(c, "publish")
  /\ cached' \in {router[c]} \cup ({cached} \ {NoContainer})
  /\ GoTo(c, "route")
  /\ UNCHANGED <<binding, call, router, queue, remote, answers, counts>>

-----------------------------------------------------------------------------
(* The recording wrapper and the routers                                   *)

Told(c, routing, ref) ==
  /\ call' = [call EXCEPT ![c].routing = routing, ![c].ref = ref]
  /\ GoTo(c, "reply")

RouteOff(c) ==
  /\ At(c, "route") /\ binding = "off"
  /\ Told(c, "off", NoRef)
  /\ UNCHANGED <<binding, cached, router, queue, remote, answers, counts>>

(* The placeholder and a managed router without a console URL raise. *)
RouteRefuses(c) ==
  /\ At(c, "route") /\ binding \in {"onprem", "console_unset"}
  /\ Told(c, "failed", NoRef)
  /\ UNCHANGED <<binding, cached, router, queue, remote, answers, counts>>

Enqueue(c) ==
  LET review == Review(call[c].n, call[c].outcome)
  IN  /\ At(c, "route") /\ binding = "outbox"
      /\ queue' = [queue EXCEPT ![router[c]] = @ \cup {review}]
      /\ Told(c, "routed", review.key)
      /\ UNCHANGED <<binding, cached, router, remote, answers, counts>>

Submit(c) ==
  /\ At(c, "route") /\ binding = "console"
  /\ wire' = wire \cup {[n |-> call[c].n, review |-> Review(call[c].n, call[c].outcome)]}
  /\ GoTo(c, "sent")
  /\ UNCHANGED <<binding, cached, call, router, queue, replies, console, answers, counts>>

(* The console's answer reaches the client in time. *)
SubmitReturns(c) ==
  /\ At(c, "sent") /\ call[c].n \in replies
  /\ replies' = replies \ {call[c].n}
  /\ Told(c, "routed", Review(call[c].n, call[c].outcome).key)
  /\ UNCHANGED <<binding, cached, router, queue, wire, console, answers, counts>>

(* A slip: the client has no time-out, and fails only when it is refused. *)
SubmitFails_Patient(c) ==
  /\ At(c, "sent") /\ call[c].n \in replies
  /\ replies' = replies \ {call[c].n}
  /\ Told(c, "failed", NoRef)
  /\ UNCHANGED <<binding, cached, router, queue, wire, console, answers, counts>>

(* The client raises: refused, unreachable, or out of time with the        *)
(* submission or its answer still under way.                               *)
SubmitFails(c) ==
  /\ At(c, "sent")
  /\ replies' = replies \ {call[c].n}
  /\ Told(c, "failed", NoRef)
  /\ UNCHANGED <<binding, cached, router, queue, wire, console, answers, counts>>

(* The caller is answered.  A container that is not cached goes when the   *)
(* last call that uses it is over.                                         *)
Reply(c) ==
  /\ At(c, "reply")
  /\ answers' = answers \cup
       {[outcome |-> call[c].outcome, routing |-> call[c].routing, ref |-> call[c].ref]}
  /\ queue' = [b \in 1..MaxCalls |->
                 IF b = cached \/ \E d \in Callers \ {c} : router[d] = b THEN queue[b] ELSE {}]
  /\ call' = [call EXCEPT ![c] = NoCall]
  /\ router' = [router EXCEPT ![c] = NoContainer]
  /\ GoTo(c, "idle")
  /\ UNCHANGED <<binding, cached, remote, counts>>

-----------------------------------------------------------------------------
(* The network and the console                                             *)

Waiting(n) == \E c \in Callers : At(c, "sent") /\ call[c].n = n

(* A submission arrives, possibly late, possibly not for the last time. *)
Arrive ==
  \E m \in wire :
    /\ console' = Stored(console, m.review)
    /\ wire' \in {wire, wire \ {m}}
    /\ replies' = IF Waiting(m.n) THEN replies \cup {m.n} ELSE replies
    /\ UNCHANGED <<binding, cached, local, queue, answers, counts>>

Lose ==
  \E m \in wire :
    /\ wire' = wire \ {m}
    /\ UNCHANGED <<binding, cached, local, queue, replies, console, answers, counts>>

(* The serving process is lost, and with it its containers and its calls. *)
Crash ==
  /\ crashes < MaxCrashes
  /\ crashes' = crashes + 1
  /\ cached' = NoContainer
  /\ pc' = [c \in Callers |-> "idle"]
  /\ call' = [c \in Callers |-> NoCall]
  /\ router' = [c \in Callers |-> NoContainer]
  /\ queue' = [b \in 1..MaxCalls |-> {}]
  /\ replies' = {}
  /\ UNCHANGED <<binding, wire, console, answers, calls>>

HandOff(c) ==
  \/ Bind(c) \/ Publish(c)
  \/ RouteOff(c) \/ RouteRefuses(c) \/ Enqueue(c)
  \/ Submit(c) \/ SubmitReturns(c) \/ SubmitFails(c)
  \/ Reply(c)

Next ==
  \/ \E c \in Callers : Escalate(c) \/ HandOff(c)
  \/ Arrive \/ Lose \/ Crash

Spec == Init /\ [][Next]_vars

(* The client has a timeout and everything else in a hand-off is local, so *)
(* a caller's thread keeps going.  The network promises nothing.           *)
FairSpec == Spec /\ \A c \in Callers : WF_vars(HandOff(c))

-----------------------------------------------------------------------------
(* Properties                                                              *)

Call == [n : 1..calls, surface : Surfaces, outcome : Outcomes, routing : Routing,
         ref : {NoRef} \cup {SourceKey(o) : o \in Outcomes}]

Reviews == {Review(n, o) : n \in 1..MaxCalls, o \in Outcomes}

TypeOK ==
  /\ binding \in Bindings
  /\ calls \in 0..MaxCalls /\ crashes \in 0..MaxCrashes
  /\ cached \in 0..calls
  /\ pc \in [Callers -> PC]
  /\ call \in [Callers -> {NoCall} \cup Call]
  /\ router \in [Callers -> 0..calls]
  /\ queue \in [1..MaxCalls -> SUBSET Reviews]
  /\ wire \subseteq [n : 1..calls, review : Reviews]
  /\ replies \subseteq 1..calls
  /\ console \subseteq Reviews

HeldFor(o, ref, reviews) ==
  \E r \in reviews :
    r.key = ref /\ r.outcome.kind = o.kind /\ CaseRef(r.outcome) = CaseRef(o)

(* Whoever is told that an outcome was routed to the console can look the   *)
(* reference up: the console holds it, for an outcome of the same kind and  *)
(* case, however late, lost or repeated anything was, and whatever was sent *)
(* before; and a surface about to say so of an outbox finds it there,       *)
(* whoever built that outbox (rule R8; "an item exception and a pack        *)
(* approval never collapse into one review", _review_payload.py:94).        *)
RoutedIsHeld ==
  /\ binding = "console" =>
       \A a \in answers : a.routing = "routed" => HeldFor(a.outcome, a.ref, console)
  /\ binding = "outbox" =>
       \A c \in Callers : At(c, "reply") /\ call[c].routing = "routed" =>
         HeldFor(call[c].outcome, call[c].ref, queue[router[c]])

(* The console never has two reviews of one outcome, although a hand-off    *)
(* that timed out is made again with the request and the first may still    *)
(* arrive ("a retried delivery is idempotent at the console").              *)
OneReviewPerOutcome ==
  \A r, s \in console : r.outcome = s.outcome => r = s

(* Every hand-off comes back with an answer for its surface, whatever the   *)
(* network does, unless the process is lost.                                *)
HandOffReturns ==
  \A c \in Callers : (pc[c] # "idle") ~> (pc[c] = "idle")
=============================================================================
