----------------------------- MODULE ModelText -----------------------------
(***************************************************************************)
(* What rule R1 promises about one generation call, seen from the call     *)
(* sites of ResponsePackService: a call is answered with screened text, or *)
(* there is no model text because the port could not answer, or there is   *)
(* no model text because a screen refused AND that refusal is on the       *)
(* audit trail, or the whole request fails.  ScreenedGeneration is the     *)
(* detailed specification that implements this one.                        *)
(***************************************************************************)
CONSTANT Call          \* the generation calls of one request

VARIABLES
  outcome,             \* outcome[c]: what the call site of c was given
  blocked              \* the calls with a Decision.BLOCKED audit record

Outcome == {"pending", "answered", "failed", "refused", "raised"}

TypeOK == outcome \in [Call -> Outcome] /\ blocked \subseteq Call

Init ==
  /\ outcome = [c \in Call |-> "pending"]
  /\ blocked = {}

Settle(c, o) ==
  /\ outcome[c] = "pending"
  /\ outcome' = [outcome EXCEPT ![c] = o]

\* Both screens allowed: the call site gets the screened text.
Answer(c) == Settle(c, "answered") /\ UNCHANGED blocked

\* The generation port raised: "no model text", nothing to audit.
Fail(c) == Settle(c, "failed") /\ UNCHANGED blocked

\* A screen refused or could not decide: audited, then "no model text".
Refuse(c) == Settle(c, "refused") /\ blocked' = blocked \cup {c}

\* The sink raised, with or without having stored it: the request fails.
Raise(c) == Settle(c, "raised") /\ blocked' \in {blocked, blocked \cup {c}}

Next == \E c \in Call : Answer(c) \/ Fail(c) \/ Refuse(c) \/ Raise(c)

vars == <<outcome, blocked>>

Spec == Init /\ [][Next]_vars
=============================================================================
