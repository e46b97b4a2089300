------------------------- MODULE EscalationContract -------------------------
(***************************************************************************)
(* What rules R2, R8 and P2 promise about the outcomes of a request,       *)
(* without saying how threads, stores and failures get there: an outcome   *)
(* goes on the audit trail first; only then is it handed off, once, and    *)
(* only if it requires review; the pack is handed off after the items; and *)
(* a request replies only when every outcome of it that requires review    *)
(* has been handed off, the pack always being one of them.                 *)
(***************************************************************************)
EXTENDS Naturals

CONSTANTS
  Request,
  Items(_)             \* Items(r): the positions of r's items, 0 is its pack

Outcome == UNION {{r} \X ({0} \cup Items(r)) : r \in Request}

VARIABLES
  assessed,            \* assessed[o]: "no", or the decision on the trail
  handed,              \* handed[o]: what became of its hand-off
  replied              \* the requests the caller has an answer to

vars == <<assessed, handed, replied>>

HandOffs == {"routed", "failed", "off"}

Init ==
  /\ assessed = [o \in Outcome |-> "no"]
  /\ handed = [o \in Outcome |-> "no"]
  /\ replied = {}

Settled(o) ==
  \/ assessed[o] = "ALLOWED"
  \/ assessed[o] = "ESCALATED" /\ handed[o] # "no"

ItemsSettled(r) == \A p \in Items(r) : Settled(<<r, p>>)

Assess(r, p, decision) ==
  /\ assessed[<<r, p>>] = "no"
  /\ r \notin replied
  /\ p = 0 => decision = "ESCALATED" /\ ItemsSettled(r)
  /\ assessed' = [assessed EXCEPT ![<<r, p>>] = decision]
  /\ UNCHANGED <<handed, replied>>

HandOff(r, p, how) ==
  /\ assessed[<<r, p>>] = "ESCALATED"
  /\ handed[<<r, p>>] = "no"
  /\ handed' = [handed EXCEPT ![<<r, p>>] = how]
  /\ UNCHANGED <<assessed, replied>>

Reply(r) ==
  /\ r \notin replied
  /\ ItemsSettled(r)
  /\ Settled(<<r, 0>>)
  /\ replied' = replied \cup {r}
  /\ UNCHANGED <<assessed, handed>>

Next ==
  \E r \in Request :
    \/ \E p \in {0} \cup Items(r) :
         \/ \E d \in {"ALLOWED", "ESCALATED"} : Assess(r, p, d)
         \/ \E h \in HandOffs : HandOff(r, p, h)
    \/ Reply(r)

Spec == Init /\ [][Next]_vars
=============================================================================
