-------------------------- MODULE MCReviewDelivery --------------------------
(* Instances of ReviewDelivery for TLC. *)
EXTENDS ReviewDelivery

CONSTANTS c1, c2

Threads == {c1, c2}

(* An item of one request and the pack of another whose case references are *)
(* the same string, and the pack of the item's own request.                 *)
Escalations ==
  { [kind |-> "item", request |-> <<"r">>, item |-> <<"i">>],
    [kind |-> "pack", request |-> <<"r", ":", "i">>, item |-> <<>>],
    [kind |-> "pack", request |-> <<"r">>, item |-> <<>>] }

EveryBinding == Binding

(* The CLI treats its container as the tool does. *)
ApiAndTool == {"api", "tool"}
=============================================================================
