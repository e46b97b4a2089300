----------------------------- MODULE MCDrafting -----------------------------
EXTENDS Drafting

(* Two documents that only the document id tells apart; the title of one   *)
(* carries an integer.                                                     *)
MCDoc == {[id |-> 1, artefact |-> 3, asOf |-> 15, number |-> 7],
          [id |-> 2, artefact |-> 3, asOf |-> 15, number |-> 50]}

MCItemRef == {"2.c", "2 (c)"}
MCCitable == {"2.c"}
MCFigures == {[pct |-> 50, satisfied |-> 1, total |-> 2, remaining |-> 4]}
MCWritten == {7, 8}          \* in a title, and nowhere
MCKey == {"vendor", "supplier"}
MCKnownKey == {"vendor"}
MCValue == {"Acme", "ACME", "Borg"}
MCFold == [v \in MCValue |-> IF v = "Borg" THEN "borg" ELSE "acme"]
MCPrior == {[item |-> "2.c", key |-> "vendor", value |-> "Acme"]}
=============================================================================
