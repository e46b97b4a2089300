-------------------------- MODULE MCEvidenceLadder --------------------------
EXTENDS EvidenceLadder

(* The review period is days 10 to 20, and evidence is stale up to 5 days  *)
(* beyond either end.                                                      *)
Base == [id |-> "d1", artefact |-> "policy", onTopic |-> TRUE,
         acl |-> {"exam"}, tags |-> {}, from |-> "UK", asOf |-> 15]

Leak == [Base EXCEPT !.acl = {"exam", "board"}]
Privileged == [Base EXCEPT !.tags = {"LEGALLY_PRIVILEGED"}]
Filing == [Base EXCEPT !.id = "d2", !.tags = {"SAR_CONFIDENTIAL"}]
PrivilegedFiling ==
  [Base EXCEPT !.id = "d3", !.tags = {"LEGALLY_PRIVILEGED", "SAR_CONFIDENTIAL"}]
Abroad == [Base EXCEPT !.id = "d2", !.from = "CH"]
LastDay == [Base EXCEPT !.id = "d5", !.artefact = "log", !.asOf = 20]
JustStale == [Base EXCEPT !.id = "d3", !.artefact = "log", !.asOf = 21]
Oldest == [Base EXCEPT !.id = "d4", !.asOf = 5]
TooOld == [Base EXCEPT !.id = "d4", !.artefact = "log", !.asOf = 4]
FirstDay == [Base EXCEPT !.id = "d6", !.asOf = 10]
OffTopic == [Base EXCEPT !.id = "d2", !.onTopic = FALSE]

(* Everything the ladder tells apart, for one item. *)
ItemDocs == {Base, Leak, Privileged, Filing, PrivilegedFiling, Abroad, LastDay,
             JustStale, Oldest, TooOld, OffTopic, FirstDay}

MCDocId == {"d1", "d2", "d3", "d4", "d5", "d6"}
MCArtefact == {"policy", "log"}
MCTags == {"LEGALLY_PRIVILEGED", "SAR_CONFIDENTIAL"}
MCSilent == {"SAR_CONFIDENTIAL"}
MCEntitlements == {"exam"}
MCPermitted == {"UK"}
OneInstrument == {"RFI"}
MCDual == {"S166"}
MCDualKind == {"pack"}
=============================================================================
