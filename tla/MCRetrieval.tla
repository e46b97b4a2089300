---------------------------- MODULE MCRetrieval ----------------------------
EXTENDS Retrieval, SeededStore

(* The seeded corpus, with one topic in the place of a governed store that *)
(* holds one document more than a page: the last of its class is cut.      *)
PageSize == 20
Capital ==
  [i \in 1..(PageSize + 1) |->
     Document("kb-cap-" \o ToString(i),
              IF i <= PageSize THEN "policy" ELSE "system_extract",
              "capital", Day(2026, 12, 1))]
MCCorpus == [SeededCorpus EXCEPT !["capital"] = Capital]

Ask(topic, requested, ref) ==
  [topic |-> topic, requested |-> requested, packRef |-> ref]

AskOf(instr, caller, j, w, qs) ==
  [instrument |-> instr, entitlements |-> caller, jurisdiction |-> j,
   waiver |-> w, questions |-> qs]

Callers == {{}, {"risk"}, {"analyst", "approver"}, Labels}

(* One question of any topic, from any caller, in the seeded jurisdiction  *)
(* or an unknown one. *)
Single ==
  {AskOf("RFI", caller, j, FALSE, <<Ask(t, {}, "")>>) :
     t \in RequestTopic, caller \in Callers, j \in {"SG", "JP", "NZ"}}
    \cup {AskOf("RFI", Labels, "SG", TRUE, <<Ask("privacy", {}, "")>>)}

(* What the regulator names and the pack an item names. *)
Named ==
  {AskOf("RFI", {"risk"}, "SG", FALSE, <<Ask(t, requested, ref)>>) :
     t \in {"outsourcing", "aml", "model"},
     requested \in {{"policy"}, {"customer_file", "transaction_sample"}},
     ref \in {"", SeededPackRef, "PACK-UNKNOWN"}}

(* Two questions, under both kinds of instrument. *)
Pairs ==
  {AskOf(instr, {"risk"}, "SG", FALSE, <<Ask(t, {}, ""), Ask(u, {}, "")>>) :
     instr \in {"RFI", "S166"}, t \in {"privacy", "resilience"},
     u \in {"technology", "resilience"}}

(* What the proofs ask of the copies of a document holds of the seeded ones. *)
ASSUME SeededCopiesAgree == CopiesAgree

MCDoc == Face
MCDocId == {d.id : d \in Stored}
MCNone == {}
MCPermitted == {"permitted"}
MCRequest == Single \cup Named \cup Pairs
MCStart == Day(2026, 4, 1)
MCEnd == Day(2027, 3, 31)
MCTags == {"LEGALLY_PRIVILEGED", "SAR_CONFIDENTIAL"}
MCSilent == {"SAR_CONFIDENTIAL"}
MCInstrument == {"RFI", "S166"}
MCDual == {"S166"}
MCDualKind == {"pack"}
=============================================================================
