------------------------------ MODULE Drafting ------------------------------
(***************************************************************************)
(* The annex and the text of one response pack.  Item after item: the      *)
(* accepted documents are numbered as exhibits (E1), the model drafts the  *)
(* narrative and is believed only if its citations and figures are         *)
(* grounded (G1 to G3), it normalises the exhibits into facts, and those   *)
(* are compared with what the firm answered before (X1, X2).  The pack     *)
(* renumbers the exhibits into one index and drafts a cover note under the *)
(* same rules.  A text is the exhibit references in its brackets and the   *)
(* integers in its prose; everything else about it is left out.            *)
(***************************************************************************)
EXTENDS Integers, Sequences, FiniteSets, SequencesExt

CONSTANTS
  Doc,                 \* accepted documents; number is an integer in a title
  ItemRef,             \* as the letter writes them; one may occur twice
  Citable,             \* those within the alphabet of _CITED
  Figures,             \* the engine's figures for an item or the pack
  Written,             \* integers a model may write
  Key, KnownKey, Value,
  Fold,                \* Fold[v]: v stripped and case-folded
  Prior,               \* earlier answers: [item, key, value]
  MaxAccepted, MaxItems, MaxCited    \* bounds

ASSUME DraftingAssumption ==
  /\ \A d \in Doc : /\ d.id \in Nat /\ d.artefact \in Nat
                    /\ d.asOf \in Int /\ d.number \in Int
  /\ Citable \subseteq ItemRef
  /\ Figures \subseteq [pct : 0..100, satisfied : Nat, total : Nat, remaining : Int]
  /\ Written \subseteq Int
  /\ KnownKey \subseteq Key
  /\ DOMAIN Fold = Value
  /\ Prior \subseteq [item : ItemRef, key : Key, value : Value]
  /\ MaxAccepted \in Nat /\ MaxItems \in Nat /\ MaxCited \in Nat

VARIABLES
  phase,               \* where the request is
  ref, figures,        \* the item in hand
  exhibits,
  narrative,
  extracted,           \* the triples the model normalised out of the exhibits
  blockers,            \* what the text of the item raised
  items,               \* the items done
  pack                 \* the document index and the cover note

vars == <<phase, ref, figures, exhibits, narrative, extracted, blockers, items, pack>>

ExhibitNo == [item : ItemRef, at : 1..MaxAccepted]
Exhibit == [no : ExhibitNo, doc : Doc]
Outside == [item |-> "nowhere", at |-> 99]     \* an exhibit nobody numbered
Letter == [item |-> "letter", at |-> 0]         \* the regulator's own document
Reference == ExhibitNo \cup {Outside}
Figure == Written \cup (1..MaxItems)
            \cup UNION {{f.pct, f.satisfied, f.total, f.remaining} : f \in Figures}
Narrative == [drafted : BOOLEAN, byModel : BOOLEAN, discarded : BOOLEAN,
              cites : SUBSET ExhibitNo, figures : SUBSET Figure]
Triple == [key : Key, value : Value, exhibit : Reference]
BlockerKind == {"NO_ADMISSIBLE_EVIDENCE", "UNGROUNDED_DRAFT",
                "UNRECOGNISED_ASSERTION", "PRIOR_ANSWER_CONFLICT"}
Blocker == [kind : BlockerKind, cites : ExhibitNo \cup {Letter}]
Item == [ref : ItemRef, figures : Figures, exhibits : Seq(Exhibit),
         narrative : Narrative, blockers : SUBSET Blocker]

\* drafted=False: no text at all.
NoNarrative == [drafted |-> FALSE, byModel |-> FALSE, discarded |-> FALSE,
                cites |-> {}, figures |-> {}]
NoPack == [index |-> <<>>, cover |-> NoNarrative, blockers |-> {}]

TypeOK ==
  /\ phase \in {"item", "draft", "normalise", "consistency", "cover", "held"}
  /\ ref \in ItemRef /\ figures \in Figures
  /\ exhibits \in Seq(Exhibit) /\ Len(exhibits) <= MaxAccepted
  /\ narrative \in Narrative
  /\ extracted \subseteq Triple
  /\ blockers \subseteq Blocker
  /\ items \in Seq(Item) /\ Len(items) <= MaxItems
  /\ pack.index \in Seq([no : ExhibitNo, doc : Doc, idx : Nat])
  /\ pack.cover \in Narrative /\ pack.blockers \subseteq Blocker

Init ==
  /\ phase = "item"
  /\ ref \in ItemRef /\ figures \in Figures
  /\ exhibits = <<>>
  /\ narrative = NoNarrative
  /\ extracted = {}
  /\ blockers = {}
  /\ items = <<>>
  /\ pack = NoPack

-----------------------------------------------------------------------------
\* Slip: documents of one class and date keep the order they arrived in.
Before_NoDocId(d, e) ==
  \/ d.artefact < e.artefact
  \/ d.artefact = e.artefact /\ d.asOf < e.asOf

\* _sort_key: declaration index, date, document id.
Before(d, e) ==
  \/ d.artefact < e.artefact
  \/ d.artefact = e.artefact /\ d.asOf < e.asOf
  \/ d.artefact = e.artefact /\ d.asOf = e.asOf /\ d.id < e.id

\* E1: a stable sort puts at p the link that p - 1 links come before.
NumberExhibits(r, accepted) ==
  LET earlier(i, j) ==
        \/ Before(accepted[i], accepted[j])
        \/ ~Before(accepted[j], accepted[i]) /\ i < j
      place(j) == 1 + Cardinality({i \in DOMAIN accepted : earlier(i, j)})
      sorted(p) == accepted[CHOOSE j \in DOMAIN accepted : place(j) = p]
  IN [p \in DOMAIN accepted |-> [no |-> [item |-> r, at |-> p], doc |-> sorted(p)]]

\* The accepted links of the ladder, one per document, in any order.
Accepted ==
  {s \in UNION {[1..n -> Doc] : n \in 0..MaxAccepted} :
     \A i, j \in DOMAIN s : s[i].id = s[j].id => i = j}

Number ==
  /\ phase = "item"
  /\ Len(items) < MaxItems
  /\ \E r \in ItemRef, accepted \in Accepted :
       /\ ref' = r
       /\ exhibits' = NumberExhibits(r, accepted)
  /\ figures' \in Figures
  /\ narrative' = NoNarrative
  /\ extracted' = {}
  /\ blockers' = {}
  /\ phase' = "draft"
  /\ UNCHANGED <<items, pack>>

-----------------------------------------------------------------------------
Numbers(exs) == {exs[k].no : k \in DOMAIN exs}

\* Slip: an exhibit's reference is a key of the facts block, not in a value.
Grounded_KeysOnly(figs, exs) ==
  {figs.pct, figs.satisfied, figs.total, figs.remaining}
    \cup {exs[k].doc.number : k \in DOMAIN exs}

\* grounded_integers over _facts_for: "EX-2.c-01" reads as the integer -1.
Grounded(figs, exs) ==
  {figs.pct, figs.satisfied, figs.total, figs.remaining}
    \cup {exs[k].doc.number : k \in DOMAIN exs}
    \cup {-(no.at) : no \in Numbers(exs)}

\* Every integer token of a text, those in its references included.
Tokens(text) == text.figures \cup {-(no.at) : no \in text.cites}

\* G2: what _CITED finds is not empty and within the exhibits.
CitationsGrounded(text, exs) ==
  LET cited == {no \in text.cites : no.item \in Citable \cup {"nowhere"}}
  IN cited # {} /\ cited \subseteq Numbers(exs)

\* G3
IntegersGrounded(text, figs, exs) == Tokens(text) \subseteq Grounded(figs, exs)

\* narrative_verdict on text that parsed.
VerdictOk(text, figs, exs) ==
  CitationsGrounded(text, exs) /\ IntegersGrounded(text, figs, exs)

Kept(text) == [drafted |-> TRUE, byModel |-> TRUE, discarded |-> FALSE,
               cites |-> text.cites, figures |-> text.figures]

\* _discarded: the deterministic paragraph, which cites every exhibit.
Discarded(figs, exs) ==
  [drafted |-> TRUE, byModel |-> FALSE, discarded |-> TRUE,
   cites |-> Numbers(exs), figures |-> {figs.satisfied, figs.total, figs.pct}]

\* What a model may return that parses as the JSON asked for.
Text == {t \in [cites : SUBSET Reference, figures : SUBSET Written] :
           Cardinality(t.cites) <= MaxCited}

\* _draft with at least one exhibit: the text is kept whole, or it is
\* discarded whole because it was refused, failed, did not parse or is not
\* grounded.
Narratives(figs, exs) ==
  {Kept(t) : t \in {u \in Text : VerdictOk(u, figs, exs)}}
    \cup {Discarded(figs, exs)}

Draft ==
  /\ phase = "draft"
  /\ exhibits # <<>>
  /\ narrative' \in Narratives(figures, exhibits)
  /\ blockers' = IF narrative'.discarded
                   THEN {[kind |-> "UNGROUNDED_DRAFT", cites |-> Letter]} ELSE {}
  /\ phase' = "normalise"
  /\ UNCHANGED <<ref, figures, exhibits, extracted, items, pack>>

\* G1: no exhibit, no call; and there is nothing to normalise either.
DraftNothing ==
  /\ phase = "draft"
  /\ exhibits = <<>>
  /\ blockers' = {[kind |-> "NO_ADMISSIBLE_EVIDENCE", cites |-> Letter]}
  /\ phase' = "consistency"
  /\ UNCHANGED <<ref, figures, exhibits, narrative, extracted, items, pack>>

-----------------------------------------------------------------------------
\* parse_facts: one triple here, or none, or a refused or failed call.
Normalise ==
  /\ phase = "normalise"
  /\ extracted' \in {{}} \cup {{t} : t \in Triple}
  /\ phase' = "consistency"
  /\ UNCHANGED <<ref, figures, exhibits, narrative, blockers, items, pack>>

\* Slip: a fact whose exhibit is not the item's is dropped.
Facts_KnownExhibit ==
  {[key |-> t.key, value |-> t.value, cites |-> t.exhibit]
     : t \in {u \in extracted : u.exhibit \in Numbers(exhibits)}}

\* _normalise: a fact that names no exhibit of the item cites the letter.
Facts ==
  {[key |-> t.key, value |-> t.value,
    cites |-> IF t.exhibit \in Numbers(exhibits) THEN t.exhibit ELSE Letter]
     : t \in extracted}

\* The surface hands over the earlier answers to this item.
PriorAnswers == {p \in Prior : p.item = ref}

\* X1 and X2.
Inconsistencies ==
  {[kind |-> "UNRECOGNISED_ASSERTION", cites |-> f.cites]
     : f \in {g \in Facts : g.key \notin KnownKey}}
  \cup
  {[kind |-> "PRIOR_ANSWER_CONFLICT", cites |-> f.cites]
     : f \in {g \in Facts : /\ g.key \in KnownKey
                            /\ \E p \in PriorAnswers :
                                 p.key = g.key /\ Fold[p.value] # Fold[g.value]}}

CheckConsistency ==
  /\ phase = "consistency"
  /\ items' = Append(items, [ref |-> ref, figures |-> figures,
                             exhibits |-> exhibits, narrative |-> narrative,
                             blockers |-> blockers \cup Inconsistencies])
  /\ phase' = "item"
  /\ UNCHANGED <<ref, figures, exhibits, narrative, extracted, blockers, pack>>

-----------------------------------------------------------------------------
\* Slip: an item whose draft was discarded is left out of the index.
Renumbered_KeptOnly ==
  LET kept == SelectSeq(items, LAMBDA it : ~it.narrative.discarded)
      rows == FlattenSeq([i \in DOMAIN kept |-> kept[i].exhibits])
  IN [k \in DOMAIN rows |-> [no |-> rows[k].no, doc |-> rows[k].doc, idx |-> k]]

\* renumber_document_index: item order, contiguous over the pack.
Renumbered ==
  LET rows == FlattenSeq([i \in DOMAIN items |-> items[i].exhibits])
  IN [k \in DOMAIN rows |-> [no |-> rows[k].no, doc |-> rows[k].doc, idx |-> k]]

ItemBlockers == UNION {items[i].blockers : i \in DOMAIN items}

\* _assemble_pack as far as the index: the pack's blockers are its items'.
Assemble ==
  /\ phase = "item"
  /\ items # <<>>
  /\ pack' = [index |-> Renumbered, cover |-> NoNarrative, blockers |-> ItemBlockers]
  /\ phase' = "cover"
  /\ UNCHANGED <<ref, figures, exhibits, narrative, extracted, blockers, items>>

\* The cover note is handed the number of items for both of its counts.
CoverFigures(f) == [f EXCEPT !.satisfied = Len(items), !.total = Len(items)]

\* _draft_cover_note; what it raises is not kept.
CoverNote ==
  /\ phase = "cover"
  /\ \E f \in Figures :
       \E note \in IF pack.index = <<>> THEN {NoNarrative}
                   ELSE Narratives(CoverFigures(f), pack.index) :
         pack' = [pack EXCEPT !.cover = note]
  /\ phase' = "held"
  /\ UNCHANGED <<ref, figures, exhibits, narrative, extracted, blockers, items>>

Held == phase = "held" /\ UNCHANGED vars

Next ==
  \/ Number
  \/ Draft \/ DraftNothing
  \/ Normalise \/ CheckConsistency
  \/ Assemble \/ CoverNote
  \/ Held

Spec == Init /\ [][Next]_vars

-----------------------------------------------------------------------------
Readable(cites) == {no \in cites : no.item \in Citable}

(* A reader of the pack finds every exhibit a text refers to: each         *)
(* reference in brackets in an item's narrative is a row of the document   *)
(* index, a row of a document produced for an item of that reference, and  *)
(* the only such row unless the letter used the reference twice; the cover *)
(* note refers to rows of the index alone (G2 with the renumbering of      *)
(* renumber_document_index).                                               *)
CitationsResolve ==
  phase = "held" =>
    LET rows(no) == {k \in DOMAIN pack.index : pack.index[k].no = no}
    IN /\ \A i \in DOMAIN items : \A no \in Readable(items[i].narrative.cites) :
            /\ rows(no) # {}
            /\ \E k \in rows(no), x \in DOMAIN items[i].exhibits :
                 /\ items[i].exhibits[x].no = no
                 /\ pack.index[k].doc = items[i].exhibits[x].doc
            /\ (\A j \in DOMAIN items : items[j].ref = items[i].ref => j = i)
                  => Cardinality(rows(no)) = 1
       /\ \A no \in Readable(pack.cover.cites) : rows(no) # {}

(* grounded=True on a draft means what it says, also on the deterministic  *)
(* paragraph nobody runs through the predicates: it cites an exhibit, only *)
(* exhibits of its own index, and no figure but the engine's, wherever one *)
(* of its exhibits has a reference that can be cited (narrative_verdict,   *)
(* fallback_narrative and _facts_for agree on what grounds a text).        *)
GroundedFlagIsTrue ==
  \A i \in DOMAIN items :
    LET it == items[i]
    IN it.narrative.drafted /\ it.ref \in Citable =>
         VerdictOk(it.narrative, it.figures, it.exhibits)

(* Two runs over the same evidence produce the same annex, in whatever     *)
(* order the ports returned it: a resubmission can be compared with the    *)
(* original (exhibit_index.py on rule E1).                                 *)
SameEvidenceSameAnnex ==
  LET docs(i) == {items[i].exhibits[k].doc : k \in DOMAIN items[i].exhibits}
  IN \A i, j \in DOMAIN items :
       items[i].ref = items[j].ref /\ docs(i) = docs(j) =>
         items[i].exhibits = items[j].exhibits

(* The model cannot switch the check against earlier answers off, neither  *)
(* by renaming a key, nor by naming an exhibit that is not there, nor with *)
(* a draft that was discarded: whatever it extracted for the item just     *)
(* done agrees with every earlier answer to that item, or the item carries *)
(* a blocker that cites the exhibit, or the letter where there is none     *)
(* (X1 and X2 over what _normalise keeps).                                 *)
ContradictionRaised ==
  phase = "item" /\ items # <<>> =>
    LET it == items[Len(items)]
    IN \A f \in extracted :
         \/ /\ f.key \in KnownKey
            /\ \A p \in Prior : p.item = it.ref /\ p.key = f.key =>
                 Fold[p.value] = Fold[f.value]
         \/ \E b \in it.blockers :
              /\ b.kind = IF f.key \in KnownKey THEN "PRIOR_ANSWER_CONFLICT"
                                                ELSE "UNRECOGNISED_ASSERTION"
              /\ b.cites = IF f.exhibit \in Numbers(it.exhibits)
                             THEN f.exhibit ELSE Letter

=============================================================================
