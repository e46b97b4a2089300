-------------------------- MODULE Drafting_proofs --------------------------
(***************************************************************************)
(* Drafting, for any documents, items, figures, vocabularies and earlier   *)
(* answers: a draft flagged as grounded is, a contradiction is raised, the *)
(* annex is determined by the evidence and every citation resolves in it.  *)
(***************************************************************************)
EXTENDS Drafting, FiniteSetTheorems, TLAPS

(* The items done are a sequence, of whatever.                             *)
IsSeq(s) == \E S : s \in Seq(S)

LEMMA AppendIsSeq ==
  ASSUME NEW s, NEW e, IsSeq(s)
  PROVE  /\ IsSeq(Append(s, e))
         /\ Len(Append(s, e)) \in Nat \ {0}
         /\ Append(s, e)[Len(Append(s, e))] = e
         /\ DOMAIN Append(s, e) = 1..(Len(s) + 1)
         /\ \A i \in 1..Len(s) : Append(s, e)[i] = s[i]
         /\ Len(Append(s, e)) = Len(s) + 1
         /\ Len(s) \in Nat /\ DOMAIN s = 1..Len(s)
<1>1. PICK S : s \in Seq(S)
  BY DEF IsSeq
<1> DEFINE T == S \cup {e}
<1>2. s \in Seq(T) /\ e \in T
  <2>1. s \in [1..Len(s) -> S] /\ Len(s) \in Nat
    BY <1>1
  <2>2. s \in [1..Len(s) -> T]
    BY <2>1
  <2> QED BY <2>1, <2>2
<1>3. Append(s, e) \in Seq(T)
  BY <1>2
<1> HIDE DEF T
<1>4. IsSeq(Append(s, e))
  BY <1>3 DEF IsSeq
<1> QED BY <1>2, <1>3, <1>4

-----------------------------------------------------------------------------
DocsOf(exs) == {exs[k].doc : k \in DOMAIN exs}

\* Where a document stands among the exhibits: after those that sort before it.
Place(d, exs) == 1 + Cardinality({e \in DocsOf(exs) : Before(e, d)})

\* Exhibits numbered from 1 up for one item, in the order of the sort key.
Numbered(r, exs) ==
  /\ exs \in Seq(Exhibit)
  /\ \A p \in DOMAIN exs : /\ exs[p].no = [item |-> r, at |-> p]
                           /\ p = Place(exs[p].doc, exs)

(* The sort key orders documents, and the document id leaves no tie        *)
(* (_sort_key).                                                            *)
LEMMA BeforeOrders ==
  ASSUME NEW c \in Doc, NEW d \in Doc, NEW e \in Doc
  PROVE  /\ ~Before(d, d)
         /\ Before(c, d) => ~Before(d, c)
         /\ Before(c, d) /\ Before(d, e) => Before(c, e)
         /\ c.id # d.id => Before(c, d) \/ Before(d, c)
<1>1. \A x \in {c, d, e} : x.artefact \in Nat /\ x.asOf \in Int /\ x.id \in Nat
  BY DraftingAssumption DEF DraftingAssumption
<1> QED BY <1>1 DEF Before

(* Each accepted document gets one number of its own: the sort of rule E1  *)
(* is a permutation (number_exhibits).                                     *)
LEMMA NumberingSorts ==
  ASSUME NEW r \in ItemRef, NEW accepted \in Accepted
  PROVE  Numbered(r, NumberExhibits(r, accepted))
<1>1. PICK n \in 0..MaxAccepted : accepted \in [1..n -> Doc]
  BY DEF Accepted
<1> DEFINE D == 1..n
           earlier(i, j) == \/ Before(accepted[i], accepted[j])
                            \/ ~Before(accepted[j], accepted[i]) /\ i < j
           place(j) == 1 + Cardinality({i \in D : earlier(i, j)})
           pre(j) == {i \in D : Before(accepted[i], accepted[j])}
           at(p) == CHOOSE j \in D : place(j) = p
           exs == NumberExhibits(r, accepted)
<1>2. n \in Nat /\ DOMAIN accepted = D /\ n <= MaxAccepted
  BY <1>1, DraftingAssumption DEF DraftingAssumption
<1>3. \A i, j \in D : accepted[i].id = accepted[j].id => i = j
  BY <1>2 DEF Accepted
<1>4. \A i \in D : accepted[i] \in Doc
  BY <1>1
<1>5. exs = [p \in D |-> [no |-> [item |-> r, at |-> p], doc |-> accepted[at(p)]]]
  BY <1>2, Zenon DEF NumberExhibits
<1>6. ASSUME NEW j \in D PROVE place(j) = 1 + Cardinality(pre(j))
  <2>1. ASSUME NEW i \in D PROVE earlier(i, j) <=> Before(accepted[i], accepted[j])
    <3>1. CASE i = j
      BY <3>1, <1>2
    <3>2. CASE i # j
      BY <3>2, <1>3, <1>4, BeforeOrders
    <3> QED BY <3>1, <3>2
  <2>2. {i \in D : earlier(i, j)} = pre(j)
    BY <2>1
  <2> QED BY <2>2
<1>7. ASSUME NEW j \in D
      PROVE  /\ pre(j) \in SUBSET D /\ j \notin pre(j) /\ IsFiniteSet(pre(j))
             /\ Cardinality(pre(j)) \in Nat /\ Cardinality(pre(j)) < n
  <2>1. pre(j) \in SUBSET D /\ j \notin pre(j)
    BY <1>4, BeforeOrders
  <2>2. IsFiniteSet(D) /\ Cardinality(D) = n
    BY <1>2, FS_Interval
  <2>3. IsFiniteSet(pre(j)) /\ Cardinality(pre(j)) <= n /\ Cardinality(pre(j)) # n
    BY <2>1, <2>2, FS_Subset
  <2>4. Cardinality(pre(j)) \in Nat
    BY <2>3, FS_CardinalityType
  <2> QED BY <1>2, <2>1, <2>3, <2>4
<1>8. ASSUME NEW i \in D, NEW j \in D, Before(accepted[i], accepted[j])
      PROVE  Cardinality(pre(i)) < Cardinality(pre(j))
  <2>1. pre(i) \in SUBSET pre(j) /\ i \in pre(j)
    BY <1>4, <1>8, BeforeOrders
  <2>2. pre(i) # pre(j)
    BY <1>7, <2>1
  <2>3. Cardinality(pre(i)) <= Cardinality(pre(j)) /\ Cardinality(pre(i)) # Cardinality(pre(j))
    BY <1>7, <2>1, <2>2, FS_Subset
  <2>4. Cardinality(pre(i)) \in Nat /\ Cardinality(pre(j)) \in Nat
    BY <1>7
  <2> HIDE DEF pre
  <2> QED BY <2>3, <2>4
<1> HIDE DEF place, pre
<1>9. \A j \in D : place(j) \in D
  BY <1>2, <1>6, <1>7
<1>10. \A i, j \in D : place(i) = place(j) => i = j
  <2> SUFFICES ASSUME NEW i \in D, NEW j \in D, i # j PROVE place(i) # place(j)
    OBVIOUS
  <2>1. Before(accepted[i], accepted[j]) \/ Before(accepted[j], accepted[i])
    BY <1>3, <1>4, BeforeOrders
  <2>2. Cardinality(pre(i)) # Cardinality(pre(j))
    BY <1>7, <1>8, <2>1
  <2> QED BY <1>6, <1>7, <2>2
<1>11. \A p \in D : \E j \in D : place(j) = p
  <2> DEFINE g == [j \in D |-> place(j)]
  <2>1. g \in Injection(D, D)
    BY <1>9, <1>10 DEF Injection, IsInjective
  <2>2. IsFiniteSet(D)
    BY <1>2, FS_Interval
  <2>3. g \in Surjection(D, D)
    BY <2>1, <2>2, FS_Injection
  <2> QED BY <2>3 DEF Surjection
<1>12. \A p \in D : at(p) \in D /\ place(at(p)) = p
  BY <1>11
<1>13. \A j \in D : at(place(j)) = j
  BY <1>9, <1>10, <1>12
<1> HIDE DEF at
<1>14. DocsOf(exs) = {accepted[j] : j \in D}
  <2>1. \A p \in D : exs[p].doc = accepted[at(p)]
    BY <1>5
  <2>2. DOMAIN exs = D
    BY <1>5
  <2> HIDE DEF exs
  <2>3. \A j \in D : \E p \in D : exs[p].doc = accepted[j]
    BY <1>9, <1>13, <2>1
  <2>4. DocsOf(exs) = {exs[p].doc : p \in D}
    BY <2>2 DEF DocsOf
  <2>5. \A p \in D : exs[p].doc \in {accepted[j] : j \in D}
    BY <1>12, <2>1
  <2> QED BY <2>3, <2>4, <2>5
<1>15. ASSUME NEW j \in D PROVE place(j) = Place(accepted[j], exs)
  <2> DEFINE P == pre(j)
             Q == {e \in DocsOf(exs) : Before(e, accepted[j])}
             g == [i \in P |-> accepted[i]]
  <2>1. P \subseteq D /\ \A i \in D : i \in P <=> Before(accepted[i], accepted[j])
    BY DEF pre
  <2>2. Q = {accepted[i] : i \in P}
    BY <1>14, <2>1
  <2> HIDE DEF P, Q
  <2>3. g \in Bijection(P, Q)
    <3>1. g \in [P -> Q]
      BY <2>2
    <3>2. IsInjective(g)
      BY <1>3, <2>1 DEF IsInjective
    <3>3. \A q \in Q : \E i \in P : g[i] = q
      BY <2>2
    <3> QED BY <3>1, <3>2, <3>3 DEF Bijection, Injection, Surjection
  <2>4. Cardinality(Q) = Cardinality(P)
    BY <1>7, <2>3, FS_Bijection DEF ExistsBijection, P
  <2> QED BY <1>6, <2>4 DEF Place, P, Q
<1>16. exs \in Seq(Exhibit)
  <2>1. ASSUME NEW p \in D PROVE exs[p] \in Exhibit
    <3>1. p \in 1..MaxAccepted
      BY <1>2, DraftingAssumption DEF DraftingAssumption
    <3>2. [item |-> r, at |-> p] \in ExhibitNo /\ accepted[at(p)] \in Doc
      BY <1>4, <1>12, <3>1 DEF ExhibitNo
    <3> QED BY <1>5, <3>2 DEF Exhibit
  <2>2. exs \in [1..n -> Exhibit]
    BY <1>5, <2>1
  <2> HIDE DEF exs
  <2> QED BY <1>2, <2>2
<1>17. \A p \in DOMAIN exs : exs[p].no = [item |-> r, at |-> p] /\ exs[p].doc = accepted[at(p)] /\ p \in D
  BY <1>5
<1> HIDE DEF exs
<1>18. \A p \in DOMAIN exs : p = Place(exs[p].doc, exs)
  BY <1>12, <1>15, <1>17
<1>19. Numbered(r, exs)
  BY <1>16, <1>17, <1>18 DEF Numbered
<1> QED BY <1>19 DEF exs

(* The same documents under the same reference are the same exhibits.      *)
LEMMA SameDocsSameExhibits ==
  ASSUME NEW r, NEW exs, NEW other, Numbered(r, exs), Numbered(r, other),
         DocsOf(exs) = DocsOf(other)
  PROVE  exs = other
<1>1. ASSUME NEW a, NEW b, Numbered(r, a), Numbered(r, b), DocsOf(a) = DocsOf(b),
             NEW p \in DOMAIN a
      PROVE  p \in DOMAIN b /\ b[p] = a[p]
  <2>1. PICK q \in DOMAIN b : b[q].doc = a[p].doc
    BY <1>1 DEF DocsOf
  <2>2. q = Place(b[q].doc, b) /\ p = Place(a[p].doc, a)
    BY <1>1 DEF Numbered
  <2>3. q = p
    BY <1>1, <2>1, <2>2 DEF Place
  <2>4. a[p].no = b[p].no /\ a[p].doc = b[p].doc
    BY <1>1, <2>1, <2>3 DEF Numbered
  <2>5. a[p] \in Exhibit /\ b[p] \in Exhibit
    BY <1>1, <2>1, <2>3 DEF Numbered
  <2> QED BY <2>1, <2>3, <2>4, <2>5 DEF Exhibit
<1>2. exs \in Seq(Exhibit) /\ other \in Seq(Exhibit)
  BY DEF Numbered
<1>3. DOMAIN exs = DOMAIN other
  BY <1>1
<1>4. Len(exs) = Len(other)
  BY <1>2, <1>3
<1>5. \A p \in 1..Len(exs) : other[p] = exs[p]
  BY <1>1, <1>2
<1> QED BY <1>2, <1>4, <1>5

(* The exhibits of an item carry its reference, and none is no sequence.   *)
LEMMA NumberedForItem ==
  ASSUME NEW r, NEW exs, Numbered(r, exs)
  PROVE  /\ \A k \in DOMAIN exs : exs[k].no.item = r
         /\ exs = << >> \/ DOMAIN exs # {}
<1>1. exs \in Seq(Exhibit)
  BY DEF Numbered
<1>2. ASSUME NEW k \in DOMAIN exs PROVE exs[k].no.item = r
  <2>1. exs[k].no = [item |-> r, at |-> k]
    BY DEF Numbered
  <2> QED BY <2>1
<1>3. CASE Len(exs) = 0
  BY <1>1, <1>2, <1>3
<1>4. CASE Len(exs) # 0
  <2>1. 1 \in DOMAIN exs
    BY <1>1, <1>4
  <2> QED BY <1>2, <2>1
<1> QED BY <1>3, <1>4

(***************************************************************************)
(* What an item in hand may rely on: its exhibits are numbered for it, it  *)
(* is not drafted before its draft, and a draft it has is grounded.        *)
(***************************************************************************)
InHand ==
  /\ \A k \in DOMAIN exhibits : exhibits[k].no.item = ref
  /\ exhibits = << >> \/ DOMAIN exhibits # {}
  /\ phase = "draft" => ~narrative.drafted
  /\ phase \in {"normalise", "consistency"} /\ narrative.drafted /\ ref \in Citable =>
       VerdictOk(narrative, figures, exhibits)

DraftingInv ==
  IsSeq(items) /\ InHand /\ GroundedFlagIsTrue /\ ContradictionRaised

LEMMA DraftingInit == Init => DraftingInv
<1> SUFFICES ASSUME Init PROVE DraftingInv
  OBVIOUS
<1>1. items = << >> /\ exhibits = << >> /\ phase = "item"
  BY DEF Init
<1>2. << >> \in Seq({}) /\ DOMAIN << >> = {}
  OBVIOUS
<1>3. IsSeq(items)
  BY <1>1, <1>2 DEF IsSeq
<1>4. DOMAIN exhibits = {} /\ DOMAIN items = {}
  BY <1>1, <1>2
<1> QED BY <1>1, <1>3, <1>4 DEF DraftingInv, InHand, GroundedFlagIsTrue, ContradictionRaised

(* The paragraph nobody runs through the predicates passes them.           *)
LEMMA FallbackIsGrounded ==
  ASSUME NEW figs, NEW exs, exs # << >>, NEW r \in Citable,
         \A k \in DOMAIN exs : exs[k].no.item = r,
         DOMAIN exs # {}
  PROVE  VerdictOk(Discarded(figs, exs), figs, exs)
<1> DEFINE text == Discarded(figs, exs)
<1>1. text.cites = Numbers(exs) /\ text.figures = {figs.satisfied, figs.total, figs.pct}
  BY DEF Discarded
<1>2. \A no \in Numbers(exs) : no.item = r
  BY DEF Numbers
<1>3. \E k \in DOMAIN exs : exs[k].no \in Numbers(exs)
  BY DEF Numbers
<1>4. CitationsGrounded(text, exs)
  BY <1>1, <1>2, <1>3 DEF CitationsGrounded
<1>5. IntegersGrounded(text, figs, exs)
  BY <1>1 DEF IntegersGrounded, Tokens, Grounded
<1> QED BY <1>4, <1>5 DEF VerdictOk

(* What stays put stays true.                                              *)
LEMMA ItemsKeep ==
  ASSUME items' = items, IsSeq(items), GroundedFlagIsTrue
  PROVE  IsSeq(items)' /\ GroundedFlagIsTrue'
<1>1. IsSeq(items)'
  BY DEF IsSeq
<1>2. GroundedFlagIsTrue'
  BY DEF GroundedFlagIsTrue, VerdictOk, CitationsGrounded, IntegersGrounded, Tokens, Grounded,
         Numbers
<1> QED BY <1>1, <1>2

LEMMA DraftGrounded ==
  ASSUME DraftingInv, Draft
  PROVE  InHand' /\ IsSeq(items)' /\ GroundedFlagIsTrue' /\ ContradictionRaised'
<1>1. /\ phase = "draft" /\ phase' = "normalise" /\ exhibits # << >>
      /\ narrative' \in Narratives(figures, exhibits)
      /\ UNCHANGED <<ref, figures, exhibits, items>>
  BY DEF Draft
<1>2. ref \in Citable => VerdictOk(narrative', figures, exhibits)
  <2>1. CASE narrative' = Discarded(figures, exhibits)
    BY <1>1, <2>1, FallbackIsGrounded DEF DraftingInv, InHand
  <2>2. CASE narrative' # Discarded(figures, exhibits)
    <3>1. PICK t \in Text : VerdictOk(t, figures, exhibits) /\ narrative' = Kept(t)
      BY <1>1, <2>2 DEF Narratives
    <3>2. narrative'.cites = t.cites /\ narrative'.figures = t.figures
      BY <3>1 DEF Kept
    <3> QED BY <3>1, <3>2 DEF VerdictOk, CitationsGrounded, IntegersGrounded, Tokens
  <2> QED BY <2>1, <2>2
<1>3. InHand'
  <2>1. figures' = figures /\ exhibits' = exhibits /\ ref' = ref
    BY <1>1
  <2>2. ref \in Citable => VerdictOk(narrative', figures', exhibits')
    BY <1>2, <2>1
  <2>3. VerdictOk(narrative, figures, exhibits)' <=> VerdictOk(narrative', figures', exhibits')
    BY DEF VerdictOk, CitationsGrounded, IntegersGrounded, Tokens, Grounded, Numbers
  <2> QED BY <1>1, <2>1, <2>2, <2>3 DEF DraftingInv, InHand
<1>4. ContradictionRaised'
  BY <1>1 DEF ContradictionRaised
<1> QED BY <1>1, <1>3, <1>4, ItemsKeep DEF DraftingInv

LEMMA NumberStarts ==
  ASSUME DraftingInv, Number
  PROVE  InHand' /\ IsSeq(items)' /\ GroundedFlagIsTrue' /\ ContradictionRaised'
<1>1. PICK r \in ItemRef, accepted \in Accepted : ref' = r /\ exhibits' = NumberExhibits(r, accepted)
  BY DEF Number
<1>2. phase' = "draft" /\ narrative' = NoNarrative /\ items' = items
  BY DEF Number
<1>3. ~narrative'.drafted
  BY <1>2 DEF NoNarrative
<1>4. \A k \in DOMAIN exhibits' : exhibits'[k].no.item = ref'
  BY <1>1, NumberingSorts, NumberedForItem
<1>5. exhibits' = << >> \/ DOMAIN exhibits' # {}
  BY <1>1, NumberingSorts, NumberedForItem
<1>6. InHand'
  BY <1>2, <1>3, <1>4, <1>5 DEF InHand
<1>7. ContradictionRaised'
  BY <1>2 DEF ContradictionRaised
<1> QED BY <1>2, <1>6, <1>7, ItemsKeep DEF DraftingInv

(* No exhibit, no text; and a text drafted stays the text in hand.         *)
LEMMA TextKept ==
  ASSUME DraftingInv, DraftNothing \/ Normalise
  PROVE  InHand' /\ IsSeq(items)' /\ GroundedFlagIsTrue' /\ ContradictionRaised'
<1>1. /\ phase' = "consistency" /\ phase \in {"draft", "normalise"}
      /\ UNCHANGED <<ref, figures, exhibits, narrative, items>>
  BY DEF DraftNothing, Normalise
<1>2. VerdictOk(narrative, figures, exhibits)' <=> VerdictOk(narrative, figures, exhibits)
  BY <1>1 DEF VerdictOk, CitationsGrounded, IntegersGrounded, Tokens, Grounded, Numbers
<1>3. InHand'
  BY <1>1, <1>2 DEF DraftingInv, InHand
<1>4. ContradictionRaised'
  BY <1>1 DEF ContradictionRaised
<1> QED BY <1>1, <1>3, <1>4, ItemsKeep DEF DraftingInv

(* X1 and X2: what was extracted agrees, or is raised.                     *)
LEMMA RaisedOrAgrees ==
  ASSUME NEW f \in extracted
  PROVE  \/ /\ f.key \in KnownKey
            /\ \A p \in Prior : p.item = ref /\ p.key = f.key =>
                 Fold[p.value] = Fold[f.value]
         \/ \E b \in Inconsistencies :
              /\ b.kind = IF f.key \in KnownKey THEN "PRIOR_ANSWER_CONFLICT"
                                                ELSE "UNRECOGNISED_ASSERTION"
              /\ b.cites = IF f.exhibit \in Numbers(exhibits)
                             THEN f.exhibit ELSE Letter
<1> DEFINE g == [key |-> f.key, value |-> f.value,
                 cites |-> IF f.exhibit \in Numbers(exhibits) THEN f.exhibit ELSE Letter]
<1>1. g \in Facts
  BY DEF Facts
<1>2. /\ g.key = f.key /\ g.value = f.value
      /\ g.cites = IF f.exhibit \in Numbers(exhibits) THEN f.exhibit ELSE Letter
  OBVIOUS
<1> HIDE DEF g
<1>3. CASE f.key \notin KnownKey
  <2>1. [kind |-> "UNRECOGNISED_ASSERTION", cites |-> g.cites] \in Inconsistencies
    BY <1>1, <1>2, <1>3 DEF Inconsistencies
  <2> QED BY <1>2, <1>3, <2>1
<1>4. CASE f.key \in KnownKey
  <2>1. CASE \E p \in Prior : p.item = ref /\ p.key = f.key /\ Fold[p.value] # Fold[f.value]
    <3>1. [kind |-> "PRIOR_ANSWER_CONFLICT", cites |-> g.cites] \in Inconsistencies
      BY <1>1, <1>2, <1>4, <2>1 DEF Inconsistencies, PriorAnswers
    <3> QED BY <1>2, <1>4, <3>1
  <2> QED BY <1>4, <2>1
<1> QED BY <1>3, <1>4

LEMMA ItemDone ==
  ASSUME DraftingInv, CheckConsistency
  PROVE  InHand' /\ IsSeq(items)' /\ GroundedFlagIsTrue' /\ ContradictionRaised'
<1> DEFINE it == [ref |-> ref, figures |-> figures, exhibits |-> exhibits,
                  narrative |-> narrative, blockers |-> blockers \cup Inconsistencies]
<1>1. /\ phase = "consistency" /\ phase' = "item"
      /\ items' = Append(items, it)
      /\ UNCHANGED <<ref, exhibits, extracted>>
  BY DEF CheckConsistency
<1>2. /\ it.ref = ref /\ it.figures = figures /\ it.exhibits = exhibits
      /\ it.narrative = narrative /\ it.blockers = blockers \cup Inconsistencies
  OBVIOUS
<1> HIDE DEF it
<1>3. /\ IsSeq(items') /\ Len(items') \in Nat \ {0} /\ items'[Len(items')] = it
      /\ DOMAIN items' = 1..(Len(items) + 1)
      /\ \A i \in 1..Len(items) : items'[i] = items[i]
      /\ Len(items') = Len(items) + 1
      /\ Len(items) \in Nat /\ DOMAIN items = 1..Len(items)
  BY <1>1, AppendIsSeq DEF DraftingInv
<1>4. ASSUME NEW i \in DOMAIN items',
             items'[i].narrative.drafted, items'[i].ref \in Citable
      PROVE  VerdictOk(items'[i].narrative, items'[i].figures, items'[i].exhibits)
  <2>1. CASE i \in 1..Len(items)
    BY <1>3, <1>4, <2>1 DEF DraftingInv, GroundedFlagIsTrue
  <2>2. CASE i = Len(items) + 1
    <3>1. items'[i] = it
      BY <1>3, <2>2
    <3> QED BY <1>1, <1>2, <1>4, <3>1 DEF DraftingInv, InHand
  <2> QED BY <1>3, <2>1, <2>2
<1>5. GroundedFlagIsTrue'
  <2>1. GroundedFlagIsTrue' <=>
          \A i \in DOMAIN items' :
            items'[i].narrative.drafted /\ items'[i].ref \in Citable =>
              VerdictOk(items'[i].narrative, items'[i].figures, items'[i].exhibits)
    BY DEF GroundedFlagIsTrue, VerdictOk, CitationsGrounded, IntegersGrounded, Tokens,
           Grounded, Numbers
  <2> QED BY <1>4, <2>1
<1>6. ContradictionRaised'
  <2>1. Numbers(it.exhibits)' = Numbers(exhibits)
    BY <1>1, <1>2 DEF Numbers, it
  <2> SUFFICES ASSUME NEW f \in extracted'
               PROVE \/ /\ f.key \in KnownKey
                        /\ \A p \in Prior : p.item = it.ref /\ p.key = f.key =>
                             Fold[p.value] = Fold[f.value]
                     \/ \E b \in it.blockers :
                          /\ b.kind = IF f.key \in KnownKey THEN "PRIOR_ANSWER_CONFLICT"
                                                            ELSE "UNRECOGNISED_ASSERTION"
                          /\ b.cites = IF f.exhibit \in Numbers(exhibits)
                                         THEN f.exhibit ELSE Letter
    BY <1>2, <1>3 DEF ContradictionRaised, Numbers
  <2> QED BY <1>1, <1>2, RaisedOrAgrees
<1>7. InHand'
  BY <1>1 DEF DraftingInv, InHand
<1> QED BY <1>3, <1>5, <1>6, <1>7 DEF IsSeq

(* The pack is put together from items that no longer change.              *)
LEMMA PackLeavesItems ==
  ASSUME DraftingInv, Assemble \/ CoverNote \/ Held \/ UNCHANGED vars
  PROVE  InHand' /\ IsSeq(items)' /\ GroundedFlagIsTrue' /\ ContradictionRaised'
<1>1. UNCHANGED <<ref, figures, exhibits, narrative, extracted, items>>
  BY DEF Assemble, CoverNote, Held, vars
<1>2. phase' \in {"cover", "held"} \/ phase' = phase
  BY DEF Assemble, CoverNote, Held, vars
<1>3. VerdictOk(narrative, figures, exhibits)' <=> VerdictOk(narrative, figures, exhibits)
  BY <1>1 DEF VerdictOk, CitationsGrounded, IntegersGrounded, Tokens, Grounded, Numbers
<1>4. InHand'
  BY <1>1, <1>2, <1>3 DEF DraftingInv, InHand
<1>5. ContradictionRaised'
  BY <1>1, <1>2 DEF DraftingInv, ContradictionRaised, Numbers
<1> QED BY <1>1, <1>4, <1>5, ItemsKeep DEF DraftingInv

LEMMA DraftingStep == DraftingInv /\ [Next]_vars => DraftingInv'
<1> SUFFICES ASSUME DraftingInv, [Next]_vars PROVE DraftingInv'
  OBVIOUS
<1>1. CASE Number
  BY <1>1, NumberStarts DEF DraftingInv
<1>2. CASE Draft
  BY <1>2, DraftGrounded DEF DraftingInv
<1>3. CASE DraftNothing \/ Normalise
  BY <1>3, TextKept DEF DraftingInv
<1>4. CASE CheckConsistency
  BY <1>4, ItemDone DEF DraftingInv
<1>5. CASE Assemble \/ CoverNote \/ Held \/ UNCHANGED vars
  BY <1>5, PackLeavesItems DEF DraftingInv
<1> QED BY <1>1, <1>2, <1>3, <1>4, <1>5 DEF Next

-----------------------------------------------------------------------------
(* Induction over the numbers, for a set in place of a predicate, which    *)
(* tlapm could not instantiate.                                            *)
LEMMA Induction ==
  ASSUME NEW S, 0 \in S, \A n \in Nat : n \in S => n + 1 \in S
  PROVE  Nat \subseteq S
<1> SUFFICES ASSUME Nat \ S # {} PROVE FALSE
  OBVIOUS
<1>1. IsWellFoundedOn(OpToRel(<, Nat), Nat)
  BY NatLessThanWellFounded
<1>2. PICK x \in Nat \ S : \A y \in Nat \ S : ~(<<y, x>> \in OpToRel(<, Nat))
  BY <1>1, WFMin
<1>3. \A y \in Nat \ S : ~(y < x)
  BY <1>2 DEF OpToRel
<1>4. x # 0 /\ x - 1 \in Nat
  OBVIOUS
<1>5. x - 1 \in S
  BY <1>3, <1>4
<1> QED BY <1>4, <1>5

\* The recursion of FlattenSeq up to m: f[i] is the first i sequences in a row.
Joined(seqs, m, f) ==
  [i \in 1..m |-> IF i = 1 THEN seqs[i] ELSE f[i - 1] \o seqs[i]]

(* FlattenSeq is the last value of the function it recurs on.              *)
LEMMA FlattenIsJoined ==
  ASSUME NEW seqs, Len(seqs) \in Nat \ {0}
  PROVE  \E f : f = Joined(seqs, Len(seqs), f) /\ FlattenSeq(seqs) = f[Len(seqs)]
<1> DEFINE S == {m \in Nat : \E f : f = Joined(seqs, m, f)}
<1>1. 0 \in S
  <2>1. << >> = Joined(seqs, 0, << >>)
    BY DEF Joined
  <2> QED BY <2>1
<1>2. ASSUME NEW m \in Nat, m \in S PROVE m + 1 \in S
  <2>1. PICK f : f = Joined(seqs, m, f)
    BY <1>2
  <2> DEFINE g == Joined(seqs, m + 1, f)
  <2>2. ASSUME NEW i \in 1..(m + 1), i # 1 PROVE g[i - 1] = f[i - 1]
    <3>1. i - 1 \in 1..m /\ i - 1 \in 1..(m + 1)
      BY <2>2
    <3>2. g[i - 1] = IF i - 1 = 1 THEN seqs[i - 1] ELSE f[i - 1 - 1] \o seqs[i - 1]
      BY <3>1 DEF Joined
    <3>3. Joined(seqs, m, f)[i - 1] =
            IF i - 1 = 1 THEN seqs[i - 1] ELSE f[i - 1 - 1] \o seqs[i - 1]
      BY <3>1 DEF Joined
    <3> QED BY <2>1, <3>2, <3>3
  <2>3. g = Joined(seqs, m + 1, g)
    <3>1. g = [i \in 1..(m + 1) |-> IF i = 1 THEN seqs[i] ELSE f[i - 1] \o seqs[i]]
      BY DEF Joined
    <3> HIDE DEF g
    <3> QED BY <2>2, <3>1, Zenon DEF Joined
  <2> QED BY <2>3
<1>3. Len(seqs) \in S
  <2> HIDE DEF S
  <2>1. Nat \subseteq S
    BY <1>1, <1>2, Induction
  <2> QED BY <2>1
<1>4. \E f : f = Joined(seqs, Len(seqs), f)
  BY <1>3
<1> DEFINE h == CHOOSE f : f = Joined(seqs, Len(seqs), f)
<1>5. h = Joined(seqs, Len(seqs), h)
  BY <1>4
<1>6. FlattenSeq(seqs) = h[Len(seqs)]
  BY Zenon DEF FlattenSeq, Joined
<1> QED BY <1>5, <1>6

(* rows is the first m sequences in a row: nothing is lost, nothing comes  *)
(* from elsewhere, and what is in one place only stays in one place only.  *)
Flat(T, seqs, m, rows, E) ==
  /\ rows \in Seq(T)
  /\ \A k \in DOMAIN rows : \E i \in 1..m : \E x \in DOMAIN seqs[i] : rows[k] = seqs[i][x]
  /\ \A i \in 1..m : \A x \in DOMAIN seqs[i] : \E k \in DOMAIN rows : rows[k] = seqs[i][x]
  /\ \A k, l \in DOMAIN rows : rows[k] \in E /\ rows[l] \in E => k = l

\* Something of E is found in one place of the sequences at most.
Once(seqs, E) ==
  \A i, j \in 1..Len(seqs) : \A x \in DOMAIN seqs[i], y \in DOMAIN seqs[j] :
    seqs[i][x] \in E /\ seqs[j][y] \in E => i = j /\ x = y

LEMMA FlatFirst ==
  ASSUME NEW T, NEW seqs \in Seq(Seq(T)), 1 \in 1..Len(seqs), NEW E, Once(seqs, E)
  PROVE  Flat(T, seqs, 1, seqs[1], E)
<1>1. seqs[1] \in Seq(T)
  OBVIOUS
<1>2. \A k, l \in DOMAIN seqs[1] : seqs[1][k] \in E /\ seqs[1][l] \in E => k = l
  BY DEF Once
<1>3. 1..1 = {1}
  OBVIOUS
<1> QED BY <1>1, <1>2, <1>3 DEF Flat

LEMMA FlatNext ==
  ASSUME NEW T, NEW seqs \in Seq(Seq(T)), NEW m \in Nat, m + 1 <= Len(seqs),
         NEW E, Once(seqs, E), NEW rows, Flat(T, seqs, m, rows, E)
  PROVE  Flat(T, seqs, m + 1, rows \o seqs[m + 1], E)
<1> DEFINE last == seqs[m + 1]
           all == rows \o last
<1>1. rows \in Seq(T) /\ last \in Seq(T)
  BY DEF Flat
<1>0. /\ \A k \in DOMAIN rows : \E i \in 1..m : \E x \in DOMAIN seqs[i] : rows[k] = seqs[i][x]
      /\ \A i \in 1..m : \A x \in DOMAIN seqs[i] : \E k \in DOMAIN rows : rows[k] = seqs[i][x]
      /\ \A k, l \in DOMAIN rows : rows[k] \in E /\ rows[l] \in E => k = l
  BY Zenon DEF Flat
<1>2. /\ all \in Seq(T) /\ Len(all) = Len(rows) + Len(last)
      /\ \A k \in 1..Len(all) :
           all[k] = IF k <= Len(rows) THEN rows[k] ELSE last[k - Len(rows)]
      /\ Len(rows) \in Nat /\ Len(last) \in Nat
      /\ DOMAIN rows = 1..Len(rows) /\ DOMAIN last = 1..Len(last) /\ DOMAIN all = 1..Len(all)
  BY <1>1
<1> HIDE DEF all
<1>3. \A k \in DOMAIN all :
         \/ k \in DOMAIN rows /\ all[k] = rows[k]
         \/ k - Len(rows) \in DOMAIN last /\ k \notin DOMAIN rows /\ all[k] = last[k - Len(rows)]
  BY <1>2
<1>4. ASSUME NEW x \in DOMAIN last
      PROVE  Len(rows) + x \in DOMAIN all /\ all[Len(rows) + x] = last[x]
  <2>1. x \in 1..Len(last)
    BY <1>2
  <2>2. /\ Len(rows) + x \in 1..Len(all) /\ ~(Len(rows) + x <= Len(rows))
        /\ (Len(rows) + x) - Len(rows) = x
    BY <1>2, <2>1
  <2> HIDE DEF last
  <2> QED BY <1>2, <2>2
<1>5. \A x \in DOMAIN rows : x \in DOMAIN all /\ all[x] = rows[x]
  BY <1>2
<1>6. /\ m + 1 \in 1..(m + 1) /\ m + 1 \notin 1..m /\ m + 1 \in 1..Len(seqs)
      /\ \A i \in 1..(m + 1) : i \in 1..m \/ i = m + 1
      /\ \A i \in 1..m : i \in 1..(m + 1) /\ i \in 1..Len(seqs)
  OBVIOUS
<1>7. ASSUME NEW k \in DOMAIN all
      PROVE  \E i \in 1..(m + 1) : \E x \in DOMAIN seqs[i] : all[k] = seqs[i][x]
  <2>1. CASE k \in DOMAIN rows /\ all[k] = rows[k]
    <3>1. PICK i \in 1..m : \E x \in DOMAIN seqs[i] : rows[k] = seqs[i][x]
      BY <1>0, <2>1
    <3> QED BY <1>6, <2>1, <3>1
  <2>2. CASE k - Len(rows) \in DOMAIN last /\ all[k] = last[k - Len(rows)]
    BY <1>6, <2>2
  <2> QED BY <1>3, <2>1, <2>2
<1>8. ASSUME NEW i \in 1..(m + 1), NEW x \in DOMAIN seqs[i]
      PROVE  \E k \in DOMAIN all : all[k] = seqs[i][x]
  <2>1. CASE i \in 1..m
    <3>1. PICK k \in DOMAIN rows : rows[k] = seqs[i][x]
      BY <1>0, <2>1
    <3> QED BY <1>5, <3>1
  <2>2. CASE i = m + 1
    BY <1>4, <2>2
  <2> QED BY <1>6, <2>1, <2>2
<1>9. ASSUME NEW k \in DOMAIN all, NEW l \in DOMAIN all, all[k] \in E, all[l] \in E
      PROVE  k = l
  <2>1. ASSUME NEW a \in DOMAIN all, NEW b \in DOMAIN all, all[a] \in E, all[b] \in E,
               a \in DOMAIN rows, b \notin DOMAIN rows
        PROVE  FALSE
    <3>0. all[a] = rows[a]
      BY <1>5, <2>1
    <3>1. PICK i \in 1..m : \E x \in DOMAIN seqs[i] : rows[a] = seqs[i][x]
      BY <1>0, <2>1
    <3>2. b - Len(rows) \in DOMAIN last /\ all[b] = last[b - Len(rows)]
      BY <1>3, <2>1
    <3>3. i = m + 1
      BY <1>6, <2>1, <3>0, <3>1, <3>2 DEF Once
    <3> QED BY <1>6, <3>3
  <2>2. CASE k \in DOMAIN rows /\ l \in DOMAIN rows
    BY <1>0, <1>5, <1>9, <2>2
  <2>3. CASE k \notin DOMAIN rows /\ l \notin DOMAIN rows
    <3>1. /\ k - Len(rows) \in DOMAIN last /\ all[k] = last[k - Len(rows)]
          /\ l - Len(rows) \in DOMAIN last /\ all[l] = last[l - Len(rows)]
      BY <1>3, <2>3
    <3>2. k - Len(rows) = l - Len(rows)
      BY <1>6, <1>9, <3>1 DEF Once
    <3> QED BY <1>2, <3>2
  <2> QED BY <1>9, <2>1, <2>2, <2>3
<1> QED BY <1>2, <1>7, <1>8, <1>9 DEF Flat, all

(* FlattenSeq loses nothing, adds nothing and repeats nothing.             *)
LEMMA FlattenIsFlat ==
  ASSUME NEW T, NEW seqs \in Seq(Seq(T)), seqs # << >>, NEW E, Once(seqs, E)
  PROVE  Flat(T, seqs, Len(seqs), FlattenSeq(seqs), E)
<1>1. Len(seqs) \in Nat \ {0}
  OBVIOUS
<1>2. PICK f : f = Joined(seqs, Len(seqs), f) /\ FlattenSeq(seqs) = f[Len(seqs)]
  BY <1>1, FlattenIsJoined
<1>3. \A i \in 1..Len(seqs) : f[i] = IF i = 1 THEN seqs[i] ELSE f[i - 1] \o seqs[i]
  BY <1>2 DEF Joined
<1> DEFINE S == {m \in Nat : m + 1 <= Len(seqs) => Flat(T, seqs, m + 1, f[m + 1], E)}
<1>4. 0 \in S
  <2>1. f[1] = seqs[1] /\ 1 \in 1..Len(seqs)
    BY <1>1, <1>3
  <2>2. Flat(T, seqs, 1, f[1], E)
    BY <2>1, FlatFirst
  <2> QED BY <2>2
<1>5. ASSUME NEW m \in Nat, m \in S PROVE m + 1 \in S
  <2> SUFFICES ASSUME (m + 1) + 1 <= Len(seqs)
               PROVE  Flat(T, seqs, (m + 1) + 1, f[(m + 1) + 1], E)
    OBVIOUS
  <2>1. m + 1 \in Nat /\ m + 1 <= Len(seqs) /\ (m + 1) + 1 \in 1..Len(seqs)
        /\ (m + 1) + 1 # 1 /\ ((m + 1) + 1) - 1 = m + 1
    OBVIOUS
  <2>2. Flat(T, seqs, m + 1, f[m + 1], E)
    BY <1>5, <2>1
  <2>3. f[(m + 1) + 1] = f[m + 1] \o seqs[(m + 1) + 1]
    BY <1>3, <2>1
  <2> QED BY <2>1, <2>2, <2>3, FlatNext
<1>6. Len(seqs) - 1 \in S
  <2> HIDE DEF S
  <2>1. Nat \subseteq S
    BY <1>4, <1>5, Induction
  <2> QED BY <1>1, <2>1
<1>7. (Len(seqs) - 1) + 1 = Len(seqs)
  BY <1>1
<1> QED BY <1>1, <1>2, <1>6, <1>7

-----------------------------------------------------------------------------
\* The exhibits on the table are numbered for the item in hand, and its text
\* refers to no others where a reader can tell.
OnTable ==
  /\ Numbered(ref, exhibits)
  /\ Readable(narrative.cites) \subseteq Numbers(exhibits)

\* So do the items done.
ItemsAnnexed ==
  \A i \in DOMAIN items : /\ items[i].ref \in ItemRef
                          /\ Numbered(items[i].ref, items[i].exhibits)
                          /\ Readable(items[i].narrative.cites) \subseteq Numbers(items[i].exhibits)

\* The pack's index is the exhibits of its items, and its cover note refers to
\* rows of the index.
PackAnnexed ==
  /\ phase \in {"cover", "held"} => items # << >> /\ pack.index = Renumbered
  /\ phase = "cover" =>
       pack = [index |-> Renumbered, cover |-> NoNarrative, blockers |-> ItemBlockers]
  /\ phase = "held" => Readable(pack.cover.cites) \subseteq Numbers(pack.index)

AnnexInv == IsSeq(items) /\ ref \in ItemRef /\ OnTable /\ ItemsAnnexed /\ PackAnnexed

(* No exhibits are numbered for any item.                                  *)
LEMMA NothingNumbered == \A r : Numbered(r, << >>)
BY DEF Numbered

LEMMA NothingCited == \A exs : Readable(NoNarrative.cites) \subseteq Numbers(exs)
BY DEF Readable, NoNarrative

LEMMA AnnexInit == Init => AnnexInv
<1> SUFFICES ASSUME Init PROVE AnnexInv
  OBVIOUS
<1>1. /\ items = << >> /\ exhibits = << >> /\ phase = "item" /\ narrative = NoNarrative
      /\ ref \in ItemRef
  BY DEF Init
<1>2. << >> \in Seq({}) /\ DOMAIN << >> = {}
  OBVIOUS
<1>3. IsSeq(items)
  BY <1>1, <1>2 DEF IsSeq
<1>4. DOMAIN items = {}
  BY <1>1, <1>2
<1> QED BY <1>1, <1>3, <1>4, NothingNumbered, NothingCited
        DEF AnnexInv, OnTable, ItemsAnnexed, PackAnnexed

(* Whatever text is kept or put in its place refers to the exhibits it was *)
(* given (G2, and fallback_narrative).                                     *)
LEMMA NarrativesRefer ==
  ASSUME NEW figs, NEW exs, NEW text \in Narratives(figs, exs)
  PROVE  Readable(text.cites) \subseteq Numbers(exs)
<1>1. CASE text = Discarded(figs, exs)
  BY <1>1 DEF Discarded, Readable
<1>2. CASE text # Discarded(figs, exs)
  <2>1. PICK t \in Text : VerdictOk(t, figs, exs) /\ text = Kept(t)
    BY <1>2 DEF Narratives
  <2>2. text.cites = t.cites
    BY <2>1 DEF Kept
  <2>3. \A no \in t.cites : no.item \in Citable => no \in Numbers(exs)
    BY <2>1 DEF VerdictOk, CitationsGrounded
  <2> QED BY <2>2, <2>3 DEF Readable
<1> QED BY <1>1, <1>2

(* What stays on the table stays true.                                     *)
LEMMA TableKept ==
  ASSUME OnTable, UNCHANGED <<ref, exhibits, narrative>>
  PROVE  OnTable'
<1>1. OnTable' <=> /\ Numbered(ref', exhibits')
                   /\ Readable(narrative'.cites) \subseteq Numbers(exhibits')
  BY DEF OnTable, Numbered, DocsOf, Place, Before, Readable, Numbers
<1> QED BY <1>1 DEF OnTable

LEMMA DoneKept ==
  ASSUME IsSeq(items), ItemsAnnexed, items' = items
  PROVE  IsSeq(items)' /\ ItemsAnnexed'
<1>1. IsSeq(items)'
  BY DEF IsSeq
<1>2. ItemsAnnexed' <=> \A i \in DOMAIN items' :
        /\ items'[i].ref \in ItemRef
        /\ Numbered(items'[i].ref, items'[i].exhibits)
        /\ Readable(items'[i].narrative.cites) \subseteq Numbers(items'[i].exhibits)
  BY DEF ItemsAnnexed, Numbered, DocsOf, Place, Before, Readable, Numbers
<1> QED BY <1>1, <1>2 DEF ItemsAnnexed

LEMMA AnnexNumber == AnnexInv /\ Number => AnnexInv'
<1> SUFFICES ASSUME AnnexInv, Number PROVE AnnexInv'
  OBVIOUS
<1>1. PICK r \in ItemRef, accepted \in Accepted : ref' = r /\ exhibits' = NumberExhibits(r, accepted)
  BY DEF Number
<1>2. phase' = "draft" /\ narrative' = NoNarrative /\ items' = items
  BY DEF Number
<1>3. Numbered(ref', exhibits')
  BY <1>1, NumberingSorts
<1>4. Readable(narrative'.cites) \subseteq Numbers(exhibits')
  BY <1>2, NothingCited
<1>5. OnTable'
  BY <1>3, <1>4 DEF OnTable, Numbered, DocsOf, Place, Before, Readable, Numbers
<1>6. PackAnnexed'
  BY <1>2 DEF PackAnnexed
<1> QED BY <1>1, <1>2, <1>5, <1>6, DoneKept DEF AnnexInv

LEMMA AnnexDraft == AnnexInv /\ Draft => AnnexInv'
<1> SUFFICES ASSUME AnnexInv, Draft PROVE AnnexInv'
  OBVIOUS
<1>1. /\ phase' = "normalise" /\ narrative' \in Narratives(figures, exhibits)
      /\ UNCHANGED <<ref, exhibits, items>>
  BY DEF Draft
<1>2. Readable(narrative'.cites) \subseteq Numbers(exhibits)
  BY <1>1, NarrativesRefer
<1>3. OnTable'
  BY <1>1, <1>2 DEF AnnexInv, OnTable, Numbered, DocsOf, Place, Before, Readable, Numbers
<1>4. PackAnnexed'
  BY <1>1 DEF PackAnnexed
<1> QED BY <1>1, <1>3, <1>4, DoneKept DEF AnnexInv

LEMMA AnnexText == AnnexInv /\ (DraftNothing \/ Normalise) => AnnexInv'
<1> SUFFICES ASSUME AnnexInv, DraftNothing \/ Normalise PROVE AnnexInv'
  OBVIOUS
<1>1. phase' = "consistency" /\ UNCHANGED <<ref, exhibits, narrative, items>>
  BY DEF DraftNothing, Normalise
<1>2. PackAnnexed'
  BY <1>1 DEF PackAnnexed
<1> QED BY <1>1, <1>2, TableKept, DoneKept DEF AnnexInv

LEMMA AnnexItem == AnnexInv /\ CheckConsistency => AnnexInv'
<1> SUFFICES ASSUME AnnexInv, CheckConsistency PROVE AnnexInv'
  OBVIOUS
<1> DEFINE it == [ref |-> ref, figures |-> figures, exhibits |-> exhibits,
                  narrative |-> narrative, blockers |-> blockers \cup Inconsistencies]
<1>1. /\ phase' = "item" /\ items' = Append(items, it)
      /\ UNCHANGED <<ref, exhibits, narrative>>
  BY DEF CheckConsistency
<1>2. it.ref = ref /\ it.exhibits = exhibits /\ it.narrative = narrative
  OBVIOUS
<1> HIDE DEF it
<1>3. /\ IsSeq(items') /\ items'[Len(items')] = it
      /\ DOMAIN items' = 1..(Len(items) + 1) /\ Len(items') = Len(items) + 1
      /\ \A i \in 1..Len(items) : items'[i] = items[i]
      /\ Len(items) \in Nat /\ DOMAIN items = 1..Len(items)
  BY <1>1, AppendIsSeq DEF AnnexInv
<1>4. ASSUME NEW i \in DOMAIN items'
      PROVE  /\ items'[i].ref \in ItemRef
             /\ Numbered(items'[i].ref, items'[i].exhibits)
             /\ Readable(items'[i].narrative.cites) \subseteq Numbers(items'[i].exhibits)
  <2>1. CASE i \in 1..Len(items)
    BY <1>3, <2>1 DEF AnnexInv, ItemsAnnexed
  <2>2. CASE i = Len(items) + 1
    <3>1. items'[i] = it
      BY <1>3, <2>2
    <3> QED BY <1>2, <3>1 DEF AnnexInv, OnTable
  <2> QED BY <1>3, <2>1, <2>2
<1>5. ItemsAnnexed'
  <2>1. ItemsAnnexed' <=> \A i \in DOMAIN items' :
          /\ items'[i].ref \in ItemRef
          /\ Numbered(items'[i].ref, items'[i].exhibits)
          /\ Readable(items'[i].narrative.cites) \subseteq Numbers(items'[i].exhibits)
    BY DEF ItemsAnnexed, Numbered, DocsOf, Place, Before, Readable, Numbers
  <2> QED BY <1>4, <2>1
<1>6. PackAnnexed'
  BY <1>1 DEF PackAnnexed
<1> QED BY <1>1, <1>3, <1>5, <1>6, TableKept DEF AnnexInv, IsSeq

LEMMA AnnexAssemble == AnnexInv /\ Assemble => AnnexInv'
<1> SUFFICES ASSUME AnnexInv, Assemble PROVE AnnexInv'
  OBVIOUS
<1>1. /\ items # << >> /\ phase' = "cover"
      /\ pack' = [index |-> Renumbered, cover |-> NoNarrative, blockers |-> ItemBlockers]
      /\ UNCHANGED <<ref, exhibits, narrative, items>>
  BY DEF Assemble
<1>2. Renumbered' = Renumbered /\ ItemBlockers' = ItemBlockers
  BY <1>1 DEF Renumbered, ItemBlockers
<1>3. PackAnnexed'
  BY <1>1, <1>2 DEF PackAnnexed
<1> QED BY <1>1, <1>3, TableKept, DoneKept DEF AnnexInv

LEMMA AnnexCover == AnnexInv /\ CoverNote => AnnexInv'
<1> SUFFICES ASSUME AnnexInv, CoverNote PROVE AnnexInv'
  OBVIOUS
<1>1. PICK f \in Figures :
        \E note \in IF pack.index = << >> THEN {NoNarrative}
                    ELSE Narratives(CoverFigures(f), pack.index) :
          pack' = [pack EXCEPT !.cover = note]
  BY DEF CoverNote
<1>2. PICK note \in IF pack.index = << >> THEN {NoNarrative}
                    ELSE Narratives(CoverFigures(f), pack.index) :
        pack' = [pack EXCEPT !.cover = note]
  BY <1>1
<1>3. phase = "cover" /\ phase' = "held" /\ UNCHANGED <<ref, exhibits, narrative, items>>
  BY DEF CoverNote
<1>4. pack = [index |-> Renumbered, cover |-> NoNarrative, blockers |-> ItemBlockers]
  BY <1>3 DEF AnnexInv, PackAnnexed
<1>5. pack'.index = Renumbered /\ pack'.cover = note /\ pack.index = Renumbered
  BY <1>2, <1>4
<1>6. Readable(note.cites) \subseteq Numbers(pack.index)
  BY <1>2, NothingCited, NarrativesRefer
<1>7. Renumbered' = Renumbered /\ items # << >>
  BY <1>3 DEF Renumbered, AnnexInv, PackAnnexed
<1>8. Readable(pack'.cover.cites) \subseteq Numbers(pack'.index)
  BY <1>5, <1>6
<1>9. PackAnnexed'
  BY <1>3, <1>5, <1>7, <1>8 DEF PackAnnexed, Readable, Numbers
<1> QED BY <1>3, <1>9, TableKept, DoneKept DEF AnnexInv

LEMMA AnnexStep == AnnexInv /\ [Next]_vars => AnnexInv'
<1> SUFFICES ASSUME AnnexInv, [Next]_vars PROVE AnnexInv'
  OBVIOUS
<1>1. CASE Held \/ UNCHANGED vars
  <2>1. UNCHANGED vars
    BY <1>1 DEF Held
  <2>2. PackAnnexed'
    BY <2>1 DEF vars, AnnexInv, PackAnnexed, Renumbered, ItemBlockers, Readable, Numbers
  <2>3. ref' \in ItemRef
    BY <2>1 DEF vars, AnnexInv
  <2> QED BY <2>1, <2>2, <2>3, TableKept, DoneKept DEF vars, AnnexInv
<1>2. CASE Number \/ Draft \/ DraftNothing \/ Normalise
  BY <1>2, AnnexNumber, AnnexDraft, AnnexText
<1>3. CASE CheckConsistency \/ Assemble \/ CoverNote
  BY <1>3, AnnexItem, AnnexAssemble, AnnexCover
<1> QED BY <1>1, <1>2, <1>3 DEF Next

(* Every exhibit is a row of the index, every row is an exhibit, and what  *)
(* is an exhibit in one place only is one row (renumber_document_index).   *)
LEMMA IndexHolds ==
  ASSUME AnnexInv, items # << >>, NEW E, Once([i \in DOMAIN items |-> items[i].exhibits], E)
  PROVE  /\ \A i \in DOMAIN items : \A x \in DOMAIN items[i].exhibits :
              \E k \in DOMAIN Renumbered : /\ Renumbered[k].no = items[i].exhibits[x].no
                                           /\ Renumbered[k].doc = items[i].exhibits[x].doc
         /\ \A k \in DOMAIN Renumbered :
              [no |-> Renumbered[k].no, doc |-> Renumbered[k].doc] \in Exhibit
         /\ \A k, l \in DOMAIN Renumbered :
              /\ [no |-> Renumbered[k].no, doc |-> Renumbered[k].doc] \in E
              /\ [no |-> Renumbered[l].no, doc |-> Renumbered[l].doc] \in E
              => k = l
<1> DEFINE seqs == [i \in DOMAIN items |-> items[i].exhibits]
           rows == FlattenSeq(seqs)
<1>1. PICK S : items \in Seq(S)
  BY DEF AnnexInv, IsSeq
<1>2. Len(items) \in Nat \ {0} /\ DOMAIN items = 1..Len(items)
  BY <1>1
<1>3. \A i \in DOMAIN items : items[i].exhibits \in Seq(Exhibit)
  BY DEF AnnexInv, ItemsAnnexed, Numbered
<1>4. seqs \in [1..Len(items) -> Seq(Exhibit)]
  BY <1>2, <1>3
<1>5. \A i \in DOMAIN items : seqs[i] = items[i].exhibits
  OBVIOUS
<1>6. Renumbered = [k \in DOMAIN rows |-> [no |-> rows[k].no, doc |-> rows[k].doc, idx |-> k]]
  BY Zenon DEF Renumbered
<1>7. Once(seqs, E)
  OBVIOUS
<1> HIDE DEF seqs
<1>8. seqs \in Seq(Seq(Exhibit)) /\ Len(seqs) = Len(items) /\ seqs # << >>
  BY <1>2, <1>4
<1>9. Flat(Exhibit, seqs, Len(seqs), rows, E)
  BY <1>7, <1>8, FlattenIsFlat
<1> HIDE DEF rows
<1>10. /\ rows \in Seq(Exhibit)
       /\ \A k \in DOMAIN rows : \E i \in DOMAIN items : \E x \in DOMAIN seqs[i] : rows[k] = seqs[i][x]
       /\ \A i \in DOMAIN items : \A x \in DOMAIN seqs[i] : \E k \in DOMAIN rows : rows[k] = seqs[i][x]
       /\ \A k, l \in DOMAIN rows : rows[k] \in E /\ rows[l] \in E => k = l
  BY <1>2, <1>8, <1>9, Zenon DEF Flat
<1>11. /\ DOMAIN Renumbered = DOMAIN rows
       /\ \A k \in DOMAIN rows : /\ Renumbered[k].no = rows[k].no
                                 /\ Renumbered[k].doc = rows[k].doc
                                 /\ rows[k] \in Exhibit
  BY <1>6, <1>10
<1>12. ASSUME NEW i \in DOMAIN items, NEW x \in DOMAIN items[i].exhibits
       PROVE  \E k \in DOMAIN Renumbered : /\ Renumbered[k].no = items[i].exhibits[x].no
                                           /\ Renumbered[k].doc = items[i].exhibits[x].doc
  <2>1. PICK k \in DOMAIN rows : rows[k] = items[i].exhibits[x]
    BY <1>5, <1>10
  <2> QED BY <1>11, <2>1
<1>13. ASSUME NEW k \in DOMAIN Renumbered
       PROVE  [no |-> Renumbered[k].no, doc |-> Renumbered[k].doc] = rows[k]
  BY <1>11 DEF Exhibit
<1> QED BY <1>10, <1>11, <1>12, <1>13

(* grounded=True means it, on the model's text and on the paragraph that   *)
(* replaces it, for any exhibits, figures and texts (narrative_verdict and *)
(* fallback_narrative of domain/narration.py).            *)
THEOREM GroundedIsTrue == Spec => []GroundedFlagIsTrue
<1>1. Init => DraftingInv
  BY DraftingInit
<1>2. DraftingInv /\ [Next]_vars => DraftingInv'
  BY DraftingStep
<1>3. DraftingInv => GroundedFlagIsTrue
  BY DEF DraftingInv
<1> QED BY <1>1, <1>2, <1>3, PTL DEF Spec

(* Whatever a model extracts, under whatever keys and exhibit references,  *)
(* a disagreement with an earlier answer is on the item as a blocker       *)
(* (check_consistency of domain/consistency.py).                 *)
THEOREM ContradictionsRaised == Spec => []ContradictionRaised
<1>1. Init => DraftingInv
  BY DraftingInit
<1>2. DraftingInv /\ [Next]_vars => DraftingInv'
  BY DraftingStep
<1>3. DraftingInv => ContradictionRaised
  BY DEF DraftingInv
<1> QED BY <1>1, <1>2, <1>3, PTL DEF Spec

(* A reader who follows a reference of the pack arrives.                   *)
LEMMA ReferencesResolve == AnnexInv => CitationsResolve
<1> SUFFICES ASSUME AnnexInv, phase = "held" PROVE CitationsResolve
  BY DEF CitationsResolve
<1> DEFINE rows(no) == {k \in DOMAIN pack.index : pack.index[k].no = no}
<1>1. items # << >> /\ pack.index = Renumbered
      /\ Readable(pack.cover.cites) \subseteq Numbers(pack.index)
  BY DEF AnnexInv, PackAnnexed
<1>2. ASSUME NEW no \in Readable(pack.cover.cites) PROVE rows(no) # {}
  BY <1>1 DEF Numbers
<1>3. ASSUME NEW i \in DOMAIN items, NEW no \in Readable(items[i].narrative.cites)
      PROVE  \E k \in rows(no), x \in DOMAIN items[i].exhibits :
               /\ items[i].exhibits[x].no = no
               /\ pack.index[k].doc = items[i].exhibits[x].doc
  <2>1. PICK x \in DOMAIN items[i].exhibits : items[i].exhibits[x].no = no
    BY DEF AnnexInv, ItemsAnnexed, Numbers
  <2>2. Once([j \in DOMAIN items |-> items[j].exhibits], {})
    BY DEF Once
  <2>3. PICK k \in DOMAIN Renumbered : /\ Renumbered[k].no = items[i].exhibits[x].no
                                       /\ Renumbered[k].doc = items[i].exhibits[x].doc
    BY <1>1, <2>2, IndexHolds
  <2> QED BY <1>1, <2>1, <2>3
<1>4. ASSUME NEW i \in DOMAIN items, NEW no \in Readable(items[i].narrative.cites),
             \A j \in DOMAIN items : items[j].ref = items[i].ref => j = i
      PROVE  Cardinality(rows(no)) = 1
  <2> DEFINE E == {e \in Exhibit : e.no = no}
             seqs == [j \in DOMAIN items |-> items[j].exhibits]
  <2>1. PICK y \in DOMAIN items[i].exhibits : items[i].exhibits[y].no = no
    BY DEF AnnexInv, ItemsAnnexed, Numbers
  <2>2. \A j \in DOMAIN items : \A x \in DOMAIN items[j].exhibits :
          items[j].exhibits[x].no = [item |-> items[j].ref, at |-> x]
    BY DEF AnnexInv, ItemsAnnexed, Numbered
  <2>3. no.item = items[i].ref
    <3>1. no = [item |-> items[i].ref, at |-> y]
      BY <2>1, <2>2
    <3> QED BY <3>1
  <2>4. ASSUME NEW j \in DOMAIN items, NEW x \in DOMAIN items[j].exhibits,
               items[j].exhibits[x].no = no
        PROVE  j = i /\ x = no.at
    <3>1. no = [item |-> items[j].ref, at |-> x]
      BY <2>2, <2>4
    <3>2. items[j].ref = items[i].ref /\ x = no.at
      BY <2>3, <3>1
    <3> QED BY <1>4, <3>2
  <2>5. Once(seqs, E)
    <3>1. PICK S : items \in Seq(S)
      BY DEF AnnexInv, IsSeq
    <3>2. Len(seqs) = Len(items) /\ DOMAIN items = 1..Len(items)
      BY <3>1
    <3>3. \A j \in 1..Len(seqs) : j \in DOMAIN items /\ seqs[j] = items[j].exhibits
      BY <3>2
    <3> HIDE DEF seqs
    <3> SUFFICES ASSUME NEW j \in 1..Len(seqs), NEW h \in 1..Len(seqs),
                        NEW x \in DOMAIN seqs[j], NEW z \in DOMAIN seqs[h],
                        seqs[j][x] \in E, seqs[h][z] \in E
                 PROVE  j = h /\ x = z
      BY DEF Once
    <3>4. items[j].exhibits[x].no = no /\ items[h].exhibits[z].no = no
      BY <3>3
    <3>5. j = i /\ x = no.at /\ h = i /\ z = no.at
      BY <2>4, <3>3, <3>4
    <3> QED BY <3>5
  <2> HIDE DEF E
  <2>6. ASSUME NEW k \in rows(no), NEW l \in rows(no) PROVE k = l
    <3>1. /\ k \in DOMAIN Renumbered /\ Renumbered[k].no = no
          /\ l \in DOMAIN Renumbered /\ Renumbered[l].no = no
      BY <1>1
    <3>2. /\ [no |-> Renumbered[k].no, doc |-> Renumbered[k].doc] \in E
          /\ [no |-> Renumbered[l].no, doc |-> Renumbered[l].doc] \in E
      BY <1>1, <2>5, <3>1, IndexHolds DEF E
    <3> QED BY <1>1, <2>5, <3>1, <3>2, IndexHolds
  <2>7. PICK k : k \in rows(no)
    BY <1>3
  <2>8. rows(no) = {k}
    BY <2>6, <2>7
  <2> QED BY <2>8, FS_Singleton
<1>5. \A i \in DOMAIN items : \A no \in Readable(items[i].narrative.cites) : rows(no) # {}
  BY <1>3
<1> QED BY <1>2, <1>3, <1>4, <1>5 DEF CitationsResolve

LEMMA AnnexAlways == Spec => []AnnexInv
BY AnnexInit, AnnexStep, PTL DEF Spec

(* Every exhibit a text of the pack refers to is in the document index, as *)
(* the document produced for that item, and in one row only unless the     *)
(* letter used the reference twice, for any documents in any order, any    *)
(* drafts and any letter.                                                  *)
THEOREM EveryCitationResolves == Spec => []CitationsResolve
BY AnnexAlways, ReferencesResolve, PTL

(* The annex of an item depends on which documents were accepted and on    *)
(* nothing else, in whatever order they came (number_exhibits, rule E1).   *)
THEOREM AnnexIsDetermined == Spec => []SameEvidenceSameAnnex
<1>1. AnnexInv => SameEvidenceSameAnnex
  <2> SUFFICES ASSUME AnnexInv, NEW i \in DOMAIN items, NEW j \in DOMAIN items,
                      items[i].ref = items[j].ref,
                      DocsOf(items[i].exhibits) = DocsOf(items[j].exhibits)
               PROVE  items[i].exhibits = items[j].exhibits
    BY DEF SameEvidenceSameAnnex, DocsOf
  <2>1. /\ Numbered(items[i].ref, items[i].exhibits)
        /\ Numbered(items[i].ref, items[j].exhibits)
    BY DEF AnnexInv, ItemsAnnexed
  <2> QED BY <2>1, SameDocsSameExhibits
<1> QED BY <1>1, AnnexAlways, PTL

-----------------------------------------------------------------------------
Row == [no : ExhibitNo, doc : Doc, idx : Nat]

\* What the item in hand, the items done and the pack are made of.
HandTyped ==
  /\ phase \in {"item", "draft", "normalise", "consistency", "cover", "held"}
  /\ figures \in Figures
  /\ narrative \in Narrative
  /\ extracted \subseteq Triple
  /\ blockers \subseteq Blocker
DoneTyped ==
  /\ items \in Seq(Item) /\ Len(items) <= MaxItems
  /\ phase \in {"draft", "normalise", "consistency"} => Len(items) < MaxItems
PackTyped ==
  pack.index \in Seq(Row) /\ pack.cover \in Narrative /\ pack.blockers \subseteq Blocker
DraftTyped == HandTyped /\ DoneTyped /\ PackTyped

(* There are at most as many exhibits as documents may be accepted.        *)
LEMMA NumberedWithin ==
  ASSUME NEW r, NEW exs, Numbered(r, exs)
  PROVE  exs \in Seq(Exhibit) /\ Len(exs) <= MaxAccepted /\ Numbers(exs) \subseteq ExhibitNo
<1>1. exs \in Seq(Exhibit) /\ Len(exs) \in Nat /\ DOMAIN exs = 1..Len(exs)
  BY DEF Numbered
<1>2. ASSUME NEW k \in DOMAIN exs PROVE exs[k].no \in ExhibitNo
  <2>1. exs[k] \in Exhibit
    BY <1>1
  <2> QED BY <2>1 DEF Exhibit
<1>3. ASSUME NEW p \in DOMAIN exs PROVE p <= MaxAccepted
  <2>1. [item |-> r, at |-> p] \in ExhibitNo
    BY <1>2 DEF Numbered
  <2> QED BY <2>1, DraftingAssumption DEF ExhibitNo, DraftingAssumption
<1>4. Len(exs) <= MaxAccepted
  <2>1. CASE Len(exs) = 0
    BY <2>1, DraftingAssumption DEF DraftingAssumption
  <2>2. CASE Len(exs) # 0
    BY <1>1, <1>3, <2>2
  <2> QED BY <2>1, <2>2
<1> QED BY <1>1, <1>2, <1>4 DEF Numbers

(* A text that is kept, or the paragraph in its place, refers to exhibits  *)
(* alone: a reference to one nobody numbered never passes (G2).            *)
LEMMA NarrativeTyped ==
  ASSUME NEW figs, NEW exs, Numbers(exs) \subseteq ExhibitNo,
         {figs.satisfied, figs.total, figs.pct} \subseteq Figure,
         NEW text \in Narratives(figs, exs)
  PROVE  text \in Narrative
<1>1. CASE text = Discarded(figs, exs)
  BY <1>1 DEF Discarded, Narrative
<1>2. CASE text # Discarded(figs, exs)
  <2>1. PICK t \in Text : VerdictOk(t, figs, exs) /\ text = Kept(t)
    BY <1>2 DEF Narratives
  <2>2. t.cites \subseteq Reference /\ t.figures \subseteq Written
    BY <2>1 DEF Text
  <2>3. Outside \in t.cites => Outside \in Numbers(exs)
    BY <2>1 DEF VerdictOk, CitationsGrounded, Outside
  <2>4. t.cites \subseteq ExhibitNo
    BY <2>2, <2>3 DEF Reference
  <2>5. t.figures \subseteq Figure
    BY <2>2 DEF Figure
  <2> QED BY <2>1, <2>4, <2>5 DEF Kept, Narrative
<1> QED BY <1>1, <1>2

LEMMA NoNarrativeTyped == NoNarrative \in Narrative
BY DEF NoNarrative, Narrative

(* The document index is a sequence of exhibits with a number of its own.  *)
LEMMA RowsTyped ==
  ASSUME AnnexInv, items # << >>
  PROVE  Renumbered \in Seq(Row)
<1> DEFINE seqs == [i \in DOMAIN items |-> items[i].exhibits]
           rows == FlattenSeq(seqs)
<1>1. PICK S : items \in Seq(S)
  BY DEF AnnexInv, IsSeq
<1>2. Len(items) \in Nat \ {0} /\ DOMAIN items = 1..Len(items)
  BY <1>1
<1>3. \A i \in DOMAIN items : items[i].exhibits \in Seq(Exhibit)
  BY DEF AnnexInv, ItemsAnnexed, Numbered
<1>4. seqs \in [1..Len(items) -> Seq(Exhibit)]
  BY <1>2, <1>3
<1>5. Renumbered = [k \in DOMAIN rows |-> [no |-> rows[k].no, doc |-> rows[k].doc, idx |-> k]]
  BY Zenon DEF Renumbered
<1> HIDE DEF seqs
<1>6. seqs \in Seq(Seq(Exhibit)) /\ seqs # << >>
  BY <1>2, <1>4
<1>7. Flat(Exhibit, seqs, Len(seqs), rows, {})
  BY <1>6, FlattenIsFlat DEF Once
<1> HIDE DEF rows
<1>8. rows \in Seq(Exhibit)
  BY <1>7, Zenon DEF Flat
<1>9. ASSUME NEW k \in DOMAIN rows
      PROVE  [no |-> rows[k].no, doc |-> rows[k].doc, idx |-> k] \in Row
  <2>1. rows[k] \in Exhibit /\ k \in Nat
    BY <1>8
  <2>2. rows[k].no \in ExhibitNo /\ rows[k].doc \in Doc
    BY <2>1 DEF Exhibit
  <2> QED BY <2>1, <2>2 DEF Row
<1>10. Renumbered \in [1..Len(rows) -> Row] /\ Len(rows) \in Nat
  BY <1>5, <1>8, <1>9
<1> QED BY <1>10

LEMMA TypedInit == Init => DraftTyped
<1> SUFFICES ASSUME Init PROVE DraftTyped
  OBVIOUS
<1>1. HandTyped
  BY NoNarrativeTyped DEF Init, HandTyped
<1>2. DoneTyped
  <2>1. items = << >> /\ phase = "item"
    BY DEF Init
  <2>2. << >> \in Seq(Item) /\ Len(<< >>) = 0
    OBVIOUS
  <2> QED BY <2>1, <2>2, DraftingAssumption DEF DoneTyped, DraftingAssumption
<1>3. PackTyped
  <2>1. pack.index = << >> /\ pack.cover = NoNarrative /\ pack.blockers = {}
    BY DEF Init, NoPack
  <2>2. << >> \in Seq(Row)
    OBVIOUS
  <2> QED BY <2>1, <2>2, NoNarrativeTyped DEF PackTyped
<1> QED BY <1>1, <1>2, <1>3 DEF DraftTyped

LEMMA TypedDraft == AnnexInv /\ DraftTyped /\ Draft => DraftTyped'
<1> SUFFICES ASSUME AnnexInv, DraftTyped, Draft PROVE DraftTyped'
  OBVIOUS
<1>1. /\ phase = "draft" /\ phase' = "normalise" /\ narrative' \in Narratives(figures, exhibits)
      /\ blockers' \subseteq {[kind |-> "UNGROUNDED_DRAFT", cites |-> Letter]}
      /\ UNCHANGED <<figures, extracted, items, pack>>
  BY DEF Draft
<1>2. Numbers(exhibits) \subseteq ExhibitNo
  BY NumberedWithin DEF AnnexInv, OnTable
<1>3. {figures.satisfied, figures.total, figures.pct} \subseteq Figure
  BY DEF DraftTyped, HandTyped, Figure
<1>4. narrative' \in Narrative
  BY <1>1, <1>2, <1>3, NarrativeTyped
<1>5. [kind |-> "UNGROUNDED_DRAFT", cites |-> Letter] \in Blocker
  BY DEF Blocker, BlockerKind
<1> QED BY <1>1, <1>4, <1>5 DEF DraftTyped, HandTyped, DoneTyped, PackTyped

(* What the checks against earlier answers raise cites an exhibit of the   *)
(* item or the letter, whatever exhibit the model named (_normalise).      *)
LEMMA RaisedTyped == AnnexInv => Inconsistencies \subseteq Blocker
<1> SUFFICES ASSUME AnnexInv PROVE Inconsistencies \subseteq Blocker
  OBVIOUS
<1>1. Numbers(exhibits) \subseteq ExhibitNo
  BY NumberedWithin DEF AnnexInv, OnTable
<1>2. \A f \in Facts : f.cites \in ExhibitNo \cup {Letter}
  BY <1>1 DEF Facts
<1> QED BY <1>2 DEF Inconsistencies, Blocker, BlockerKind

LEMMA TypedItem == AnnexInv /\ DraftTyped /\ CheckConsistency => DraftTyped'
<1> SUFFICES ASSUME AnnexInv, DraftTyped, CheckConsistency PROVE DraftTyped'
  OBVIOUS
<1> DEFINE it == [ref |-> ref, figures |-> figures, exhibits |-> exhibits,
                  narrative |-> narrative, blockers |-> blockers \cup Inconsistencies]
<1>1. /\ phase = "consistency" /\ phase' = "item" /\ items' = Append(items, it)
      /\ UNCHANGED <<figures, narrative, extracted, blockers, pack>>
  BY DEF CheckConsistency
<1>2. it \in Item
  <2>1. exhibits \in Seq(Exhibit) /\ ref \in ItemRef
    BY NumberedWithin DEF AnnexInv, OnTable
  <2>2. blockers \cup Inconsistencies \subseteq Blocker
    BY RaisedTyped DEF DraftTyped, HandTyped
  <2> QED BY <2>1, <2>2 DEF DraftTyped, HandTyped, Item
<1> HIDE DEF it
<1>3. items' \in Seq(Item) /\ Len(items') = Len(items) + 1 /\ Len(items) \in Nat
  BY <1>1, <1>2 DEF DraftTyped, DoneTyped
<1>4. Len(items') <= MaxItems
  BY <1>1, <1>3, DraftingAssumption DEF DraftTyped, DoneTyped, DraftingAssumption
<1> QED BY <1>1, <1>3, <1>4 DEF DraftTyped, HandTyped, DoneTyped, PackTyped

LEMMA TypedAssemble == AnnexInv /\ DraftTyped /\ Assemble => DraftTyped'
<1> SUFFICES ASSUME AnnexInv, DraftTyped, Assemble PROVE DraftTyped'
  OBVIOUS
<1>1. /\ items # << >> /\ phase' = "cover"
      /\ pack' = [index |-> Renumbered, cover |-> NoNarrative, blockers |-> ItemBlockers]
      /\ UNCHANGED <<figures, narrative, extracted, blockers, items>>
  BY DEF Assemble
<1>2. Renumbered \in Seq(Row)
  BY <1>1, RowsTyped
<1>3. ItemBlockers \subseteq Blocker
  <2>1. ASSUME NEW i \in DOMAIN items PROVE items[i].blockers \subseteq Blocker
    <3>1. items[i] \in Item
      BY DEF DraftTyped, DoneTyped
    <3> QED BY <3>1 DEF Item
  <2> QED BY <2>1 DEF ItemBlockers
<1>4. PackTyped'
  BY <1>1, <1>2, <1>3, NoNarrativeTyped DEF PackTyped
<1> QED BY <1>1, <1>4 DEF DraftTyped, HandTyped, DoneTyped

LEMMA TypedCover == AnnexInv /\ DraftTyped /\ CoverNote => DraftTyped'
<1> SUFFICES ASSUME AnnexInv, DraftTyped, CoverNote PROVE DraftTyped'
  OBVIOUS
<1>1. PICK f \in Figures :
        \E note \in IF pack.index = << >> THEN {NoNarrative}
                    ELSE Narratives(CoverFigures(f), pack.index) :
          pack' = [pack EXCEPT !.cover = note]
  BY DEF CoverNote
<1>2. PICK note \in IF pack.index = << >> THEN {NoNarrative}
                    ELSE Narratives(CoverFigures(f), pack.index) :
        pack' = [pack EXCEPT !.cover = note]
  BY <1>1
<1>3. /\ phase = "cover" /\ phase' = "held"
      /\ UNCHANGED <<figures, narrative, extracted, blockers, items>>
  BY DEF CoverNote
<1>4. pack = [index |-> Renumbered, cover |-> NoNarrative, blockers |-> ItemBlockers]
      /\ items # << >>
  BY <1>3 DEF AnnexInv, PackAnnexed
<1>5. Numbers(pack.index) \subseteq ExhibitNo
  <2>1. ASSUME NEW k \in DOMAIN pack.index PROVE pack.index[k].no \in ExhibitNo
    <3>1. pack.index[k] \in Row
      BY DEF DraftTyped, PackTyped
    <3> QED BY <3>1 DEF Row
  <2> QED BY <2>1 DEF Numbers
<1>6. {CoverFigures(f).satisfied, CoverFigures(f).total, CoverFigures(f).pct} \subseteq Figure
  <2>1. Len(items) \in 1..MaxItems
    BY <1>4, DraftingAssumption DEF DraftTyped, DoneTyped, DraftingAssumption
  <2>2. f \in [pct : 0..100, satisfied : Nat, total : Nat, remaining : Int]
    BY DraftingAssumption DEF DraftingAssumption
  <2>3. /\ CoverFigures(f).satisfied = Len(items) /\ CoverFigures(f).total = Len(items)
        /\ CoverFigures(f).pct = f.pct
    BY <2>2 DEF CoverFigures
  <2> QED BY <2>1, <2>3 DEF Figure
<1>7. note \in Narrative
  BY <1>2, <1>5, <1>6, NarrativeTyped, NoNarrativeTyped
<1>8. pack'.index = pack.index /\ pack'.cover = note /\ pack'.blockers = pack.blockers
  BY <1>2, <1>4
<1>9. PackTyped'
  BY <1>7, <1>8 DEF DraftTyped, PackTyped
<1> QED BY <1>3, <1>9 DEF DraftTyped, HandTyped, DoneTyped

LEMMA TypedStep == AnnexInv /\ DraftTyped /\ [Next]_vars => DraftTyped'
<1> SUFFICES ASSUME AnnexInv, DraftTyped, [Next]_vars PROVE DraftTyped'
  OBVIOUS
<1> USE DEF DraftTyped, HandTyped, DoneTyped, PackTyped
<1>1. CASE Held \/ UNCHANGED vars
  BY <1>1 DEF Held, vars
<1>2. CASE Number
  <2>1. Len(items) < MaxItems /\ UNCHANGED <<items, pack>>
    BY <1>2 DEF Number
  <2>2. /\ phase' = "draft" /\ figures' \in Figures /\ narrative' = NoNarrative
        /\ extracted' = {} /\ blockers' = {}
    BY <1>2 DEF Number
  <2> QED BY <2>1, <2>2, NoNarrativeTyped
<1>3. CASE DraftNothing
  <2>1. [kind |-> "NO_ADMISSIBLE_EVIDENCE", cites |-> Letter] \in Blocker
    BY DEF Blocker, BlockerKind
  <2> QED BY <1>3, <2>1 DEF DraftNothing
<1>4. CASE Normalise
  BY <1>4 DEF Normalise
<1> QED
  BY <1>1, <1>2, <1>3, <1>4, TypedDraft, TypedItem, TypedAssemble, TypedCover DEF Next

(* Every narrative that is kept refers to exhibits that were numbered and  *)
(* states no figure but the engine's and the writer's, and every row of    *)
(* the index is an exhibit of a known document, for any number of items    *)
(* (number_exhibits, narrative_verdict, renumber_document_index).          *)
THEOREM TypeCorrect == Spec => []TypeOK
<1>1. AnnexInv /\ DraftTyped => TypeOK
  BY NumberedWithin
  DEF AnnexInv, OnTable, DraftTyped, HandTyped, DoneTyped, PackTyped, TypeOK, Row
<1> QED BY <1>1, TypedInit, TypedStep, AnnexInit, AnnexStep, PTL DEF Spec

=============================================================================
