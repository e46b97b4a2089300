-------------------------- MODULE Retrieval_proofs --------------------------
(***************************************************************************)
(* Part one: what the ladder of EvidenceLadder produces, how it accounts   *)
(* for it and how its items roll up into the pack, for every set of        *)
(* documents, every caller and any number of candidates (it uses           *)
(* LadderAssumption alone).  Part two: that Retrieval feeds that ladder,   *)
(* and that what is reported as missing or denied is so, for every store,  *)
(* register, set of packs and request.                                     *)
(***************************************************************************)
EXTENDS Retrieval, FiniteSetTheorems, SequenceTheorems, TLAPS

\* Where the ladder stands.
Walk ==
  /\ candidates \in Seq(Doc)
  /\ at \in 1..(Len(candidates) + 1)

\* Each link is the verdict on a responsive candidate already looked at; the
\* verdict is over all the copies that arrived, so it never goes out of date.
Decided ==
  \A l \in links : /\ l.doc \in Arrived
                   /\ Responsive(l.doc)
                   /\ l.status = VerdictOn(l.doc)

\* One link for a document, and every document looked at linked or counted.
Accounted ==
  /\ \A l \in links : l.doc.id \in Seen
  /\ \A k, l \in links : k.doc.id = l.doc.id => k = l
  /\ IsFiniteSet(links) /\ IsFiniteSet(Seen)
  /\ dropped \in Nat
  /\ Cardinality(links) + dropped = Cardinality(Seen)

LadderInv == Walk /\ Decided /\ Accounted

\* What the arrived copies are, which no step of the ladder changes.
Fixed ==
  /\ candidates' = candidates /\ required' = required /\ waiverOk' = waiverOk

-----------------------------------------------------------------------------
(* The ladder's verdict on a document reads only what stays fixed while    *)
(* the candidates are walked (_status_for and the boundary check).         *)
LEMMA VerdictFixed ==
  ASSUME Fixed
  PROVE  /\ Arrived' = Arrived
         /\ \A d : Responsive(d)' = Responsive(d)
         /\ \A d : VerdictOn(d)' = VerdictOn(d)
BY DEF Fixed, Arrived, Responsive, VerdictOn, LeakedIds, Leaked, StatusOf,
       HeldForPrivilege, HeldOutright, Silent, InPeriod, NearPeriod

(* Looking at one more candidate adds its document to those seen (the seen *)
(* set of assess_evidence).                                                *)
LEMMA SeenGrows ==
  ASSUME Walk, Looking, Fixed, at' = at + 1
  PROVE  /\ Walk'
         /\ Candidate \in Arrived
         /\ Seen' = Seen \cup {Candidate.id}
<1>1. at \in 1..Len(candidates) /\ Len(candidates) \in Nat
  BY DEF Walk, Looking
<1>2. DOMAIN candidates = 1..Len(candidates)
  BY DEF Walk
<1>3. 1..(at' - 1) = (1..(at - 1)) \cup {at}
  BY <1>1
<1>4. Walk'
  BY <1>1 DEF Walk, Fixed
<1>5. Candidate \in Arrived
  BY <1>1, <1>2 DEF Candidate, Arrived
<1>6. Seen' = Seen \cup {Candidate.id}
  BY <1>3 DEF Seen, Candidate, Fixed
<1> QED BY <1>4, <1>5, <1>6

(* The request starts with nothing retrieved and nothing linked.           *)
LEMMA LadderInit == Init => LadderInv
<1> SUFFICES ASSUME Init PROVE LadderInv
  OBVIOUS
<1>1. Walk
  BY DEF Init, Walk
<1>2. Seen = {}
  BY DEF Init, Seen
<1>3. Accounted
  BY <1>2, FS_EmptySet DEF Init, Accounted
<1>4. Decided
  BY DEF Init, Decided
<1> QED BY <1>1, <1>3, <1>4 DEF LadderInv

(* Retrieve starts the next item's ladder with no link (assess_evidence is *)
(* called afresh for each item).                                           *)
LEMMA LadderRetrieve == LadderInv /\ Retrieve => LadderInv'
<1> SUFFICES ASSUME LadderInv, Retrieve PROVE LadderInv'
  OBVIOUS
<1>1. PICK n \in 0..MaxCandidates : candidates' \in [1..n -> Doc]
  BY DEF Retrieve
<1>2. n \in Nat
  BY <1>1, LadderAssumption DEF LadderAssumption
<1>3. candidates' \in Seq(Doc) /\ Len(candidates') = n
  BY <1>1, <1>2
<1>4. at' = 1 /\ links' = {} /\ dropped' = 0
  BY DEF Retrieve
<1>5. Walk'
  BY <1>2, <1>3, <1>4 DEF Walk
<1>6. Seen' = {}
  BY <1>4 DEF Seen
<1>7. Accounted'
  BY <1>4, <1>6, FS_EmptySet DEF Accounted
<1>8. Decided'
  BY <1>4 DEF Decided
<1> QED BY <1>5, <1>7, <1>8 DEF LadderInv

(* A further copy of a document changes no link and no count.              *)
LEMMA LadderSkip == LadderInv /\ Skip => LadderInv'
<1> SUFFICES ASSUME LadderInv, Skip PROVE LadderInv'
  OBVIOUS
<1>1. Fixed /\ Looking /\ at' = at + 1 /\ links' = links /\ dropped' = dropped
  BY DEF Skip, Fixed
<1>2. Walk' /\ Seen' = Seen
  BY <1>1, SeenGrows DEF LadderInv, Skip
<1>3. Decided'
  BY <1>1, VerdictFixed DEF LadderInv, Decided
<1>4. Accounted'
  BY <1>1, <1>2 DEF LadderInv, Accounted
<1> QED BY <1>2, <1>3, <1>4 DEF LadderInv

(* A document that does not respond is counted, once, and not linked.      *)
LEMMA LadderDrop == LadderInv /\ Drop => LadderInv'
<1> SUFFICES ASSUME LadderInv, Drop PROVE LadderInv'
  OBVIOUS
<1>1. /\ Fixed /\ Looking /\ at' = at + 1
      /\ links' = links /\ dropped' = dropped + 1
      /\ Candidate.id \notin Seen
  BY DEF Drop, Fixed
<1>2. Walk' /\ Seen' = Seen \cup {Candidate.id}
  BY <1>1, SeenGrows DEF LadderInv
<1>3. Decided'
  BY <1>1, VerdictFixed DEF LadderInv, Decided
<1>4. IsFiniteSet(Seen') /\ Cardinality(Seen') = Cardinality(Seen) + 1
  BY <1>1, <1>2, FS_AddElement DEF LadderInv, Accounted
<1>5. Cardinality(links) \in Nat /\ Cardinality(Seen) \in Nat
  BY FS_CardinalityType DEF LadderInv, Accounted
<1>6. Accounted'
  BY <1>1, <1>2, <1>4, <1>5 DEF LadderInv, Accounted
<1> QED BY <1>2, <1>3, <1>6 DEF LadderInv

(* A responsive document gets one link, with the ladder's verdict.         *)
LEMMA LadderPlace == LadderInv /\ Place => LadderInv'
<1> SUFFICES ASSUME LadderInv, Place PROVE LadderInv'
  OBVIOUS
<1> DEFINE new == [doc |-> Candidate, status |-> VerdictOn(Candidate)]
<1>1. /\ Fixed /\ Looking /\ at' = at + 1
      /\ links' = links \cup {new} /\ dropped' = dropped
      /\ Candidate.id \notin Seen /\ Responsive(Candidate)
  BY DEF Place, Fixed
<1>2. Walk' /\ Candidate \in Arrived /\ Seen' = Seen \cup {Candidate.id}
  BY <1>1, SeenGrows DEF LadderInv
<1>3. Decided'
  BY <1>1, <1>2, VerdictFixed DEF LadderInv, Decided
<1>4. IsFiniteSet(Seen') /\ Cardinality(Seen') = Cardinality(Seen) + 1
  BY <1>1, <1>2, FS_AddElement DEF LadderInv, Accounted
<1>5. new \notin links
  BY <1>1 DEF LadderInv, Accounted
<1>6. IsFiniteSet(links') /\ Cardinality(links') = Cardinality(links) + 1
  BY <1>1, <1>5, FS_AddElement DEF LadderInv, Accounted
<1>7. Cardinality(links) \in Nat /\ Cardinality(Seen) \in Nat
  BY FS_CardinalityType DEF LadderInv, Accounted
<1>8. \A l \in links' : l.doc.id \in Seen'
  BY <1>1, <1>2 DEF LadderInv, Accounted
<1>9. \A k, l \in links' : k.doc.id = l.doc.id => k = l
  BY <1>1 DEF LadderInv, Accounted
<1>10. dropped' \in Nat /\ Cardinality(links') + dropped' = Cardinality(Seen')
  BY <1>1, <1>4, <1>6, <1>7 DEF LadderInv, Accounted
<1>11. Accounted'
  BY <1>4, <1>6, <1>8, <1>9, <1>10 DEF Accounted
<1> QED BY <1>2, <1>3, <1>11 DEF LadderInv

(* Every other step of the request leaves the ladder as it is: the verdict *)
(* on the item and the roll-up read the links and change none.             *)
LEMMA LadderKept ==
  ASSUME LadderInv, Fixed, UNCHANGED <<at, links, dropped>>
  PROVE  LadderInv'
<1>1. Walk'
  BY DEF LadderInv, Walk, Fixed
<1>2. Seen' = Seen
  BY DEF Seen, Fixed
<1>3. Decided'
  BY VerdictFixed DEF LadderInv, Decided
<1>4. Accounted'
  BY <1>2 DEF LadderInv, Accounted
<1> QED BY <1>1, <1>3, <1>4 DEF LadderInv

(* The ladder's invariant is inductive.                                    *)
LEMMA LadderStep == LadderInv /\ [Next]_vars => LadderInv'
<1> SUFFICES ASSUME LadderInv, [Next]_vars PROVE LadderInv'
  OBVIOUS
<1>1. CASE Retrieve
  BY <1>1, LadderRetrieve
<1>2. CASE Skip
  BY <1>2, LadderSkip
<1>3. CASE Drop
  BY <1>3, LadderDrop
<1>4. CASE Place
  BY <1>4, LadderPlace
<1>5. CASE LadderDone
  <2>1. Fixed /\ UNCHANGED <<at, links, dropped>>
    BY <1>5 DEF LadderDone, Fixed
  <2> QED BY <2>1, LadderKept
<1>6. CASE AssessItem
  <2>1. Fixed /\ UNCHANGED <<at, links, dropped>>
    BY <1>6 DEF AssessItem, Fixed
  <2> QED BY <2>1, LadderKept
<1>7. CASE AssemblePack
  <2>1. Fixed /\ UNCHANGED <<at, links, dropped>>
    BY <1>7 DEF AssemblePack, Fixed
  <2> QED BY <2>1, LadderKept
<1>8. CASE Held \/ UNCHANGED vars
  <2>1. Fixed /\ UNCHANGED <<at, links, dropped>>
    BY <1>8 DEF Held, vars, Fixed
  <2> QED BY <2>1, LadderKept
<1> QED BY <1>1, <1>2, <1>3, <1>4, <1>5, <1>6, <1>7, <1>8 DEF Next

-----------------------------------------------------------------------------
(* An accepted verdict says that no copy leaked and that no rule of the    *)
(* ladder holds the document back (_status_for, rules A4, A5, A6, A3).     *)
LEMMA AcceptedIsClean ==
  ASSUME NEW d \in Doc, VerdictOn(d) = "ACCEPTED"
  PROVE  /\ d.id \notin LeakedIds
         /\ ~HeldForPrivilege(d) /\ ~HeldOutright(d)
         /\ d.from \in Permitted
         /\ PeriodStart <= d.asOf /\ d.asOf <= PeriodEnd
<1>1. d.id \notin LeakedIds /\ StatusOf(d) = "ACCEPTED"
  BY DEF VerdictOn
<1>2. ~HeldForPrivilege(d) /\ ~HeldOutright(d) /\ d.from \in Permitted
  BY <1>1 DEF StatusOf
<1>3. InPeriod(d)
  BY <1>1, <1>2 DEF StatusOf
<1>4. d.asOf \in Int /\ PeriodStart \in Int /\ PeriodEnd \in Int
  BY LadderAssumption DEF LadderAssumption
<1>5. PeriodStart <= d.asOf /\ d.asOf <= PeriodEnd
  BY <1>3, <1>4 DEF InPeriod
<1> QED BY <1>1, <1>2, <1>5

(* The ladder's invariant rules out the production of anything held back.  *)
LEMMA LadderSafe == LadderInv => NothingHeldIsProduced
<1> SUFFICES ASSUME LadderInv, NEW d \in Exhibits(links)
             PROVE  /\ d.artefact \in required /\ d.onTopic
                    /\ \A c \in Arrived : c.id = d.id => c.acl \subseteq Entitlements
                    /\ d.tags \cap SilentTags = {}
                    /\ d.tags \cap HardTags \subseteq
                         IF waiverOk \/ ~RequiresWaiver
                           THEN {"LEGALLY_PRIVILEGED"} ELSE {}
                    /\ d.from \in Permitted
                    /\ PeriodStart <= d.asOf /\ d.asOf <= PeriodEnd
  BY DEF NothingHeldIsProduced
<1>1. PICK l \in links : l.status = "ACCEPTED" /\ d = l.doc
  BY DEF Exhibits
<1>2. d \in Arrived /\ Responsive(d) /\ VerdictOn(d) = "ACCEPTED"
  BY <1>1 DEF LadderInv, Decided
<1>3. d \in Doc
  BY <1>2 DEF LadderInv, Walk, Arrived
<1>4. /\ d.id \notin LeakedIds
      /\ ~HeldForPrivilege(d) /\ ~HeldOutright(d)
      /\ d.from \in Permitted
      /\ PeriodStart <= d.asOf /\ d.asOf <= PeriodEnd
  BY <1>2, <1>3, AcceptedIsClean
<1>5. \A c \in Arrived : c.id = d.id => c.acl \subseteq Entitlements
  BY <1>4 DEF LeakedIds, Leaked
<1>6. d.tags \cap SilentTags = {}
  BY <1>4 DEF HeldOutright, Silent
<1>7. d.tags \cap HardTags \subseteq {"LEGALLY_PRIVILEGED"}
  BY <1>4 DEF HeldOutright
<1>8. "LEGALLY_PRIVILEGED" \in d.tags \cap HardTags => waiverOk \/ ~RequiresWaiver
  BY <1>4 DEF HeldForPrivilege
<1> QED BY <1>2, <1>4, <1>5, <1>6, <1>7, <1>8 DEF Responsive

(* The ladder's invariant holds of every request.                          *)
THEOREM LadderAlways == Spec => []LadderInv
BY LadderInit, LadderStep, PTL DEF Spec

(* No document the caller may not read, did not ask for or the firm holds  *)
(* back is ever produced, whatever arrives from the two ports.             *)
THEOREM NothingHeld == Spec => []NothingHeldIsProduced
BY LadderAlways, LadderSafe, PTL

(* Every document looked at is on exactly one link or in the count of what *)
(* was out of scope.                                                       *)
THEOREM OneVerdictEach == Spec => []EachDocumentOnce
<1>1. LadderInv => EachDocumentOnce
  BY DEF LadderInv, Accounted, EachDocumentOnce
<1> QED BY <1>1, LadderAlways, PTL

-----------------------------------------------------------------------------
(* What the cap leaves of the accepted links                               *)

\* Those of S that p puts before l, and what is left of S when it is cut
\* after the first n.
Ahead(S, p, l) == {k \in S : p[k] < p[l]}
FirstOf(S, p, n) == {l \in S : Cardinality(Ahead(S, p, l)) < n}

(* A list without ties has a rank for each of its members, and each rank   *)
(* up to its length is somebody's.                                         *)
LEMMA RanksAreTaken ==
  ASSUME NEW S, IsFiniteSet(S), NEW p \in [S -> Nat],
         \A k, l \in S : p[k] = p[l] => k = l
  PROVE  /\ Cardinality(S) \in Nat
         /\ \A l \in S : /\ Cardinality(Ahead(S, p, l)) \in Nat
                         /\ Cardinality(Ahead(S, p, l)) < Cardinality(S)
         /\ \A k, l \in S : p[k] < p[l] =>
              Cardinality(Ahead(S, p, k)) < Cardinality(Ahead(S, p, l))
         /\ \A r \in 0..(Cardinality(S) - 1) :
              \E l \in S : Cardinality(Ahead(S, p, l)) = r
<1> DEFINE n == Cardinality(S)
           rank(l) == Cardinality(Ahead(S, p, l))
<1>1. n \in Nat
  BY FS_CardinalityType
<1>2. \A l \in S : p[l] \in Nat
  OBVIOUS
<1>3. ASSUME NEW l \in S
      PROVE  /\ Ahead(S, p, l) \in SUBSET S /\ l \notin Ahead(S, p, l)
             /\ IsFiniteSet(Ahead(S, p, l)) /\ rank(l) \in Nat /\ rank(l) < n
  <2>1. Ahead(S, p, l) \in SUBSET S /\ l \notin Ahead(S, p, l)
    BY <1>2 DEF Ahead
  <2>2. IsFiniteSet(Ahead(S, p, l)) /\ rank(l) <= n /\ rank(l) # n
    BY <2>1, FS_Subset
  <2>3. rank(l) \in Nat
    BY <2>2, FS_CardinalityType
  <2> QED BY <1>1, <2>1, <2>2, <2>3
<1>4. ASSUME NEW k \in S, NEW l \in S, p[k] < p[l] PROVE rank(k) < rank(l)
  <2>1. Ahead(S, p, k) \in SUBSET Ahead(S, p, l) /\ k \in Ahead(S, p, l)
    BY <1>2, <1>4 DEF Ahead
  <2>2. rank(k) <= rank(l) /\ rank(k) # rank(l)
    BY <1>3, <2>1, FS_Subset
  <2>3. rank(k) \in Nat /\ rank(l) \in Nat
    BY <1>3
  <2> HIDE DEF rank
  <2> QED BY <2>2, <2>3
<1>5. \A r \in 0..(n - 1) : \E l \in S : rank(l) = r
  <2> DEFINE R == 0..(n - 1)
             g == [l \in S |-> rank(l)]
  <2>1. IsFiniteSet(R) /\ Cardinality(R) = n
    BY <1>1, FS_Interval
  <2> HIDE DEF rank, n
  <2>2. \A l \in S : rank(l) \in R
    BY <1>1, <1>3
  <2>3. \A k, l \in S : k # l => rank(k) # rank(l)
    <3> SUFFICES ASSUME NEW k \in S, NEW l \in S, k # l PROVE rank(k) # rank(l)
      OBVIOUS
    <3>1. p[k] < p[l] \/ p[l] < p[k]
      BY <1>2
    <3>2. rank(k) < rank(l) \/ rank(l) < rank(k)
      BY <1>4, <3>1
    <3> QED BY <1>3, <3>2
  <2> HIDE DEF R
  <2>4. g \in Injection(S, R)
    BY <2>2, <2>3 DEF Injection, IsInjective
  <2>5. g \in Surjection(S, R)
    BY <2>1, <2>4, FS_Injection DEF n
  <2>6. \A r \in R : \E l \in S : g[l] = r
    BY <2>5 DEF Surjection
  <2> QED BY <2>6 DEF R
<1> QED BY <1>1, <1>3, <1>4, <1>5

(* The first n of a finite list without ties are n, or all of them, and    *)
(* every one of them is before every one that is cut.                      *)
LEMMA CutAfterFirst ==
  ASSUME NEW S, IsFiniteSet(S), NEW p \in [S -> Nat],
         \A k, l \in S : p[k] = p[l] => k = l,
         NEW n \in Nat
  PROVE  /\ Cardinality(FirstOf(S, p, n)) =
              IF Cardinality(S) < n THEN Cardinality(S) ELSE n
         /\ IsFiniteSet(FirstOf(S, p, n))
         /\ \A k \in FirstOf(S, p, n), l \in S \ FirstOf(S, p, n) : p[k] < p[l]
<1> DEFINE rank(l) == Cardinality(Ahead(S, p, l))
           F == FirstOf(S, p, n)
           m == IF Cardinality(S) < n THEN Cardinality(S) ELSE n
           R == 0..(m - 1)
           g == [l \in F |-> rank(l)]
<1>1. /\ Cardinality(S) \in Nat /\ m \in Nat
      /\ \A l \in S : rank(l) \in Nat /\ rank(l) < Cardinality(S)
      /\ \A k, l \in S : p[k] < p[l] => rank(k) < rank(l)
      /\ \A r \in 0..(Cardinality(S) - 1) : \E l \in S : rank(l) = r
  BY RanksAreTaken
<1>2. F \in SUBSET S /\ IsFiniteSet(F) /\ \A l \in S : l \in F <=> rank(l) < n
  BY FS_Subset DEF FirstOf
<1>3. IsFiniteSet(R) /\ Cardinality(R) = m
  <2>1. m \in Nat
    BY <1>1
  <2> HIDE DEF m
  <2>2. /\ IsFiniteSet(0..(m - 1))
        /\ Cardinality(0..(m - 1)) = IF 0 > m - 1 THEN 0 ELSE (m - 1) - 0 + 1
    BY <2>1, FS_Interval
  <2> QED BY <2>1, <2>2
<1> HIDE DEF rank, F
<1>4. g \in Bijection(F, R)
  <2>1. \A l \in F : rank(l) \in R
    BY <1>1, <1>2
  <2>2. ASSUME NEW k \in F, NEW l \in F, k # l PROVE rank(k) # rank(l)
    <3>1. k \in S /\ l \in S /\ p[k] \in Nat /\ p[l] \in Nat /\ p[k] # p[l]
      BY <1>2, <2>2
    <3>2. rank(k) < rank(l) \/ rank(l) < rank(k)
      BY <1>1, <3>1
    <3> QED BY <1>1, <3>1, <3>2
  <2>3. ASSUME NEW r \in R PROVE \E l \in F : rank(l) = r
    <3>1. r \in 0..(Cardinality(S) - 1) /\ r < n
      BY <1>1
    <3>2. PICK l \in S : rank(l) = r
      BY <1>1, <3>1
    <3> QED BY <1>2, <3>1, <3>2
  <2> HIDE DEF R
  <2>4. g \in Injection(F, R)
    BY <2>1, <2>2 DEF Injection, IsInjective
  <2>5. g \in Surjection(F, R)
    BY <2>1, <2>3 DEF Surjection
  <2> QED BY <2>4, <2>5 DEF Bijection
<1>5. Cardinality(F) = m
  BY <1>2, <1>3, <1>4, FS_Bijection DEF ExistsBijection
<1>6. ASSUME NEW k \in F, NEW l \in S \ F PROVE p[k] < p[l]
  <2>1. k \in S /\ l \in S /\ rank(k) < n /\ ~(rank(l) < n)
    BY <1>2
  <2>2. ~(p[l] < p[k])
    BY <1>1, <2>1
  <2>3. p[k] \in Nat /\ p[l] \in Nat /\ p[k] # p[l]
    BY <1>2, <2>1
  <2> QED BY <2>2, <2>3
<1> QED BY <1>2, <1>5, <1>6 DEF F

(* A set of numbers that is not empty has a least one.                     *)
LEMMA LeastOf ==
  ASSUME NEW S \in SUBSET Nat, S # {}
  PROVE  \E n \in S : \A m \in S : n <= m
<1>1. IsWellFoundedOn(OpToRel(<, Nat), Nat)
  BY NatLessThanWellFounded
<1>2. PICK n \in S : \A m \in S : ~(<<m, n>> \in OpToRel(<, Nat))
  BY <1>1, WFMin
<1>3. \A m \in S : ~(m < n)
  BY <1>2 DEF OpToRel
<1> QED BY <1>3

\* Where the first copy of a document stands among the candidates.
FirstAt(d) ==
  CHOOSE i \in DOMAIN candidates :
    /\ candidates[i].id = d.id
    /\ \A j \in DOMAIN candidates : candidates[j].id = d.id => i <= j

LEMMA FirstStands ==
  ASSUME Walk, NEW d \in Arrived
  PROVE  /\ FirstAt(d) \in DOMAIN candidates /\ FirstAt(d) \in Nat
         /\ candidates[FirstAt(d)].id = d.id
         /\ \A j \in DOMAIN candidates : candidates[j].id = d.id => FirstAt(d) <= j
<1> DEFINE S == {i \in DOMAIN candidates : candidates[i].id = d.id}
<1>1. DOMAIN candidates = 1..Len(candidates) /\ Len(candidates) \in Nat
  BY DEF Walk
<1>2. S \in SUBSET Nat /\ S # {}
  BY <1>1 DEF Arrived
<1>3. \E i \in S : \A j \in S : i <= j
  BY <1>2, LeastOf
<1>4. \E i \in DOMAIN candidates :
        /\ candidates[i].id = d.id
        /\ \A j \in DOMAIN candidates : candidates[j].id = d.id => i <= j
  BY <1>3
<1>5. /\ FirstAt(d) \in DOMAIN candidates
      /\ candidates[FirstAt(d)].id = d.id
      /\ \A j \in DOMAIN candidates : candidates[j].id = d.id => FirstAt(d) <= j
  BY <1>4, Zenon DEF FirstAt
<1> QED BY <1>1, <1>5

(* One document comes before another when its first copy does (the order   *)
(* of the ports, which rule A7 keeps).                                     *)
LEMMA BeforeIsFirst ==
  ASSUME Walk, NEW d \in Arrived, NEW e \in Arrived
  PROVE  Before(d, e) <=> FirstAt(d) < FirstAt(e)
<1>1. DOMAIN candidates = 1..Len(candidates) /\ Len(candidates) \in Nat
  BY DEF Walk
<1> DEFINE f == FirstAt(d)
           g == FirstAt(e)
<1>2. /\ f \in DOMAIN candidates /\ candidates[f].id = d.id
      /\ \A j \in DOMAIN candidates : candidates[j].id = d.id => f <= j
      /\ g \in DOMAIN candidates /\ candidates[g].id = e.id
      /\ \A j \in DOMAIN candidates : candidates[j].id = e.id => g <= j
  BY FirstStands
<1> HIDE DEF f, g
<1>3. ASSUME f < g PROVE Before(d, e)
  <2>1. \A j \in 1..f : j \in DOMAIN candidates /\ ~(g <= j)
    BY <1>1, <1>2, <1>3
  <2>2. \A j \in 1..f : candidates[j].id # e.id
    BY <1>2, <2>1
  <2> QED BY <1>2, <2>2 DEF Before
<1>4. ASSUME Before(d, e) PROVE f < g
  <2>1. PICK i \in DOMAIN candidates :
          /\ candidates[i].id = d.id
          /\ \A j \in 1..i : candidates[j].id # e.id
    BY <1>4 DEF Before
  <2>2. f <= i /\ g \notin 1..i
    BY <1>2, <2>1
  <2> QED BY <1>1, <1>2, <2>1, <2>2
<1> QED BY <1>3, <1>4 DEF f, g

\* The documents an item produces for a requirement.
ProducedFor(ls, a) == {d \in Exhibits(ls) : d.artefact = a}

LEMMA AcceptedProduced ==
  ASSUME NEW a
  PROVE  \A d : d \in ProducedFor(links, a) <=> \E l \in Accepted(a) : l.doc = d
BY DEF ProducedFor, Exhibits, Accepted

(* Links and documents are one to one: the documents of a set of links are *)
(* as many as the links.                                                   *)
LEMMA DocsOfLinks ==
  ASSUME LadderInv, NEW S \in SUBSET links
  PROVE  /\ IsFiniteSet({l.doc : l \in S})
         /\ Cardinality({l.doc : l \in S}) = Cardinality(S)
<1> DEFINE D == {l.doc : l \in S}
           g == [l \in S |-> l.doc]
<1>1. IsFiniteSet(S)
  BY FS_Subset DEF LadderInv, Accounted
<1>2. \A k, l \in S : k.doc = l.doc => k = l
  BY DEF LadderInv, Accounted
<1>3. \A l \in S : l.doc \in D
  OBVIOUS
<1>4. \A d \in D : \E l \in S : l.doc = d
  OBVIOUS
<1> HIDE DEF D
<1>5. g \in Injection(S, D) /\ g \in Surjection(S, D)
  BY <1>2, <1>3, <1>4 DEF Injection, IsInjective, Surjection
<1>6. g \in Bijection(S, D)
  BY <1>5 DEF Bijection
<1>7. IsFiniteSet(D) /\ Cardinality(D) = Cardinality(S)
  BY <1>1, <1>6, FS_Bijection DEF ExistsBijection
<1> QED BY <1>7 DEF D

(* The row of a requirement: exhibits of its class, all of them or as many *)
(* as the cap, none that arrived after one left out, and not empty if      *)
(* there is an exhibit and the cap leaves room (rule A7, _coverage).       *)
LEMMA RowOfRequirement ==
  ASSUME LadderInv, NEW a
  PROVE  LET row == {l.doc : l \in Listed(a)}
             number == Cardinality(ProducedFor(links, a))
         IN /\ row \subseteq ProducedFor(links, a)
            /\ Cardinality(row) = IF number < Cap THEN number ELSE Cap
            /\ \A d \in row, e \in ProducedFor(links, a) \ row : Before(d, e)
            /\ Cap > 0 /\ ProducedFor(links, a) # {} => Listed(a) # {}
<1> DEFINE S == Accepted(a)
           p == [l \in S |-> FirstAt(l.doc)]
           row == {l.doc : l \in Listed(a)}
           P == ProducedFor(links, a)
<1>0. Cap \in Nat
  BY LadderAssumption
<1>1. S \in SUBSET links /\ IsFiniteSet(S)
  BY FS_Subset DEF Accepted, LadderInv, Accounted
<1>2. \A l \in S : l.doc \in Arrived
  BY <1>1 DEF LadderInv, Decided
<1>3. Walk
  BY DEF LadderInv
<1> HIDE DEF S
<1>4. \A l \in S : p[l] = FirstAt(l.doc)
  OBVIOUS
<1>5. p \in [S -> Nat]
  BY <1>2, <1>3, FirstStands
<1> HIDE DEF p
<1>6. ASSUME NEW k \in S, NEW l \in S, p[k] = p[l] PROVE k = l
  <2>1. candidates[p[k]].id = k.doc.id /\ candidates[p[l]].id = l.doc.id
    BY <1>2, <1>3, <1>4, FirstStands
  <2>2. k.doc.id = l.doc.id
    BY <1>6, <2>1
  <2> QED BY <1>1, <2>2 DEF LadderInv, Accounted
<1>7. \A k, l \in S : Before(k.doc, l.doc) <=> p[k] < p[l]
  BY <1>2, <1>3, <1>4, BeforeIsFirst
<1>8. Listed(a) = FirstOf(S, p, Cap)
  <2>1. \A l \in S : {k \in S : Before(k.doc, l.doc)} = Ahead(S, p, l)
    BY <1>7 DEF Ahead
  <2>2. Listed(a) = {l \in S : Cardinality({k \in S : Before(k.doc, l.doc)}) < Cap}
    BY Zenon DEF Listed, S
  <2> QED BY <2>1, <2>2 DEF FirstOf
<1>9. /\ Cardinality(Listed(a)) = IF Cardinality(S) < Cap THEN Cardinality(S) ELSE Cap
      /\ \A k \in Listed(a), l \in S \ Listed(a) : p[k] < p[l]
  BY <1>0, <1>1, <1>5, <1>6, <1>8, CutAfterFirst
<1>10. Listed(a) \in SUBSET S
  BY <1>8 DEF FirstOf
<1>11. P = {l.doc : l \in S}
  BY AcceptedProduced DEF S
<1>12. Cardinality(P) = Cardinality(S) /\ Cardinality(row) = Cardinality(Listed(a))
  BY <1>1, <1>10, <1>11, DocsOfLinks
<1>13. row \subseteq P
  BY <1>10, <1>11
<1>14. ASSUME NEW d \in row, NEW e \in P \ row PROVE Before(d, e)
  <2>1. PICK k \in Listed(a) : k.doc = d
    OBVIOUS
  <2>2. PICK l \in S : l.doc = e
    BY <1>11
  <2>3. l \notin Listed(a)
    BY <1>14, <2>2
  <2> QED BY <1>7, <1>9, <1>10, <2>1, <2>2, <2>3
<1>15. ASSUME Cap > 0, P # {} PROVE Listed(a) # {}
  <2>1. S # {}
    BY <1>11, <1>15
  <2>2. Cardinality(S) \in Nat /\ Cardinality(S) # 0
    BY <1>1, <2>1, FS_CardinalityType, FS_EmptySet
  <2>3. Cardinality(Listed(a)) # 0
    BY <1>0, <1>9, <1>15, <2>2
  <2> QED BY <2>3, FS_EmptySet
<1> HIDE DEF row, P
<1>16. /\ row \subseteq P
       /\ Cardinality(row) = IF Cardinality(P) < Cap THEN Cardinality(P) ELSE Cap
       /\ \A d \in row, e \in P \ row : Before(d, e)
       /\ Cap > 0 /\ P # {} => Listed(a) # {}
  BY <1>9, <1>12, <1>13, <1>14, <1>15
<1> QED BY <1>16 DEF row, P
-----------------------------------------------------------------------------
(* The verdict on an item                                                  *)

\* What an item asks for, and what the store says it refused: an attributed
\* count counts something.
Asked ==
  /\ required \subseteq Artefact
  /\ phase \in {"ladder", "verdict"} => required # {}
  /\ suppressed.total \in Nat
  /\ suppressed.classes # {} => suppressed.total > 0

LEMMA RefusalsCount ==
  ASSUME NEW r \in Refusals
  PROVE  r.total \in Nat /\ (r.classes # {} => r.total > 0)
<1>1. r.total \in 0..MaxRefused /\ r.classes \subseteq Artefact /\ Cardinality(r.classes) <= r.total
  BY DEF Refusals
<1>2. IsFiniteSet(r.classes)
  BY <1>1, FS_Subset, LadderAssumption
<1>3. Cardinality(r.classes) \in Nat /\ (Cardinality(r.classes) = 0 <=> r.classes = {})
  BY <1>2, FS_CardinalityType, FS_EmptySet
<1> QED BY <1>1, <1>3, LadderAssumption

LEMMA AskedInit == Init => Asked
BY DEF Init, Asked

LEMMA AskedStep == Asked /\ [Next]_vars => Asked'
<1> SUFFICES ASSUME Asked, [Next]_vars PROVE Asked'
  OBVIOUS
<1>1. CASE Retrieve
  <2>1. suppressed' \in Refusals /\ phase' = "ladder"
    BY <1>1 DEF Retrieve
  <2>2. PICK declared \in SUBSET Artefact : required' = Decompose(declared)
    BY <1>1 DEF Retrieve
  <2>3. required' \subseteq Artefact /\ required' # {}
    BY <2>2, LadderAssumption DEF Decompose
  <2>4. suppressed'.total \in Nat /\ (suppressed'.classes # {} => suppressed'.total > 0)
    BY <2>1, RefusalsCount
  <2> QED BY <2>1, <2>3, <2>4 DEF Asked
<1>2. CASE Skip \/ Drop \/ Place
  BY <1>2 DEF Skip, Drop, Place, Looking, Asked
<1>3. CASE LadderDone
  BY <1>3 DEF LadderDone, Asked
<1>4. CASE AssessItem
  BY <1>4 DEF AssessItem, Asked
<1>5. CASE AssemblePack
  BY <1>5 DEF AssemblePack, Asked
<1>6. CASE Held \/ UNCHANGED vars
  BY <1>6 DEF Held, vars, Asked
<1> QED BY <1>1, <1>2, <1>3, <1>4, <1>5, <1>6 DEF Next

LEMMA VerdictIsAStatus == \A d : VerdictOn(d) \in EvidenceStatus
BY DEF VerdictOn, StatusOf, EvidenceStatus, Withheld

LEMMA LinkStatuses ==
  ASSUME LadderInv, NEW l \in links
  PROVE  l.status \in EvidenceStatus /\ l.status = VerdictOn(l.doc) /\ l.doc.artefact \in required
BY VerdictIsAStatus DEF LadderInv, Decided, Responsive

(* A denied link is a document that leaked, and is reported as one.        *)
LEMMA DeniedLeaked ==
  ASSUME LadderInv, NEW l \in links, l.status = "DENIED_NO_ENTITLEMENT"
  PROVE  Leaked # {}
<1>1. VerdictOn(l.doc) = "DENIED_NO_ENTITLEMENT"
  BY LinkStatuses
<1>2. l.doc.id \in LeakedIds
  BY <1>1 DEF VerdictOn, StatusOf
<1> QED BY <1>2 DEF LeakedIds

LEMMA RefusalReported ==
  ASSUME Leaked # {} \/ suppressed.total > 0
  PROVE  \E b \in EvidenceBlockers : b.kind = "DENIED_NO_ENTITLEMENT" /\ b.severity \in Blocking
<1>1. CASE Leaked # {}
  <2>1. [kind |-> "DENIED_NO_ENTITLEMENT", severity |-> "CRITICAL", about |-> "item"] \in EvidenceBlockers
    BY <1>1 DEF EvidenceBlockers, Raise
  <2> QED BY <2>1 DEF Blocking
<1>2. CASE suppressed.total > 0
  <2>1. [kind |-> "DENIED_NO_ENTITLEMENT", severity |-> "HIGH", about |-> "item"] \in EvidenceBlockers
    BY <1>2 DEF EvidenceBlockers, Raise
  <2> QED BY <2>1 DEF Blocking
<1> QED BY <1>1, <1>2

LEMMA MissingReported ==
  ASSUME NEW a \in required, Coverage[a] = "MISSING"
  PROVE  \E b \in EvidenceBlockers : b.severity \in Blocking
<1>1. [kind |-> "MISSING_ARTEFACT", severity |-> "HIGH", about |-> a] \in EvidenceBlockers
  BY DEF EvidenceBlockers, Raise
<1> QED BY <1>1 DEF Blocking

(* What each state of a requirement says of its links (_state_for).        *)
LEMMA CoverageSays ==
  ASSUME NEW a \in required
  PROVE  /\ Coverage[a] \in CoverageState
         /\ Listed(a) # {} => Coverage[a] \in Satisfied
         /\ Coverage[a] \in Satisfied => Listed(a) # {}
         /\ Coverage[a] = "PARTIAL" => Has(a, Withheld \cup {"DENIED_NO_ENTITLEMENT", "STALE"})
         /\ Coverage[a] = "STALE" => Has(a, {"STALE"})
         /\ Coverage[a] = "WITHHELD" => Has(a, Withheld)
         /\ Coverage[a] = "DENIED" => Has(a, {"DENIED_NO_ENTITLEMENT"}) \/ SuppressedHere(a)
         /\ Coverage[a] = "MISSING" =>
              /\ Listed(a) = {}
              /\ ~Has(a, Withheld \cup {"DENIED_NO_ENTITLEMENT", "STALE"})
              /\ ~SuppressedHere(a)
<1>1. Coverage[a] = CoverageOf(a)
  BY DEF Coverage
<1>2. Has(a, Withheld \cup {"DENIED_NO_ENTITLEMENT", "STALE"}) <=>
        Has(a, Withheld) \/ Has(a, {"DENIED_NO_ENTITLEMENT"}) \/ Has(a, {"STALE"})
  BY DEF Has
<1> QED BY <1>1, <1>2 DEF CoverageOf, CoverageState, Satisfied

(* A suppressed class means that the store refused something.              *)
LEMMA SuppressedCounts ==
  ASSUME Asked, NEW a, SuppressedHere(a)
  PROVE  suppressed.total > 0
BY DEF Asked, SuppressedHere

(* The ladder's invariant makes MISSING mean what it says.                 *)
LEMMA MissingIsMissing ==
  ASSUME Cap > 0, LadderInv, Asked PROVE DeniedIsNotMissing
<1> SUFFICES ASSUME NEW a \in required
             PROVE  /\ Coverage[a] = "MISSING" =>
                         /\ \A l \in links : l.doc.artefact = a =>
                              /\ l.doc.id \notin LeakedIds
                              /\ ~HeldForPrivilege(l.doc) /\ ~HeldOutright(l.doc)
                              /\ l.doc.from \in Permitted
                              /\ ~NearPeriod(l.doc)
                         /\ suppressed.total > 0 =>
                              suppressed.classes # {} /\ a \notin suppressed.classes
                    /\ Coverage[a] = "DENIED" =>
                         \E b \in EvidenceBlockers : b.kind = "DENIED_NO_ENTITLEMENT"
  BY DEF DeniedIsNotMissing
<1>1. ASSUME Coverage[a] = "MISSING", NEW l \in links, l.doc.artefact = a
      PROVE  /\ l.doc.id \notin LeakedIds
             /\ ~HeldForPrivilege(l.doc) /\ ~HeldOutright(l.doc)
             /\ l.doc.from \in Permitted
             /\ ~NearPeriod(l.doc)
  <2>0. l.status # "ACCEPTED"
    <3>1. ProducedFor(links, a) = {}
      BY <1>1, CoverageSays, RowOfRequirement
    <3> QED BY <1>1, <3>1, AcceptedProduced DEF Accepted
  <2>1. l.status \notin Withheld \cup {"DENIED_NO_ENTITLEMENT", "STALE", "ACCEPTED"}
    BY <1>1, <2>0, CoverageSays DEF Has
  <2>2. VerdictOn(l.doc) = "OUT_OF_PERIOD"
    BY <2>1, LinkStatuses DEF EvidenceStatus
  <2>3. l.doc.id \notin LeakedIds /\ StatusOf(l.doc) = "OUT_OF_PERIOD"
    BY <2>2 DEF VerdictOn
  <2>4. /\ ~HeldForPrivilege(l.doc) /\ ~HeldOutright(l.doc)
        /\ l.doc.from \in Permitted /\ ~NearPeriod(l.doc)
    BY <2>3 DEF StatusOf
  <2> QED BY <2>3, <2>4
<1>2. ASSUME Coverage[a] = "MISSING", suppressed.total > 0
      PROVE  suppressed.classes # {} /\ a \notin suppressed.classes
  BY <1>2, CoverageSays DEF SuppressedHere
<1>3. ASSUME Coverage[a] = "DENIED"
      PROVE  \E b \in EvidenceBlockers : b.kind = "DENIED_NO_ENTITLEMENT"
  <2>1. CASE Has(a, {"DENIED_NO_ENTITLEMENT"})
    BY <2>1, DeniedLeaked, RefusalReported DEF Has
  <2>2. CASE SuppressedHere(a)
    BY <2>2, SuppressedCounts, RefusalReported
  <2> QED BY <1>3, <2>1, <2>2, CoverageSays
<1> QED BY <1>1, <1>2, <1>3

(* A requirement is reported MISSING only if nothing of its class was      *)
(* refused, held back or stale, and DENIED only with its blocker, for any  *)
(* documents and any count the store may give; the cap on the evidence     *)
(* listed must leave room for one document.                                *)
THEOREM MissingMeansNothing == ASSUME Cap > 0 PROVE Spec => []DeniedIsNotMissing
<1>1. Spec => []Asked
  BY AskedInit, AskedStep, PTL DEF Spec
<1>2. LadderInv /\ Asked => DeniedIsNotMissing
  BY MissingIsMissing
<1> QED BY <1>1, <1>2, LadderAlways, PTL

-----------------------------------------------------------------------------
\* The items are a sequence of assessments.
IsSequence == \E S : items \in Seq(S)

LEMMA Appended ==
  ASSUME IsSequence, NEW x, items' = Append(items, x)
  PROVE  /\ IsSequence'
         /\ \A i \in DOMAIN items' : items'[i] = x \/ (i \in DOMAIN items /\ items'[i] = items[i])
<1>1. PICK S : items \in Seq(S)
  BY DEF IsSequence
<1> DEFINE T == S \cup {x}
<1>2. items \in Seq(T) /\ x \in T
  BY <1>1, SeqMonotonic
<1> HIDE DEF T
<1>3. items' \in Seq(T)
  BY <1>2
<1>4. \A i \in DOMAIN items' : items'[i] = x \/ (i \in DOMAIN items /\ items'[i] = items[i])
  BY <1>2
<1> QED BY <1>3, <1>4 DEF IsSequence

\* The coverage table of an item against what the item produces.
Produced(x) ==
  \A a \in DOMAIN x.coverage :
    LET produced == ProducedFor(x.links, a)
        number == Cardinality(produced)
    IN /\ x.accepted[a] \subseteq produced
       /\ Cardinality(x.accepted[a]) = IF number < Cap THEN number ELSE Cap
       /\ produced # {} => x.coverage[a] \in Satisfied

\* Its rows are in the order of the ports.
InOrder(x) ==
  \A a \in DOMAIN x.coverage :
    \A d \in x.accepted[a], e \in ProducedFor(x.links, a) \ x.accepted[a] : Before(d, e)

Complete(x) ==
  x.verdict.disposition = "ON_TRACK" =>
    /\ \A a \in DOMAIN x.coverage : x.coverage[a] = "COVERED"
    /\ \A l \in x.links : l.status \in {"ACCEPTED", "OUT_OF_PERIOD"}
    /\ x.verdict.completeness = 100
    /\ x.verdict.decision = "ALLOWED"

(* The worst of a clock that is not pressing and of no blocker at all.     *)
LEMMA QuietSeverity ==
  ASSUME NEW sla \in Clocks, sla.band \notin Blocking
  PROVE  ItemSeverity({}, sla) \notin Blocking
<1>1. sla.band \in {"LOW", "MEDIUM"}
  BY DEF Clocks, Severity, Blocking
<1>2. WorstSeverity({}) = "LOW"
  <2>1. {"LOW"} \cup {b.severity : b \in {}} = {"LOW"}
    OBVIOUS
  <2>2. SeverityRank["LOW"] <= SeverityRank["LOW"]
    BY DEF SeverityRank
  <2>3. \E s \in {"LOW"} : \A t \in {"LOW"} : SeverityRank[t] <= SeverityRank[s]
    BY <2>2
  <2>4. WorstOf({"LOW"}, SeverityRank) \in {"LOW"}
    BY <2>3, Zenon DEF WorstOf
  <2> QED BY <2>1, <2>4 DEF WorstSeverity
<1> DEFINE S == {"LOW", sla.band}
<1>3. ItemSeverity({}, sla) = WorstOf(S, SeverityRank)
  BY <1>2 DEF ItemSeverity
<1>4. \E s \in S : \A t \in S : SeverityRank[t] <= SeverityRank[s]
  BY <1>1 DEF SeverityRank
<1> HIDE DEF S
<1>5. WorstOf(S, SeverityRank) \in S
  BY <1>4, Zenon DEF WorstOf
<1> QED BY <1>1, <1>3, <1>5 DEF S, Blocking

\* What an item that no reviewer sees on its own owes its reader: each
\* unsatisfied requirement has a link that says why, and completeness that
\* falls short of the whole.
Explained(x) ==
  x.verdict.decision = "ALLOWED" =>
    \A a \in DOMAIN x.coverage :
      x.coverage[a] \notin Satisfied =>
        /\ MinCompleteness = 100 => "BELOW_MIN_COMPLETENESS" \in x.verdict.gate
        /\ \E l \in x.links :
             l.doc.artefact = a /\ l.status \in {"WITHHELD_SAR", "STALE"}

\* Blockers with a severity the release rules rank.
Ranked(blockers) == \A b \in blockers : b.severity \in Severity

(* The worst of some severities is one of them, and none is above it.      *)
LEMMA WorstIsWorst ==
  ASSUME NEW S \in SUBSET Severity, S # {}
  PROVE  /\ WorstOf(S, SeverityRank) \in S
         /\ \A t \in S : SeverityRank[t] <= SeverityRank[WorstOf(S, SeverityRank)]
<1>1. \E s \in S : \A t \in S : SeverityRank[t] <= SeverityRank[s]
  <2>1. CASE "CRITICAL" \in S
    BY <2>1 DEF Severity, SeverityRank
  <2>2. CASE "CRITICAL" \notin S /\ "HIGH" \in S
    BY <2>2 DEF Severity, SeverityRank
  <2>3. CASE S \subseteq {"LOW", "MEDIUM"} /\ "MEDIUM" \in S
    BY <2>3 DEF Severity, SeverityRank
  <2>4. CASE S = {"LOW"}
    BY <2>4 DEF SeverityRank
  <2> QED BY <2>1, <2>2, <2>3, <2>4 DEF Severity
<1> QED BY <1>1, Zenon DEF WorstOf

(* Nothing in a set of severities blocks when the worst of them does not.  *)
LEMMA WorstQuiet ==
  ASSUME NEW S \in SUBSET Severity, NEW t \in S, WorstOf(S, SeverityRank) \notin Blocking
  PROVE  t \notin Blocking
<1> DEFINE w == WorstOf(S, SeverityRank)
<1>1. w \in S /\ SeverityRank[t] <= SeverityRank[w]
  BY WorstIsWorst
<1>2. w \in {"LOW", "MEDIUM"} /\ t \in Severity
  BY <1>1 DEF Severity, Blocking
<1> HIDE DEF w
<1> QED BY <1>1, <1>2 DEF SeverityRank, Severity, Blocking

(* An item that does not escalate has no blocker that blocks (rules S2 and *)
(* S3 in item_severity and should_escalate).                               *)
LEMMA QuietBlockers ==
  ASSUME NEW blockers, Ranked(blockers), NEW sla \in Clocks,
         ItemSeverity(blockers, sla) \notin Blocking, NEW b \in blockers
  PROVE  b.severity \notin Blocking
<1> DEFINE S == {"LOW"} \cup {c.severity : c \in blockers}
           H == IF \E c \in blockers : c.kind = "PRIVILEGE_HOLD" THEN {"HIGH"} ELSE {}
           T == {WorstOf(S, SeverityRank), sla.band} \cup H
<1>1. S \in SUBSET Severity /\ b.severity \in S
  BY DEF Ranked, Severity
<1>2. ItemSeverity(blockers, sla) = WorstOf(T, SeverityRank)
  BY Zenon DEF ItemSeverity, WorstSeverity
<1>3. sla.band \in Severity /\ H \in SUBSET Severity
  BY DEF Clocks, Severity
<1> HIDE DEF S, H
<1>4. T \in SUBSET Severity
  BY <1>1, <1>3, WorstIsWorst
<1>5. WorstOf(S, SeverityRank) \in T
  OBVIOUS
<1> HIDE DEF T
<1>6. WorstOf(S, SeverityRank) \notin Blocking
  BY <1>2, <1>4, <1>5, WorstQuiet
<1> QED BY <1>1, <1>6, WorstQuiet

(* Every blocker that the evidence raises has a severity of the scale.     *)
LEMMA EvidenceRanked == Ranked(EvidenceBlockers)
<1> SUFFICES ASSUME NEW b \in EvidenceBlockers PROVE b.severity \in Severity
  BY DEF Ranked
<1>1. ASSUME NEW c, NEW k, NEW s \in Severity, NEW t, b \in Raise(c, k, s, t)
      PROVE  b.severity \in Severity
  BY <1>1 DEF Raise
<1>2. "CRITICAL" \in Severity /\ "HIGH" \in Severity /\ "MEDIUM" \in Severity
  BY DEF Severity
<1>3. CASE b \in WithholdBlockers
  <2>1. PICK l \in links :
          \/ b \in Raise(l.status = "WITHHELD_PRIVILEGED", "PRIVILEGE_HOLD", "HIGH", l.doc.id)
          \/ b \in Raise(l.status = "WITHHELD_RESTRICTED_TRANSFER", "RESTRICTED_TRANSFER", "HIGH", l.doc.id)
    BY <1>3 DEF WithholdBlockers
  <2> QED BY <2>1, <1>1, <1>2
<1>4. CASE \E a \in required :
             \/ b \in Raise(Coverage[a] = "MISSING", "MISSING_ARTEFACT", "HIGH", a)
             \/ b \in Raise(Has(a, {"STALE"}), "STALE_EVIDENCE", "MEDIUM", a)
  BY <1>4, <1>1, <1>2
<1>5. CASE \/ b \in Raise(Leaked # {}, "DENIED_NO_ENTITLEMENT", "CRITICAL", "item")
           \/ b \in Raise(suppressed.total > 0, "DENIED_NO_ENTITLEMENT", "HIGH", "item")
  BY <1>5, <1>1, <1>2
<1> QED BY <1>3, <1>4, <1>5 DEF EvidenceBlockers

(* So has every finding on the text of an item.                            *)
LEMMA TextRanked == ASSUME NEW text \in TextFindings PROVE Ranked(text)
BY DEF TextFindings, Raise, Ranked, Severity

(* A document held for privilege or for transfer raises a blocker that     *)
(* escalates the item (_withhold_blockers).                                *)
LEMMA HoldReported ==
  ASSUME NEW l \in links, l.status \in {"WITHHELD_PRIVILEGED", "WITHHELD_RESTRICTED_TRANSFER"}
  PROVE  \E b \in EvidenceBlockers : b.severity \in Blocking
<1>1. CASE l.status = "WITHHELD_PRIVILEGED"
  <2>1. [kind |-> "PRIVILEGE_HOLD", severity |-> "HIGH", about |-> l.doc.id] \in WithholdBlockers
    BY <1>1 DEF WithholdBlockers, Raise
  <2> QED BY <2>1 DEF EvidenceBlockers, Blocking
<1>2. CASE l.status = "WITHHELD_RESTRICTED_TRANSFER"
  <2>1. [kind |-> "RESTRICTED_TRANSFER", severity |-> "HIGH", about |-> l.doc.id] \in WithholdBlockers
    BY <1>2 DEF WithholdBlockers, Raise
  <2> QED BY <2>1 DEF EvidenceBlockers, Blocking
<1> QED BY <1>1, <1>2

LEMMA PartOfTheWhole ==
  \A m, n \in Nat : m < n => (100 * m) \div n < 100
OBVIOUS

(* A requirement that is not satisfied keeps the completeness of its item  *)
(* below 100 (rule C3, integer arithmetic that rounds down).               *)
LEMMA FallsShort ==
  ASSUME Asked, NEW a \in required, Coverage[a] \notin Satisfied
  PROVE  Completeness < 100
<1> DEFINE full == {r \in required : Coverage[r] \in Satisfied}
<1>1. IsFiniteSet(required)
  BY FS_Subset, LadderAssumption DEF Asked
<1>2. full \subseteq required /\ full # required
  OBVIOUS
<1>3. IsFiniteSet(full) /\ Cardinality(full) <= Cardinality(required)
      /\ (Cardinality(full) = Cardinality(required) => full = required)
  BY <1>1, <1>2, FS_Subset
<1>4. Cardinality(full) \in Nat /\ Cardinality(required) \in Nat
  BY <1>1, <1>3, FS_CardinalityType
<1>5. Completeness = (100 * Cardinality(full)) \div Cardinality(required)
  BY DEF Completeness
<1> HIDE DEF full
<1> QED BY <1>2, <1>3, <1>4, <1>5, PartOfTheWhole

(* A requirement whose item raises no blocker that blocks is unsatisfied   *)
(* only over a document withheld in silence or stale (_state_for with      *)
(* _withhold_blockers and the refusals).                                   *)
LEMMA QuietLink ==
  ASSUME LadderInv, Asked, \A b \in EvidenceBlockers : b.severity \notin Blocking,
         NEW a \in required, Coverage[a] \notin Satisfied
  PROVE  \E l \in links : l.doc.artefact = a /\ l.status \in {"WITHHELD_SAR", "STALE"}
<1>1. Leaked = {} /\ ~(suppressed.total > 0)
  BY RefusalReported
<1>2. ~Has(a, {"DENIED_NO_ENTITLEMENT"}) /\ ~SuppressedHere(a)
  BY <1>1, DeniedLeaked, SuppressedCounts DEF Has
<1>3. Coverage[a] # "MISSING" /\ Coverage[a] # "DENIED"
  BY <1>2, MissingReported, CoverageSays
<1>4. Coverage[a] \in {"STALE", "WITHHELD"}
  BY <1>3, CoverageSays DEF CoverageState, Satisfied
<1>5. CASE Coverage[a] = "STALE"
  BY <1>5, CoverageSays DEF Has
<1>6. CASE Coverage[a] = "WITHHELD"
  <2>1. PICK l \in links : l.doc.artefact = a /\ l.status \in Withheld
    BY <1>6, CoverageSays DEF Has
  <2>2. l.status = "WITHHELD_SAR"
    BY <2>1, HoldReported DEF Withheld
  <2> QED BY <2>1, <2>2
<1> QED BY <1>4, <1>5, <1>6

LEMMA AllOfThem == \A n \in Nat \ {0} : (100 * n) \div n = 100
OBVIOUS

(* The assessment of an item whose ladder is done.                         *)
LEMMA ItemSound ==
  ASSUME LadderInv, Asked, phase = "verdict", NEW sla \in Clocks,
         NEW more, Ranked(more), NEW x, x.links = links, x.coverage = Coverage,
         x.accepted = AcceptedRows,
         x.verdict.disposition =
           ItemDisposition(EvidenceBlockers \cup more, sla, {l.status : l \in links}),
         x.verdict.completeness = Completeness,
         x.verdict.gate = ReleaseBlockers(EvidenceBlockers \cup more, Completeness),
         x.verdict.decision =
           IF Escalates(ItemSeverity(EvidenceBlockers \cup more, sla)) THEN "ESCALATED" ELSE "ALLOWED"
  PROVE  (Cap > 0 => Produced(x)) /\ InOrder(x) /\ Complete(x) /\ Explained(x)
<1>1. ASSUME NEW a \in required
      PROVE  LET produced == ProducedFor(links, a)
                 row == AcceptedRows[a]
                 number == Cardinality(produced)
             IN /\ row \subseteq produced
                /\ Cardinality(row) = IF number < Cap THEN number ELSE Cap
                /\ Cap > 0 /\ produced # {} => Coverage[a] \in Satisfied
                /\ \A d \in row, e \in produced \ row : Before(d, e)
  <2>1. AcceptedRows[a] = {l.doc : l \in Listed(a)}
    BY Zenon DEF AcceptedRows
  <2>2. Listed(a) # {} => Coverage[a] \in Satisfied
    BY CoverageSays
  <2> QED BY <2>1, <2>2, RowOfRequirement
<1>2. ASSUME x.verdict.disposition = "ON_TRACK"
      PROVE  /\ \A a \in required : Coverage[a] = "COVERED"
             /\ \A l \in links : l.status \in {"ACCEPTED", "OUT_OF_PERIOD"}
             /\ Completeness = 100
             /\ x.verdict.decision = "ALLOWED"
  <2>1. /\ EvidenceBlockers \cup more = {} /\ sla.band \notin Blocking
        /\ {l.status : l \in links} \cap (Withheld \cup {"STALE"}) = {}
    BY <1>2 DEF ItemDisposition
  <2>2. EvidenceBlockers = {}
    BY <2>1
  <2>3. Leaked = {} /\ ~(suppressed.total > 0)
    BY <2>2, RefusalReported
  <2>4. \A l \in links : l.status \in {"ACCEPTED", "OUT_OF_PERIOD"}
    BY <2>1, <2>3, LinkStatuses, DeniedLeaked DEF EvidenceStatus
  <2>5. ASSUME NEW a \in required PROVE Coverage[a] = "COVERED"
    <3>1. ~Has(a, Withheld \cup {"DENIED_NO_ENTITLEMENT", "STALE"})
      BY <2>4 DEF Has, Withheld
    <3>2. ~Has(a, Withheld) /\ ~Has(a, {"DENIED_NO_ENTITLEMENT"}) /\ ~Has(a, {"STALE"})
      BY <2>4 DEF Has, Withheld
    <3>3. ~SuppressedHere(a)
      BY <2>3, SuppressedCounts
    <3>4. Coverage[a] # "MISSING"
      BY <2>2, MissingReported
    <3> QED BY <3>1, <3>2, <3>3, <3>4, CoverageSays DEF CoverageState
  <2>6. Completeness = 100
    <3>1. {a \in required : Coverage[a] \in Satisfied} = required
      BY <2>5 DEF Satisfied
    <3>2. IsFiniteSet(required)
      BY FS_Subset, LadderAssumption DEF Asked
    <3>3. Cardinality(required) \in Nat \ {0}
      BY <3>2, FS_CardinalityType, FS_EmptySet DEF Asked
    <3> QED BY <3>1, <3>3, AllOfThem DEF Completeness
  <2>7. x.verdict.decision = "ALLOWED"
    BY <2>1, QuietSeverity DEF Escalates
  <2> QED BY <2>4, <2>5, <2>6, <2>7
<1>3. DOMAIN Coverage = required
  BY DEF Coverage
<1>4. ASSUME x.verdict.decision = "ALLOWED", NEW a \in required,
             Coverage[a] \notin Satisfied
      PROVE  /\ MinCompleteness = 100 => "BELOW_MIN_COMPLETENESS" \in x.verdict.gate
             /\ \E l \in links :
                  l.doc.artefact = a /\ l.status \in {"WITHHELD_SAR", "STALE"}
  <2>1. ItemSeverity(EvidenceBlockers \cup more, sla) \notin Blocking
    BY <1>4 DEF Escalates
  <2>2. Ranked(EvidenceBlockers \cup more)
    BY EvidenceRanked DEF Ranked
  <2>3. \A b \in EvidenceBlockers : b.severity \notin Blocking
    BY <2>1, <2>2, QuietBlockers
  <2>4. MinCompleteness = 100 =>
          "BELOW_MIN_COMPLETENESS" \in ReleaseBlockers(EvidenceBlockers \cup more, Completeness)
    BY <1>4, FallsShort DEF ReleaseBlockers
  <2> QED BY <1>4, <2>3, <2>4, QuietLink
<1>5. Cap > 0 => Produced(x)
  BY <1>1, <1>3 DEF Produced
<1>6. InOrder(x)
  BY <1>1, <1>3 DEF InOrder
<1> QED BY <1>2, <1>3, <1>4, <1>5, <1>6 DEF Complete, Explained

\* The rows of the item just assessed are in the order of the candidates it
\* was assessed from, which stay as they are until the next item is retrieved.
LastInOrder ==
  phase \in {"item", "held"} /\ items # << >> => InOrder(items[Len(items)])

ItemsSound ==
  /\ IsSequence
  /\ LastInOrder
  /\ \A i \in DOMAIN items :
       /\ Cap > 0 => Produced(items[i])
       /\ Complete(items[i])
       /\ Explained(items[i])

LEMMA ItemsInit == Init => ItemsSound
<1> SUFFICES ASSUME Init PROVE ItemsSound
  OBVIOUS
<1>1. items = << >> /\ << >> \in Seq({}) /\ DOMAIN items = {}
  BY DEF Init
<1> QED BY <1>1 DEF ItemsSound, IsSequence, LastInOrder

\* What AssessItem adds to the items: the assessment of the ladder's links,
\* where more is what the clock, the owner and the text raise.
Assessment(x, sla, more) ==
  /\ items' = Append(items, x)
  /\ x.links = links /\ x.coverage = Coverage /\ x.accepted = AcceptedRows
  /\ x.verdict.disposition =
       ItemDisposition(EvidenceBlockers \cup more, sla, {l.status : l \in links})
  /\ x.verdict.severity = ItemSeverity(EvidenceBlockers \cup more, sla)
  /\ x.verdict.decision =
       IF Escalates(ItemSeverity(EvidenceBlockers \cup more, sla)) THEN "ESCALATED" ELSE "ALLOWED"
  /\ x.verdict.blockers = EvidenceBlockers \cup more
  /\ x.verdict.completeness = Completeness
  /\ x.verdict.gate = ReleaseBlockers(EvidenceBlockers \cup more, Completeness)
  /\ x.verdict.approvals =
       RequiredApprovals("item", instrument, ItemSeverity(EvidenceBlockers \cup more, sla))

(* Each item is assessed by the release rules (the end of _assess_item).   *)
LEMMA ItemAssessed ==
  ASSUME AssessItem
  PROVE  /\ phase = "verdict" /\ instrument' = instrument /\ phase' = "item"
         /\ pack' = pack
         /\ \E x, more : \E sla \in Clocks : Ranked(more) /\ Assessment(x, sla, more)
<1>1. PICK sla \in Clocks, owned \in BOOLEAN, text \in TextFindings :
        LET blockers == EvidenceBlockers
              \cup Raise(sla.breached, "DEADLINE_BREACH", "CRITICAL", "item")
              \cup Raise(~owned, "NO_OWNER", "MEDIUM", "item")
              \cup text
            severity == ItemSeverity(blockers, sla)
        IN items' = Append(items,
             [links |-> links, coverage |-> Coverage, accepted |-> AcceptedRows,
              verdict |->
               [disposition |-> ItemDisposition(blockers, sla,
                                                {l.status : l \in links}),
                severity |-> severity,
                decision |-> IF Escalates(severity) THEN "ESCALATED" ELSE "ALLOWED",
                blockers |-> blockers,
                completeness |-> Completeness,
                gate |-> ReleaseBlockers(blockers, Completeness),
                approvals |-> RequiredApprovals("item", instrument, severity)]])
  BY DEF AssessItem
<1> DEFINE more == Raise(sla.breached, "DEADLINE_BREACH", "CRITICAL", "item")
                     \cup Raise(~owned, "NO_OWNER", "MEDIUM", "item") \cup text
           blockers == EvidenceBlockers \cup more
           severity == ItemSeverity(blockers, sla)
           x == [links |-> links, coverage |-> Coverage, accepted |-> AcceptedRows,
                 verdict |->
                  [disposition |-> ItemDisposition(blockers, sla, {l.status : l \in links}),
                   severity |-> severity,
                   decision |-> IF Escalates(severity) THEN "ESCALATED" ELSE "ALLOWED",
                   blockers |-> blockers,
                   completeness |-> Completeness,
                   gate |-> ReleaseBlockers(blockers, Completeness),
                   approvals |-> RequiredApprovals("item", instrument, severity)]]
<1>2. EvidenceBlockers
        \cup Raise(sla.breached, "DEADLINE_BREACH", "CRITICAL", "item")
        \cup Raise(~owned, "NO_OWNER", "MEDIUM", "item")
        \cup text = blockers
  BY Zenon
<1>3. items' = Append(items, x)
  BY <1>1, <1>2, Zenon
<1>4. Assessment(x, sla, more)
  BY <1>3, Zenon DEF Assessment
<1>5. Ranked(more)
  BY TextRanked DEF Raise, Ranked, Severity
<1>6. /\ phase = "verdict" /\ instrument' = instrument /\ phase' = "item"
      /\ pack' = pack
  BY DEF AssessItem
<1> HIDE DEF x, more
<1> QED BY <1>4, <1>5, <1>6

LEMMA OrderKept ==
  ASSUME candidates' = candidates, NEW x, InOrder(x)
  PROVE  \A y : y = x => InOrder(y)'
BY DEF InOrder, Before

LEMMA ItemsStep == LadderInv /\ Asked /\ ItemsSound /\ [Next]_vars => ItemsSound'
<1> SUFFICES ASSUME LadderInv, Asked, ItemsSound, [Next]_vars PROVE ItemsSound'
  OBVIOUS
<1>1. CASE AssessItem
  <2>0. PICK x, more : \E sla \in Clocks : Ranked(more) /\ Assessment(x, sla, more)
    BY <1>1, ItemAssessed
  <2>1. PICK sla \in Clocks : Ranked(more) /\ Assessment(x, sla, more)
    BY <2>0
  <2>2. (Cap > 0 => Produced(x)) /\ InOrder(x) /\ Complete(x) /\ Explained(x)
    BY <1>1, <2>1, ItemAssessed, ItemSound DEF Assessment
  <2>3. IsSequence' /\ \A i \in DOMAIN items' :
          items'[i] = x \/ (i \in DOMAIN items /\ items'[i] = items[i])
    BY <2>1, Appended DEF ItemsSound, Assessment
  <2>4. items'[Len(items')] = x
    <3>1. PICK S : items \in Seq(S)
      BY DEF ItemsSound, IsSequence
    <3> DEFINE T == S \cup {x}
    <3>2. items \in Seq(T) /\ x \in T
      BY <3>1, SeqMonotonic
    <3> HIDE DEF T
    <3> QED BY <2>1, <3>2 DEF Assessment
  <2>5. InOrder(x)'
    BY <1>1, <2>2, OrderKept DEF AssessItem
  <2>6. LastInOrder'
    BY <2>4, <2>5 DEF LastInOrder
  <2>7. \A i \in DOMAIN items' :
          /\ Cap > 0 => Produced(items'[i])
          /\ Complete(items'[i])
          /\ Explained(items'[i])
    BY <2>2, <2>3 DEF ItemsSound
  <2> QED BY <2>3, <2>6, <2>7 DEF ItemsSound, Produced, Complete, Explained
<1>2. ASSUME items' = items, LastInOrder' PROVE ItemsSound'
  <2>1. IsSequence'
    BY <1>2 DEF ItemsSound, IsSequence
  <2>2. \A i \in DOMAIN items :
          /\ Cap > 0 => Produced(items[i])
          /\ Complete(items[i])
          /\ Explained(items[i])
    BY DEF ItemsSound
  <2>3. \A i \in DOMAIN items' :
          /\ Cap > 0 => Produced(items'[i])
          /\ Complete(items'[i])
          /\ Explained(items'[i])
    BY <1>2, <2>2
  <2> QED BY <1>2, <2>1, <2>3 DEF ItemsSound, Produced, Complete, Explained
<1>3. CASE Retrieve \/ Skip \/ Drop \/ Place \/ LadderDone
  <2>1. items' = items /\ phase' \in {"ladder", "verdict"}
    BY <1>3 DEF Retrieve, Skip, Drop, Place, LadderDone, Looking
  <2>2. LastInOrder'
    BY <2>1 DEF LastInOrder
  <2> QED BY <1>2, <2>1, <2>2
<1>4. CASE AssemblePack \/ Held \/ UNCHANGED vars
  <2>1. /\ items' = items /\ candidates' = candidates
        /\ phase' \in {"item", "held"} => phase \in {"item", "held"}
    BY <1>4 DEF AssemblePack, Held, vars
  <2>2. LastInOrder'
    BY <2>1, OrderKept DEF LastInOrder, ItemsSound
  <2> QED BY <1>2, <2>1, <2>2
<1> QED BY <1>1, <1>3, <1>4 DEF Next

LEMMA ItemsAlways == Spec => []ItemsSound
<1>1. Spec => []Asked
  BY AskedInit, AskedStep, PTL DEF Spec
<1> QED BY <1>1, ItemsInit, ItemsStep, LadderAlways, PTL DEF Spec

(* The coverage table against the exhibits, for any number of accepted     *)
(* documents and any cap that lists one: a row lists exhibits of its class *)
(* only, all of them or as many as the cap, in the item just assessed none *)
(* that arrived after one left out, and a requirement with an exhibit is   *)
(* COVERED or PARTIAL however many were cut (_coverage).                   *)
THEOREM ExhibitsAreCovered == ASSUME Cap > 0 PROVE Spec => []ProducedIsCovered
<1>1. ASSUME ItemsSound PROVE ProducedIsCovered
  <2>1. SUFFICES ASSUME NEW i \in DOMAIN items, NEW a \in DOMAIN items[i].coverage
        PROVE  LET produced == ProducedFor(items[i].links, a)
                   row == items[i].accepted[a]
                   number == Cardinality(produced)
               IN /\ row \subseteq produced
                  /\ Cardinality(row) = IF number < Cap THEN number ELSE Cap
                  /\ produced # {} => items[i].coverage[a] \in Satisfied
                  /\ i = Len(items) /\ phase \in {"item", "held"} =>
                       \A d \in row, e \in produced \ row : Before(d, e)
    BY Zenon DEF ProducedIsCovered, ProducedFor
  <2>2. Produced(items[i])
    BY <1>1 DEF ItemsSound
  <2>3. ASSUME i = Len(items), phase \in {"item", "held"} PROVE InOrder(items[i])
    <3>1. items # << >>
      OBVIOUS
    <3> QED BY <1>1, <2>3, <3>1 DEF ItemsSound, LastInOrder
  <2> QED BY <2>2, <2>3 DEF Produced, InOrder
<1> QED BY <1>1, ItemsAlways, PTL

(* An item is ON_TRACK only with everything required of it produced in     *)
(* full, nothing withheld and nothing for a reviewer to see, whatever was  *)
(* retrieved, refused or drafted (item_disposition).                       *)
THEOREM OnTrackIsComplete == Spec => []OnTrackMeansComplete
<1>1. ItemsSound => OnTrackMeansComplete
  BY DEF ItemsSound, Complete, OnTrackMeansComplete
<1> QED BY <1>1, ItemsAlways, PTL

(* An item that passes without a reviewer of its own leaves nothing        *)
(* unsatisfied but over a document withheld in silence or stale, whatever  *)
(* was retrieved, refused or drafted; with the shipped completeness floor  *)
(* of 100 its release stays gated (rules S3 and R2).                       *)
THEOREM QuietIsExplained == ASSUME MinCompleteness = 100 PROVE Spec => []QuietItemsExplained
<1>1. ItemsSound => QuietItemsExplained
  BY DEF ItemsSound, Explained, QuietItemsExplained
<1> QED BY <1>1, ItemsAlways, PTL

-----------------------------------------------------------------------------
(* The roll-up of the items into the pack                                  *)

(* Induction over the numbers, for a set in place of a predicate, which    *)
(* tlapm could not instantiate.                                            *)
LEMMA Induction ==
  ASSUME NEW S, 0 \in S, \A n \in Nat : n \in S => n + 1 \in S
  PROVE  Nat \subseteq S
<1> SUFFICES ASSUME Nat \ S # {} PROVE FALSE
  OBVIOUS
<1>1. PICK x \in Nat \ S : \A y \in Nat \ S : x <= y
  BY LeastOf
<1>2. x # 0 /\ x - 1 \in Nat
  OBVIOUS
<1>3. x - 1 \in S
  BY <1>1, <1>2
<1> QED BY <1>2, <1>3

\* One of a set, as the folds choose it.
Pick(s) == CHOOSE x \in s : TRUE

\* The recursion of TotalCompleteness over the sets in U: g[s] is the sum over
\* the verdicts v of the items in s.
Summed(v, U, g) ==
  [s \in U |-> IF s = {} THEN 0 ELSE v[Pick(s)].completeness + g[s \ {Pick(s)}]]

UpTo(D, m) == {s \in SUBSET D : Cardinality(s) <= m}

LEMMA PickOne ==
  ASSUME NEW D, IsFiniteSet(D), NEW s \in SUBSET D, s # {}
  PROVE  /\ Pick(s) \in s /\ s \ {Pick(s)} \in SUBSET D
         /\ IsFiniteSet(s) /\ Cardinality(s) \in Nat \ {0}
         /\ Cardinality(s \ {Pick(s)}) = Cardinality(s) - 1
<1>1. Pick(s) \in s
  BY DEF Pick
<1>2. IsFiniteSet(s)
  BY FS_Subset
<1> QED BY <1>1, <1>2, FS_RemoveElement, FS_CardinalityType, FS_EmptySet

(* The sum of the percentages is the last value of a function that recurs  *)
(* over the sets of items.                                                 *)
LEMMA SumIsSummed ==
  ASSUME NEW v, IsFiniteSet(DOMAIN v)
  PROVE  \E g : /\ g = Summed(v, SUBSET DOMAIN v, g)
                /\ TotalCompleteness(v) = g[DOMAIN v]
<1> DEFINE D == DOMAIN v
<1> DEFINE S == {m \in Nat : \E g : g = Summed(v, UpTo(D, m), g)}
<1>1. 0 \in S
  <2> DEFINE g == [s \in UpTo(D, 0) |-> 0]
  <2>1. ASSUME NEW s \in UpTo(D, 0) PROVE s = {}
    <3>1. s \in SUBSET D /\ Cardinality(s) <= 0
      BY DEF UpTo
    <3>2. s # {} => Cardinality(s) \in Nat \ {0}
      BY <3>1, PickOne
    <3> QED BY <3>1, <3>2
  <2>2. g = Summed(v, UpTo(D, 0), g)
    BY <2>1, Zenon DEF Summed
  <2> QED BY <2>2
<1>2. ASSUME NEW m \in Nat, m \in S PROVE m + 1 \in S
  <2>1. PICK g : g = Summed(v, UpTo(D, m), g)
    BY <1>2
  <2> DEFINE h == Summed(v, UpTo(D, m + 1), g)
  <2>2. ASSUME NEW s \in UpTo(D, m + 1), s # {}
        PROVE  h[s \ {Pick(s)}] = g[s \ {Pick(s)}]
    <3> DEFINE t == s \ {Pick(s)}
    <3>1. s \in SUBSET D /\ Cardinality(s) <= m + 1
      BY DEF UpTo
    <3>2. t \in SUBSET D /\ Cardinality(t) = Cardinality(s) - 1 /\ Cardinality(s) \in Nat
      BY <2>2, <3>1, PickOne
    <3>3. t \in UpTo(D, m) /\ t \in UpTo(D, m + 1)
      BY <3>1, <3>2 DEF UpTo
    <3> HIDE DEF t
    <3>4. h[t] = IF t = {} THEN 0 ELSE v[Pick(t)].completeness + g[t \ {Pick(t)}]
      BY <3>3 DEF Summed
    <3>5. Summed(v, UpTo(D, m), g)[t] = IF t = {} THEN 0 ELSE v[Pick(t)].completeness + g[t \ {Pick(t)}]
      BY <3>3 DEF Summed
    <3>6. h[t] = g[t]
      BY <2>1, <3>4, <3>5
    <3> QED BY <3>6 DEF t
  <2>3. h = Summed(v, UpTo(D, m + 1), h)
    <3>1. h = [s \in UpTo(D, m + 1) |-> IF s = {} THEN 0 ELSE v[Pick(s)].completeness + g[s \ {Pick(s)}]]
      BY DEF Summed
    <3> HIDE DEF h
    <3> QED BY <2>2, <3>1, Zenon DEF Summed
  <2> QED BY <2>3
<1>3. Cardinality(D) \in S
  <2> HIDE DEF S
  <2>1. Nat \subseteq S
    BY <1>1, <1>2, Induction
  <2> QED BY <2>1, FS_CardinalityType
<1>4. UpTo(D, Cardinality(D)) = SUBSET D
  <2>1. ASSUME NEW s \in SUBSET D PROVE Cardinality(s) <= Cardinality(D)
    BY FS_Subset
  <2> QED BY <2>1 DEF UpTo
<1>5. \E g : g = Summed(v, SUBSET D, g)
  BY <1>3, <1>4
<1> DEFINE h == CHOOSE g : g = Summed(v, SUBSET D, g)
<1>6. h = Summed(v, SUBSET D, h)
  BY <1>5
<1>7. TotalCompleteness(v) = h[D]
  BY Zenon DEF TotalCompleteness, MapThenSumSet, MapThenFoldSet, Summed, Pick
<1> QED BY <1>6, <1>7

\* A sum of percentages over the items in s.
Within(v, g, s) ==
  /\ g[s] \in Nat /\ g[s] <= 100 * Cardinality(s)
  /\ (\E i \in s : v[i].completeness < 100) => g[s] < 100 * Cardinality(s)

(* One item short of 100 keeps the sum short of 100 for each item.         *)
LEMMA SumWithin ==
  ASSUME NEW D, IsFiniteSet(D), NEW v, \A i \in D : v[i].completeness \in 0..100,
         NEW g, g = Summed(v, SUBSET D, g)
  PROVE  Within(v, g, D)
<1> DEFINE S == {m \in Nat : \A s \in SUBSET D : Cardinality(s) = m => Within(v, g, s)}
<1>0. \A s \in SUBSET D :
        g[s] = IF s = {} THEN 0 ELSE v[Pick(s)].completeness + g[s \ {Pick(s)}]
  BY Zenon DEF Summed
<1>1. 0 \in S
  <2> SUFFICES ASSUME NEW s \in SUBSET D, Cardinality(s) = 0 PROVE Within(v, g, s)
    OBVIOUS
  <2>1. s = {}
    <3>1. s # {} => Cardinality(s) \in Nat \ {0}
      BY PickOne
    <3> QED BY <3>1
  <2>2. g[s] = 0
    BY <1>0, <2>1
  <2> QED BY <2>1, <2>2 DEF Within
<1>2. ASSUME NEW m \in Nat, m \in S PROVE m + 1 \in S
  <2> SUFFICES ASSUME NEW s \in SUBSET D, Cardinality(s) = m + 1 PROVE Within(v, g, s)
    OBVIOUS
  <2> DEFINE p == Pick(s)
             t == s \ {p}
  <2>1. s # {}
    <3>1. Cardinality({}) = 0
      BY FS_EmptySet
    <3> QED BY <3>1
  <2>2. p \in s /\ t \in SUBSET D /\ Cardinality(t) = m
    <3>1. p \in s /\ t \in SUBSET D /\ Cardinality(t) = Cardinality(s) - 1
      BY <2>1, PickOne
    <3> HIDE DEF t, p
    <3> QED BY <3>1
  <2>3. Within(v, g, t)
    BY <1>2, <2>2
  <2>4. g[s] = v[p].completeness + g[t]
    BY <1>0, <2>1
  <2>5. v[p].completeness \in 0..100
    BY <2>2
  <2>6. ASSUME \E i \in s : v[i].completeness < 100
        PROVE  v[p].completeness < 100 \/ \E i \in t : v[i].completeness < 100
    BY <2>6
  <2> HIDE DEF t, p
  <2>7. g[t] \in Nat /\ g[t] <= 100 * m
        /\ ((\E i \in t : v[i].completeness < 100) => g[t] < 100 * m)
    BY <2>2, <2>3 DEF Within
  <2> QED BY <2>4, <2>5, <2>6, <2>7 DEF Within
<1>3. Cardinality(D) \in S
  <2> HIDE DEF S
  <2>1. Nat \subseteq S
    BY <1>1, <1>2, Induction
  <2> QED BY <2>1, FS_CardinalityType
<1> QED BY <1>3

LEMMA BelowTheWhole ==
  \A t \in Nat, n \in Nat \ {0} : t < 100 * n => t \div n < 100
OBVIOUS

(* The mean of the items is short of 100 as soon as one of them is         *)
(* (PackCompleteness, integer arithmetic that rounds down).                *)
LEMMA MeanFallsShort ==
  ASSUME NEW T, NEW v \in Seq(T), \A i \in DOMAIN v : v[i].completeness \in 0..100,
         NEW i \in DOMAIN v, v[i].completeness < 100
  PROVE  PackCompleteness(v) < 100
<1>1. Len(v) \in Nat \ {0} /\ v # << >> /\ DOMAIN v = 1..Len(v)
  OBVIOUS
<1>2. IsFiniteSet(DOMAIN v) /\ Cardinality(DOMAIN v) = Len(v)
  <2>1. /\ IsFiniteSet(1..Len(v))
        /\ Cardinality(1..Len(v)) = IF 1 > Len(v) THEN 0 ELSE Len(v) - 1 + 1
    BY <1>1, FS_Interval
  <2> QED BY <1>1, <2>1
<1>3. PICK g : /\ g = Summed(v, SUBSET DOMAIN v, g)
               /\ TotalCompleteness(v) = g[DOMAIN v]
  BY <1>2, SumIsSummed
<1>5. Within(v, g, DOMAIN v)
  BY <1>2, <1>3, SumWithin
<1>6. TotalCompleteness(v) \in Nat /\ TotalCompleteness(v) < 100 * Len(v)
  BY <1>2, <1>3, <1>5 DEF Within
<1> QED BY <1>1, <1>6, BelowTheWhole DEF PackCompleteness

(* The worst of some dispositions is one of them, and none is above it.    *)
LEMMA WorstDisposition ==
  ASSUME NEW S \in SUBSET Disposition, S # {}
  PROVE  /\ WorstOf(S, DispositionRank) \in S
         /\ \A t \in S : DispositionRank[t] <= DispositionRank[WorstOf(S, DispositionRank)]
<1>1. \E s \in S : \A t \in S : DispositionRank[t] <= DispositionRank[s]
  <2>1. CASE "BREACH" \in S
    BY <2>1 DEF Disposition, DispositionRank
  <2>2. CASE "BREACH" \notin S /\ "BLOCKED" \in S
    BY <2>2 DEF Disposition, DispositionRank
  <2>3. CASE S \subseteq {"ON_TRACK", "AT_RISK"} /\ "AT_RISK" \in S
    BY <2>3 DEF Disposition, DispositionRank
  <2>4. CASE S = {"ON_TRACK"}
    BY <2>4 DEF DispositionRank
  <2> QED BY <2>1, <2>2, <2>3, <2>4 DEF Disposition
<1> QED BY <1>1, Zenon DEF WorstOf

\* The verdict on an item, by the release rules.
Rated(x) ==
  /\ x.verdict.severity \in Severity /\ x.verdict.disposition \in Disposition
  /\ x.verdict.completeness \in 0..100
  /\ x.verdict.gate = ReleaseBlockers(x.verdict.blockers, x.verdict.completeness)
  /\ x.verdict.approvals = RequiredApprovals("item", instrument, x.verdict.severity)

ItemsRated == \A i \in DOMAIN items : Rated(items[i])

(* The worst of an item's blockers and its clock is a severity.            *)
LEMMA SeverityOfItem ==
  ASSUME NEW blockers, Ranked(blockers), NEW sla \in Clocks
  PROVE  ItemSeverity(blockers, sla) \in Severity
<1> DEFINE S == {"LOW"} \cup {c.severity : c \in blockers}
           H == IF \E c \in blockers : c.kind = "PRIVILEGE_HOLD" THEN {"HIGH"} ELSE {}
           T == {WorstOf(S, SeverityRank), sla.band} \cup H
<1>1. S \in SUBSET Severity /\ S # {}
  BY DEF Ranked, Severity
<1>2. ItemSeverity(blockers, sla) = WorstOf(T, SeverityRank)
  BY Zenon DEF ItemSeverity, WorstSeverity
<1>3. sla.band \in Severity /\ H \in SUBSET Severity
  BY DEF Clocks, Severity
<1> HIDE DEF S, H
<1>4. T \in SUBSET Severity /\ T # {}
  BY <1>1, <1>3, WorstIsWorst
<1> HIDE DEF T
<1> QED BY <1>2, <1>4, WorstIsWorst

LEMMA Percentage ==
  \A m \in Nat, n \in Nat \ {0} : m <= n => (100 * m) \div n \in 0..100
OBVIOUS

(* The completeness of an item is a percentage (rule C3).                  *)
LEMMA CompletenessIsPercentage ==
  ASSUME Asked, phase = "verdict"
  PROVE  Completeness \in 0..100
<1> DEFINE full == {r \in required : Coverage[r] \in Satisfied}
<1>1. IsFiniteSet(required) /\ required # {}
  BY FS_Subset, LadderAssumption DEF Asked
<1>2. full \subseteq required
  OBVIOUS
<1>3. IsFiniteSet(full) /\ Cardinality(full) <= Cardinality(required)
  BY <1>1, <1>2, FS_Subset
<1>4. Cardinality(full) \in Nat /\ Cardinality(required) \in Nat \ {0}
  BY <1>1, <1>3, FS_CardinalityType, FS_EmptySet
<1>5. Completeness = (100 * Cardinality(full)) \div Cardinality(required)
  BY DEF Completeness
<1> HIDE DEF full
<1> QED BY <1>3, <1>4, <1>5, Percentage

LEMMA RatedStep ==
  LadderInv /\ Asked /\ ItemsSound /\ ItemsRated /\ [Next]_vars => ItemsRated'
<1> SUFFICES ASSUME LadderInv, Asked, ItemsSound, ItemsRated, [Next]_vars
             PROVE  ItemsRated'
  OBVIOUS
<1>1. ASSUME instrument' = instrument, NEW x, Rated(x) PROVE Rated(x)'
  BY <1>1 DEF Rated
<1>2. CASE AssessItem
  <2>0. PICK x, more : \E sla \in Clocks : Ranked(more) /\ Assessment(x, sla, more)
    BY <1>2, ItemAssessed
  <2>1. PICK sla \in Clocks : Ranked(more) /\ Assessment(x, sla, more)
    BY <2>0
  <2>2. phase = "verdict" /\ instrument' = instrument
    BY <1>2, ItemAssessed
  <2>3. Ranked(EvidenceBlockers \cup more)
    BY <2>1, EvidenceRanked DEF Ranked
  <2>4. x.verdict.severity \in Severity
    BY <2>1, <2>3, SeverityOfItem DEF Assessment
  <2>5. x.verdict.disposition \in Disposition
    BY <2>1 DEF Assessment, ItemDisposition, Disposition
  <2>6. x.verdict.completeness \in 0..100
    BY <2>1, <2>2, CompletenessIsPercentage DEF Assessment
  <2>7. Rated(x)
    BY <2>1, <2>4, <2>5, <2>6 DEF Rated, Assessment
  <2>8. \A i \in DOMAIN items' :
          items'[i] = x \/ (i \in DOMAIN items /\ items'[i] = items[i])
    BY <2>1, Appended DEF ItemsSound, Assessment
  <2> QED BY <2>2, <2>7, <2>8 DEF ItemsRated, Rated
<1>3. ASSUME UNCHANGED <<items, instrument>> PROVE ItemsRated'
  BY <1>3 DEF ItemsRated, Rated
<1>4. CASE Retrieve \/ Skip \/ Drop \/ Place \/ LadderDone
  BY <1>3, <1>4 DEF Retrieve, Skip, Drop, Place, LadderDone
<1>5. CASE AssemblePack \/ Held \/ UNCHANGED vars
  BY <1>3, <1>5 DEF AssemblePack, Held, vars
<1> QED BY <1>2, <1>4, <1>5 DEF Next

LEMMA VerdictsAre ==
  ASSUME ItemsSound
  PROVE  /\ \E T : Verdicts \in Seq(T)
         /\ DOMAIN Verdicts = DOMAIN items
         /\ \A i \in DOMAIN items : Verdicts[i] = items[i].verdict
<1>1. PICK S : items \in Seq(S)
  BY DEF ItemsSound, IsSequence
<1>2. DOMAIN items = 1..Len(items) /\ Len(items) \in Nat
  BY <1>1
<1> DEFINE T == {items[i].verdict : i \in DOMAIN items}
<1>3. Verdicts \in [1..Len(items) -> T]
  BY <1>2 DEF Verdicts
<1>4. Verdicts \in Seq(T)
  BY <1>2, <1>3
<1> QED BY <1>4 DEF Verdicts

(* The pack of some items is at least as severe, as gated and as           *)
(* controlled as each of them (rules P1, R2 and R3).                       *)
LEMMA RollUp ==
  ASSUME MinCompleteness = 100, "item" \in DualKind => "pack" \in DualKind,
         ItemsSound, ItemsRated, AssemblePack
  PROVE  PackCoversItems'
<1> DEFINE blockers == PackBlockers(Verdicts)
           completeness == PackCompleteness(Verdicts)
           severity == PackSeverity(Verdicts)
<1>1. /\ items' = items /\ items # << >>
      /\ pack'.disposition = PackDisposition(Verdicts)
      /\ pack'.severity = severity
      /\ pack'.gate = ReleaseBlockers(blockers, completeness)
      /\ pack'.approvals = RequiredApprovals("pack", instrument, severity)
  BY DEF AssemblePack
<1>2. PICK T : Verdicts \in Seq(T)
  BY VerdictsAre
<1>3. /\ DOMAIN Verdicts = DOMAIN items
      /\ \A i \in DOMAIN items : Verdicts[i] = items[i].verdict
  BY VerdictsAre
<1> HIDE DEF blockers, completeness, severity
<1> SUFFICES ASSUME NEW i \in DOMAIN items
             PROVE  LET v == items[i].verdict
                    IN /\ SeverityRank[v.severity] <= SeverityRank[pack'.severity]
                       /\ DispositionRank[v.disposition] <= DispositionRank[pack'.disposition]
                       /\ v.gate \subseteq pack'.gate
                       /\ v.approvals <= pack'.approvals
                       /\ pack'.disposition = "ON_TRACK" => v.completeness = 100
  BY <1>1 DEF PackCoversItems
<1> DEFINE v == items[i].verdict
<1>4. Rated(items[i]) /\ Complete(items[i])
  BY DEF ItemsRated, ItemsSound
<1>5. /\ severity \in Severity /\ SeverityRank[v.severity] <= SeverityRank[severity]
  <2> DEFINE S == {"LOW"} \cup {Verdicts[k].severity : k \in DOMAIN Verdicts}
  <2>1. S \in SUBSET Severity /\ S # {} /\ v.severity \in S
    BY <1>3 DEF ItemsRated, Rated, Severity
  <2>2. severity = WorstOf(S, SeverityRank)
    BY DEF severity, PackSeverity
  <2> HIDE DEF S, v
  <2> QED BY <2>1, <2>2, WorstIsWorst
<1>6. /\ pack'.disposition \in Disposition
      /\ DispositionRank[v.disposition] <= DispositionRank[pack'.disposition]
  <2> DEFINE S == {Verdicts[k].disposition : k \in DOMAIN Verdicts}
  <2>1. S \in SUBSET Disposition /\ v.disposition \in S
    BY <1>3 DEF ItemsRated, Rated
  <2>2. Verdicts # << >>
    BY <1>3
  <2>3. pack'.disposition = WorstOf(S, DispositionRank)
    BY <1>1, <2>2 DEF PackDisposition
  <2> HIDE DEF S, v
  <2> QED BY <2>1, <2>3, WorstDisposition
<1>7. v.gate \subseteq pack'.gate
  <2>1. v.blockers \subseteq blockers
    BY <1>3 DEF blockers, PackBlockers
  <2>2. v.completeness < 100 => completeness < 100
    <3>1. \A k \in DOMAIN Verdicts : Verdicts[k].completeness \in 0..100
      BY <1>3 DEF ItemsRated, Rated
    <3> QED BY <1>2, <1>3, <3>1, MeanFallsShort DEF completeness
  <2>3. v.gate = ReleaseBlockers(v.blockers, v.completeness)
    BY <1>4 DEF Rated
  <2> HIDE DEF v
  <2> QED BY <1>1, <2>1, <2>2, <2>3 DEF ReleaseBlockers
<1>8. v.approvals <= pack'.approvals
  <2>1. v.approvals = RequiredApprovals("item", instrument, v.severity) /\ v.severity \in Severity
    BY <1>4 DEF Rated
  <2>2. v.severity = "CRITICAL" => severity = "CRITICAL"
    BY <1>5, <2>1 DEF Severity, SeverityRank
  <2> HIDE DEF v
  <2> QED BY <1>1, <2>1, <2>2 DEF RequiredApprovals
<1>9. ASSUME pack'.disposition = "ON_TRACK" PROVE v.completeness = 100
  <2>1. v.disposition = "ON_TRACK"
    BY <1>4, <1>6, <1>9 DEF Rated, Disposition, DispositionRank
  <2> QED BY <1>4, <2>1 DEF Complete
<1> QED BY <1>1, <1>5, <1>6, <1>7, <1>8, <1>9

\* There is a pack once it is held, and it covers its items.
PackCovers == pack # NoVerdict => phase = "held" /\ PackCoversItems

LEMMA PackStep ==
  ASSUME MinCompleteness = 100, "item" \in DualKind => "pack" \in DualKind
  PROVE  ItemsSound /\ ItemsRated /\ PackCovers /\ [Next]_vars => PackCovers'
<1> SUFFICES ASSUME ItemsSound, ItemsRated, PackCovers, [Next]_vars PROVE PackCovers'
  OBVIOUS
<1>1. CASE AssemblePack
  <2>1. phase' = "held"
    BY <1>1 DEF AssemblePack
  <2> QED BY <1>1, <2>1, RollUp DEF PackCovers
<1>2. CASE phase # "held" /\ pack' = pack
  BY <1>2 DEF PackCovers
<1>3. CASE Retrieve \/ Skip \/ Drop \/ Place \/ LadderDone \/ AssessItem
  BY <1>2, <1>3 DEF Retrieve, Skip, Drop, Place, Looking, LadderDone, AssessItem
<1>4. CASE Held \/ UNCHANGED vars
  BY <1>4 DEF Held, vars, PackCovers, PackCoversItems
<1> QED BY <1>1, <1>3, <1>4 DEF Next

(* Nothing is averaged away in the pack, for any number of items and       *)
(* whatever they are: with the shipped floor of 100, an item short of it   *)
(* gates the pack; and the pack needs as many approvals as each item,      *)
(* where a policy that names items under dual control names packs too.     *)
THEOREM PackNeverEasier ==
  ASSUME MinCompleteness = 100, "item" \in DualKind => "pack" \in DualKind
  PROVE  Spec => []PackCoversItems
<1>1. Spec => []Asked
  BY AskedInit, AskedStep, PTL DEF Spec
<1>2. Init => ItemsRated /\ PackCovers
  <2> SUFFICES ASSUME Init PROVE ItemsRated /\ PackCovers
    OBVIOUS
  <2>1. DOMAIN items = {} /\ pack = NoVerdict
    BY DEF Init
  <2> QED BY <2>1 DEF ItemsRated, PackCovers
<1>3. PackCovers => PackCoversItems
  BY DEF PackCovers, PackCoversItems
<1> QED BY <1>1, <1>2, <1>3, RatedStep, PackStep, ItemsAlways, LadderAlways, PTL DEF Spec

-----------------------------------------------------------------------------
(* Types                                                                   *)

\* What the rest of the invariants leave open of TypeOK.
Typed ==
  /\ phase \in {"item", "ladder", "verdict", "held"}
  /\ instrument \in Instrument
  /\ suppressed \in [total : Nat, classes : SUBSET Artefact]
  /\ waiverOk \in BOOLEAN
  /\ links \subseteq Link
  /\ \A i \in DOMAIN items : IsAssessment(items[i])
  /\ pack \in Verdict \cup {NoVerdict}

LEMMA RaiseTyped ==
  ASSUME NEW c, NEW k \in BlockerKind, NEW s \in Severity,
         NEW t \in DocId \cup Artefact \cup {"item"}
  PROVE  Raise(c, k, s, t) \subseteq Blocker
BY DEF Raise, Blocker

LEMMA EvidenceTyped ==
  ASSUME LadderInv, Asked
  PROVE  EvidenceBlockers \subseteq Blocker
<1>1. ASSUME NEW l \in links PROVE l.doc.id \in DocId
  <2>1. l.doc \in Arrived /\ candidates \in Seq(Doc)
    BY DEF LadderInv, Decided, Walk
  <2>2. l.doc \in Doc
    BY <2>1 DEF Arrived
  <2> QED BY <2>2, LadderAssumption
<1>2. /\ {"MISSING_ARTEFACT", "DENIED_NO_ENTITLEMENT", "PRIVILEGE_HOLD",
           "RESTRICTED_TRANSFER", "STALE_EVIDENCE"} \subseteq BlockerKind
      /\ {"CRITICAL", "HIGH", "MEDIUM"} \subseteq Severity
  BY DEF BlockerKind, Severity
<1>3. WithholdBlockers \subseteq Blocker
  <2>1. ASSUME NEW l \in links
        PROVE  /\ Raise(l.status = "WITHHELD_PRIVILEGED", "PRIVILEGE_HOLD", "HIGH",
                        l.doc.id) \subseteq Blocker
               /\ Raise(l.status = "WITHHELD_RESTRICTED_TRANSFER",
                        "RESTRICTED_TRANSFER", "HIGH", l.doc.id) \subseteq Blocker
    BY <1>1, <1>2, RaiseTyped
  <2> QED BY <2>1 DEF WithholdBlockers
<1>4. /\ Raise(Leaked # {}, "DENIED_NO_ENTITLEMENT", "CRITICAL", "item") \subseteq Blocker
      /\ Raise(suppressed.total > 0, "DENIED_NO_ENTITLEMENT", "HIGH", "item") \subseteq Blocker
  BY <1>2, RaiseTyped
<1>5. ASSUME NEW a \in required
      PROVE  /\ Raise(Coverage[a] = "MISSING", "MISSING_ARTEFACT", "HIGH", a) \subseteq Blocker
             /\ Raise(Has(a, {"STALE"}), "STALE_EVIDENCE", "MEDIUM", a) \subseteq Blocker
  BY <1>2, RaiseTyped DEF Asked
<1> QED BY <1>3, <1>4, <1>5 DEF EvidenceBlockers

LEMMA TextTyped == ASSUME NEW text \in TextFindings PROVE text \subseteq Blocker
BY DEF TextFindings, Raise, Blocker, BlockerKind, Severity

(* What the release rules make of typed blockers is a verdict.             *)
LEMMA VerdictTyped ==
  ASSUME NEW blockers \in SUBSET Blocker, NEW completeness \in 0..100,
         NEW disposition \in Disposition, NEW severity \in Severity,
         NEW decision \in {"ALLOWED", "ESCALATED"}, NEW kind
  PROVE  [disposition |-> disposition, severity |-> severity, decision |-> decision,
          blockers |-> blockers, completeness |-> completeness,
          gate |-> ReleaseBlockers(blockers, completeness),
          approvals |-> RequiredApprovals(kind, instrument, severity)] \in Verdict
<1>1. ReleaseBlockers(blockers, completeness) \in SUBSET BlockerKind
  BY DEF ReleaseBlockers, Blocker, BlockerKind
<1>2. RequiredApprovals(kind, instrument, severity) \in {1, 2}
  BY DEF RequiredApprovals
<1> QED BY <1>1, <1>2 DEF Verdict

LEMMA AssessmentTyped ==
  ASSUME LadderInv, Asked, Typed, AssessItem
  PROVE  \E x : items' = Append(items, x) /\ IsAssessment(x)
<1>1. PICK sla \in Clocks, owned \in BOOLEAN, text \in TextFindings :
        LET blockers == EvidenceBlockers
              \cup Raise(sla.breached, "DEADLINE_BREACH", "CRITICAL", "item")
              \cup Raise(~owned, "NO_OWNER", "MEDIUM", "item")
              \cup text
            severity == ItemSeverity(blockers, sla)
        IN items' = Append(items,
             [links |-> links, coverage |-> Coverage, accepted |-> AcceptedRows,
              verdict |->
               [disposition |-> ItemDisposition(blockers, sla,
                                                {l.status : l \in links}),
                severity |-> severity,
                decision |-> IF Escalates(severity) THEN "ESCALATED" ELSE "ALLOWED",
                blockers |-> blockers,
                completeness |-> Completeness,
                gate |-> ReleaseBlockers(blockers, Completeness),
                approvals |-> RequiredApprovals("item", instrument, severity)]])
  BY DEF AssessItem
<1> DEFINE blockers == EvidenceBlockers
                         \cup Raise(sla.breached, "DEADLINE_BREACH", "CRITICAL", "item")
                         \cup Raise(~owned, "NO_OWNER", "MEDIUM", "item")
                         \cup text
           severity == ItemSeverity(blockers, sla)
           disposition == ItemDisposition(blockers, sla, {l.status : l \in links})
           decision == IF Escalates(severity) THEN "ESCALATED" ELSE "ALLOWED"
           verdict == [disposition |-> disposition, severity |-> severity,
                       decision |-> decision, blockers |-> blockers,
                       completeness |-> Completeness,
                       gate |-> ReleaseBlockers(blockers, Completeness),
                       approvals |-> RequiredApprovals("item", instrument, severity)]
           x == [links |-> links, coverage |-> Coverage, accepted |-> AcceptedRows,
                 verdict |-> verdict]
<1>2. items' = Append(items, x)
  BY <1>1, Zenon
<1>3. blockers \in SUBSET Blocker
  <2>1. /\ Raise(sla.breached, "DEADLINE_BREACH", "CRITICAL", "item") \subseteq Blocker
        /\ Raise(~owned, "NO_OWNER", "MEDIUM", "item") \subseteq Blocker
    BY DEF Raise, Blocker, BlockerKind, Severity
  <2> QED BY <2>1, EvidenceTyped, TextTyped
<1> HIDE DEF blockers
<1>4. severity \in Severity
  <2>1. Ranked(blockers)
    BY <1>3 DEF Ranked, Blocker
  <2> QED BY <2>1, SeverityOfItem
<1>5. disposition \in Disposition
  BY DEF ItemDisposition, Disposition
<1>6. decision \in {"ALLOWED", "ESCALATED"}
  OBVIOUS
<1>7. Completeness \in 0..100
  BY CompletenessIsPercentage DEF AssessItem
<1> HIDE DEF severity, disposition, decision
<1>8. verdict \in Verdict
  BY <1>3, <1>4, <1>5, <1>6, <1>7, VerdictTyped
<1> HIDE DEF verdict
<1>9. DOMAIN Coverage = required /\ \A a \in required : Coverage[a] \in CoverageState
  BY CoverageSays DEF Coverage
<1>10. DOMAIN AcceptedRows = required /\ \A a \in required : AcceptedRows[a] \subseteq Doc
  <2>1. \A l \in links : l.doc \in Doc
    BY DEF Typed, Link
  <2>2. \A a : {l.doc : l \in Listed(a)} \subseteq Doc
    BY <2>1 DEF Listed, Accepted
  <2>3. \A a \in required : AcceptedRows[a] = {l.doc : l \in Listed(a)}
    BY Zenon DEF AcceptedRows
  <2>4. DOMAIN AcceptedRows = required
    BY Zenon DEF AcceptedRows
  <2> QED BY <2>2, <2>3, <2>4
<1>11. IsAssessment(x)
  BY <1>8, <1>9, <1>10 DEF IsAssessment, Typed, Asked
<1> QED BY <1>2, <1>11

LEMMA MeanOfPercentages ==
  \A t \in Nat, n \in Nat \ {0} : t <= 100 * n => t \div n \in 0..100
OBVIOUS

(* The mean of the items' percentages is one.                              *)
LEMMA MeanIsPercentage ==
  ASSUME NEW T, NEW v \in Seq(T), v # << >>,
         \A i \in DOMAIN v : v[i].completeness \in 0..100
  PROVE  PackCompleteness(v) \in 0..100
<1>1. Len(v) \in Nat \ {0} /\ DOMAIN v = 1..Len(v)
  OBVIOUS
<1>2. IsFiniteSet(DOMAIN v) /\ Cardinality(DOMAIN v) = Len(v)
  <2>1. /\ IsFiniteSet(1..Len(v))
        /\ Cardinality(1..Len(v)) = IF 1 > Len(v) THEN 0 ELSE Len(v) - 1 + 1
    BY <1>1, FS_Interval
  <2> QED BY <1>1, <2>1
<1>3. PICK g : /\ g = Summed(v, SUBSET DOMAIN v, g)
               /\ TotalCompleteness(v) = g[DOMAIN v]
  BY <1>2, SumIsSummed
<1>4. Within(v, g, DOMAIN v)
  BY <1>2, <1>3, SumWithin
<1>5. TotalCompleteness(v) \in Nat /\ TotalCompleteness(v) <= 100 * Len(v)
  BY <1>2, <1>3, <1>4 DEF Within
<1> QED BY <1>1, <1>5, MeanOfPercentages DEF PackCompleteness

LEMMA PackTyped ==
  ASSUME ItemsSound, Typed, AssemblePack
  PROVE  pack' \in Verdict
<1> DEFINE blockers == PackBlockers(Verdicts)
           completeness == PackCompleteness(Verdicts)
           severity == PackSeverity(Verdicts)
           disposition == PackDisposition(Verdicts)
<1>1. /\ items # << >>
      /\ pack' = [disposition |-> disposition, severity |-> severity,
                  decision |-> "ESCALATED", blockers |-> blockers,
                  completeness |-> completeness,
                  gate |-> ReleaseBlockers(blockers, completeness),
                  approvals |-> RequiredApprovals("pack", instrument, severity)]
  BY DEF AssemblePack
<1>2. PICK T : Verdicts \in Seq(T)
  BY VerdictsAre
<1>3. DOMAIN Verdicts = DOMAIN items /\ \A i \in DOMAIN items : Verdicts[i] \in Verdict
  BY VerdictsAre DEF Typed, IsAssessment
<1>4. Verdicts # << >> /\ DOMAIN Verdicts # {}
  <2>1. DOMAIN items # {}
    <3>1. PICK S : items \in Seq(S)
      BY DEF ItemsSound, IsSequence
    <3>2. Len(items) \in Nat \ {0} /\ DOMAIN items = 1..Len(items)
      BY <1>1, <3>1
    <3> QED BY <3>2
  <2> QED BY <1>3, <2>1
<1>5. blockers \in SUBSET Blocker
  BY <1>3 DEF PackBlockers, Verdict
<1>6. completeness \in 0..100
  <2>1. \A i \in DOMAIN Verdicts : Verdicts[i].completeness \in 0..100
    BY <1>3 DEF Verdict
  <2> QED BY <1>2, <1>4, <2>1, MeanIsPercentage
<1>7. severity \in Severity
  <2> DEFINE S == {"LOW"} \cup {Verdicts[k].severity : k \in DOMAIN Verdicts}
  <2>1. S \in SUBSET Severity /\ S # {}
    BY <1>3 DEF Verdict, Severity
  <2>2. severity = WorstOf(S, SeverityRank)
    BY DEF PackSeverity
  <2> HIDE DEF S
  <2> QED BY <2>1, <2>2, WorstIsWorst
<1>8. disposition \in Disposition
  <2> DEFINE S == {Verdicts[k].disposition : k \in DOMAIN Verdicts}
  <2>1. S \in SUBSET Disposition /\ S # {}
    BY <1>3, <1>4 DEF Verdict
  <2>2. disposition = WorstOf(S, DispositionRank)
    BY <1>4 DEF PackDisposition
  <2> HIDE DEF S
  <2> QED BY <2>1, <2>2, WorstDisposition
<1> HIDE DEF blockers, completeness, severity, disposition
<1> QED BY <1>1, <1>5, <1>6, <1>7, <1>8, VerdictTyped

LEMMA TypedStep ==
  LadderInv /\ Asked /\ ItemsSound /\ Typed /\ [Next]_vars => Typed'
<1> SUFFICES ASSUME LadderInv, Asked, ItemsSound, Typed, [Next]_vars PROVE Typed'
  OBVIOUS
<1>1. CASE Retrieve
  <2>1. suppressed' \in [total : Nat, classes : SUBSET Artefact]
    <3>1. suppressed' \in Refusals
      BY <1>1 DEF Retrieve
    <3> QED BY <3>1, LadderAssumption DEF Refusals
  <2> QED BY <1>1, <2>1 DEF Retrieve, Typed
<1>2. CASE Skip \/ Drop \/ LadderDone \/ Held \/ UNCHANGED vars
  BY <1>2 DEF Skip, Drop, LadderDone, Held, vars, Typed
<1>3. CASE Place
  <2>1. Candidate \in Doc
    BY <1>3 DEF Place, Looking, Candidate, LadderInv, Walk
  <2>2. links' \subseteq Link
    BY <1>3, <2>1, VerdictIsAStatus DEF Place, Typed, Link
  <2> QED BY <1>3, <2>2 DEF Place, Typed
<1>4. CASE AssessItem
  <2>1. PICK x : items' = Append(items, x) /\ IsAssessment(x)
    BY <1>4, AssessmentTyped
  <2>2. \A i \in DOMAIN items' :
          items'[i] = x \/ (i \in DOMAIN items /\ items'[i] = items[i])
    BY <2>1, Appended DEF ItemsSound
  <2>3. \A i \in DOMAIN items' : IsAssessment(items'[i])
    BY <2>1, <2>2 DEF Typed
  <2> QED BY <1>4, <2>3 DEF AssessItem, Typed, IsAssessment
<1>5. CASE AssemblePack
  BY <1>5, PackTyped DEF AssemblePack, Typed, IsAssessment
<1> QED BY <1>1, <1>2, <1>3, <1>4, <1>5 DEF Next

(* Every verdict on an item or a pack is one of the release rules', over   *)
(* blockers of the kinds the checker knows and with a percentage, for any  *)
(* number of candidates and items (assess_evidence, release_engine).       *)
THEOREM LadderTypeCorrect == Spec => []TypeOK
<1>1. ASSUME Init PROVE Typed
  <2>1. DOMAIN items = {}
    BY <1>1 DEF Init
  <2>2. suppressed \in [total : Nat, classes : SUBSET Artefact]
    BY <1>1 DEF Init
  <2> QED BY <1>1, <2>1, <2>2 DEF Init, Typed
<1>2. LadderInv /\ Asked /\ Typed => TypeOK
  BY DEF LadderInv, Walk, Accounted, Asked, Typed, TypeOK
<1>3. Spec => []Asked
  BY AskedInit, AskedStep, PTL DEF Spec
<1>4. Spec => []Typed
  BY <1>1, <1>3, TypedStep, LadderAlways, ItemsAlways, PTL DEF Spec
<1> QED BY <1>2, <1>3, <1>4, LadderAlways, PTL

-----------------------------------------------------------------------------
(* PART TWO: what the ports feed the ladder with                           *)

\* The recursion of FlattenSeq up to m: f[i] is the first i sequences in a row.
Joined(seqs, m, f) ==
  [i \in 1..m |-> IF i = 1 THEN seqs[i] ELSE f[i - 1] \o seqs[i]]

(* FlattenSeq is the last value of the function it recurs on.              *)
LEMMA FlattenIsJoined ==
  ASSUME NEW seqs, Len(seqs) \in Nat \ {0}
  PROVE  \E f : f = Joined(seqs, Len(seqs), f) /\ FlattenSeq(seqs) = f[Len(seqs)]
<1> DEFINE S == {m \in Nat : \E f : f = Joined(seqs, m, f)}
<1>1. 0 \in S
  <2>1. << >> = Joined(seqs, 0, << >>)
    BY DEF Joined
  <2> QED BY <2>1
<1>2. ASSUME NEW m \in Nat, m \in S PROVE m + 1 \in S
  <2>1. PICK f : f = Joined(seqs, m, f)
    BY <1>2
  <2> DEFINE g == Joined(seqs, m + 1, f)
  <2>2. ASSUME NEW i \in 1..(m + 1), i # 1 PROVE g[i - 1] = f[i - 1]
    <3>1. i - 1 \in 1..m /\ i - 1 \in 1..(m + 1)
      BY <2>2
    <3>2. g[i - 1] = IF i - 1 = 1 THEN seqs[i - 1] ELSE f[i - 1 - 1] \o seqs[i - 1]
      BY <3>1 DEF Joined
    <3>3. Joined(seqs, m, f)[i - 1] =
            IF i - 1 = 1 THEN seqs[i - 1] ELSE f[i - 1 - 1] \o seqs[i - 1]
      BY <3>1 DEF Joined
    <3> QED BY <2>1, <3>2, <3>3
  <2>3. g = Joined(seqs, m + 1, g)
    <3>1. g = [i \in 1..(m + 1) |-> IF i = 1 THEN seqs[i] ELSE f[i - 1] \o seqs[i]]
      BY DEF Joined
    <3> HIDE DEF g
    <3> QED BY <2>2, <3>1, Zenon DEF Joined
  <2> QED BY <2>3
<1>3. Len(seqs) \in S
  <2> HIDE DEF S
  <2>1. Nat \subseteq S
    BY <1>1, <1>2, Induction
  <2> QED BY <2>1
<1>4. \E f : f = Joined(seqs, Len(seqs), f)
  BY <1>3
<1> DEFINE h == CHOOSE f : f = Joined(seqs, Len(seqs), f)
<1>5. h = Joined(seqs, Len(seqs), h)
  BY <1>4
<1>6. FlattenSeq(seqs) = h[Len(seqs)]
  BY Zenon DEF FlattenSeq, Joined
<1> QED BY <1>5, <1>6

(* What two sequences in a row have between them.                          *)
LEMMA JoinedSet ==
  ASSUME NEW T, NEW s \in Seq(T), NEW t \in Seq(T)
  PROVE  s \o t \in Seq(T) /\ ToSet(s \o t) = ToSet(s) \cup ToSet(t)
<1> DEFINE all == s \o t
<1>1. /\ all \in Seq(T) /\ Len(all) = Len(s) + Len(t)
      /\ \A k \in 1..Len(all) : all[k] = IF k <= Len(s) THEN s[k] ELSE t[k - Len(s)]
      /\ Len(s) \in Nat /\ Len(t) \in Nat
      /\ DOMAIN s = 1..Len(s) /\ DOMAIN t = 1..Len(t) /\ DOMAIN all = 1..Len(all)
  OBVIOUS
<1> HIDE DEF all
<1>2. \A k \in DOMAIN s : k \in DOMAIN all /\ all[k] = s[k]
  BY <1>1
<1>3. ASSUME NEW x \in DOMAIN t
      PROVE  Len(s) + x \in DOMAIN all /\ all[Len(s) + x] = t[x]
  <2>1. /\ Len(s) + x \in 1..Len(all) /\ ~(Len(s) + x <= Len(s))
        /\ (Len(s) + x) - Len(s) = x
    BY <1>1
  <2> QED BY <1>1, <2>1
<1>4. \A k \in DOMAIN all :
         \/ k \in DOMAIN s /\ all[k] = s[k]
         \/ k - Len(s) \in DOMAIN t /\ all[k] = t[k - Len(s)]
  BY <1>1
<1>5. ToSet(all) \subseteq ToSet(s) \cup ToSet(t)
  BY <1>4 DEF ToSet
<1>6. ToSet(s) \subseteq ToSet(all)
  BY <1>2 DEF ToSet
<1>7. ToSet(t) \subseteq ToSet(all)
  BY <1>3 DEF ToSet
<1> QED BY <1>1, <1>5, <1>6, <1>7 DEF all

\* rows has what the first m sequences have.
Flat(T, seqs, m, rows) ==
  /\ rows \in Seq(T)
  /\ \A x : x \in ToSet(rows) <=> \E i \in 1..m : x \in ToSet(seqs[i])

LEMMA FlatNext ==
  ASSUME NEW T, NEW seqs \in Seq(Seq(T)), NEW m \in Nat, m + 1 \in 1..Len(seqs),
         NEW rows, Flat(T, seqs, m, rows)
  PROVE  Flat(T, seqs, m + 1, rows \o seqs[m + 1])
<1> DEFINE last == seqs[m + 1]
<1>1. rows \in Seq(T) /\ last \in Seq(T)
  BY DEF Flat
<1> HIDE DEF last
<1>2. /\ rows \o last \in Seq(T)
      /\ ToSet(rows \o last) = ToSet(rows) \cup ToSet(last)
  BY <1>1, JoinedSet
<1>3. 1..(m + 1) = (1..m) \cup {m + 1}
  OBVIOUS
<1>4. \A x : x \in ToSet(rows) <=> \E i \in 1..m : x \in ToSet(seqs[i])
  BY DEF Flat
<1>5. \A x : x \in ToSet(rows \o last)
               <=> \E i \in 1..(m + 1) : x \in ToSet(seqs[i])
  BY <1>2, <1>3, <1>4, Zenon DEF last
<1> QED BY <1>2, <1>5 DEF Flat, last

(* FlattenSeq loses nothing and adds nothing.                              *)
LEMMA FlattenIsFlat ==
  ASSUME NEW T, NEW seqs \in Seq(Seq(T))
  PROVE  /\ FlattenSeq(seqs) \in Seq(T)
         /\ \A x : x \in ToSet(FlattenSeq(seqs)) <=>
                    \E i \in DOMAIN seqs : x \in ToSet(seqs[i])
<1>1. CASE seqs = << >>
  <2>1. FlattenSeq(seqs) = << >>
    <3>1. Len(seqs) = 0
      BY <1>1
    <3> QED BY <1>1, <3>1, Zenon DEF FlattenSeq
  <2>2. DOMAIN seqs = {} /\ ToSet(<< >>) = {}
    BY <1>1 DEF ToSet
  <2> QED BY <2>1, <2>2
<1>2. CASE seqs # << >>
  <2>1. Len(seqs) \in Nat \ {0} /\ DOMAIN seqs = 1..Len(seqs)
    BY <1>2
  <2>2. PICK f : f = Joined(seqs, Len(seqs), f) /\ FlattenSeq(seqs) = f[Len(seqs)]
    BY <2>1, FlattenIsJoined
  <2>3. \A i \in 1..Len(seqs) : f[i] = IF i = 1 THEN seqs[i] ELSE f[i - 1] \o seqs[i]
    BY <2>2 DEF Joined
  <2> DEFINE S == {m \in Nat : m + 1 <= Len(seqs) => Flat(T, seqs, m + 1, f[m + 1])}
  <2>4. 0 \in S
    <3>1. f[1] = seqs[1] /\ 1 \in 1..Len(seqs) /\ seqs[1] \in Seq(T) /\ 1..1 = {1}
      BY <2>1, <2>3
    <3>2. Flat(T, seqs, 1, f[1])
      BY <3>1 DEF Flat
    <3> QED BY <3>2
  <2>5. ASSUME NEW m \in Nat, m \in S PROVE m + 1 \in S
    <3> SUFFICES ASSUME (m + 1) + 1 <= Len(seqs)
                 PROVE  Flat(T, seqs, (m + 1) + 1, f[(m + 1) + 1])
      OBVIOUS
    <3>1. m + 1 \in Nat /\ m + 1 <= Len(seqs) /\ (m + 1) + 1 \in 1..Len(seqs)
          /\ (m + 1) + 1 # 1 /\ ((m + 1) + 1) - 1 = m + 1
      BY <2>1
    <3>2. Flat(T, seqs, m + 1, f[m + 1])
      BY <2>5, <3>1
    <3>3. f[(m + 1) + 1] = f[m + 1] \o seqs[(m + 1) + 1]
      BY <2>3, <3>1
    <3> QED BY <3>1, <3>2, <3>3, FlatNext
  <2>6. Len(seqs) - 1 \in S
    <3> HIDE DEF S
    <3>1. Nat \subseteq S
      BY <2>4, <2>5, Induction
    <3> QED BY <2>1, <3>1
  <2>7. (Len(seqs) - 1) + 1 = Len(seqs)
    BY <2>1
  <2>8. Flat(T, seqs, Len(seqs), f[Len(seqs)])
    BY <2>1, <2>6, <2>7
  <2> QED BY <2>1, <2>2, <2>8 DEF Flat
<1> QED BY <1>1, <1>2

(* Among keeps exactly the documents of the set.                           *)
LEMMA AmongIsExact ==
  ASSUME NEW T, NEW docs \in Seq(T), NEW S
  PROVE  /\ Among(docs, S) \in Seq(T)
         /\ ToSet(Among(docs, S)) = ToSet(docs) \cap S
<1> DEFINE seqs == [i \in DOMAIN docs |-> IF docs[i] \in S THEN <<docs[i]>> ELSE << >>]
<1>1. Len(docs) \in Nat /\ DOMAIN docs = 1..Len(docs)
  OBVIOUS
<1>2. \A i \in DOMAIN docs : <<docs[i]>> \in Seq(T) /\ << >> \in Seq(T)
  BY <1>1
<1>3. seqs \in [1..Len(docs) -> Seq(T)]
  BY <1>1, <1>2
<1>4. seqs \in Seq(Seq(T))
  <2> DEFINE U == Seq(T)
  <2> HIDE DEF U
  <2>1. seqs \in [1..Len(docs) -> U]
    BY <1>3 DEF U
  <2> HIDE DEF seqs
  <2>2. seqs \in Seq(U)
    BY <1>1, <2>1
  <2> QED BY <2>2 DEF U
<1>5. Among(docs, S) = FlattenSeq(seqs)
  BY DEF Among
<1>6. DOMAIN seqs = DOMAIN docs
      /\ \A i \in DOMAIN docs : seqs[i] = IF docs[i] \in S THEN <<docs[i]>> ELSE << >>
  BY Zenon
<1> HIDE DEF seqs
<1>7. \A x : ToSet(<<x>>) = {x}
  <2>1. \A x : DOMAIN <<x>> = {1} /\ <<x>>[1] = x
    OBVIOUS
  <2> QED BY <2>1 DEF ToSet
<1>8. ToSet(<< >>) = {}
  <2>1. DOMAIN << >> = {}
    OBVIOUS
  <2> QED BY <2>1 DEF ToSet
<1>9. \A i \in DOMAIN docs : ToSet(seqs[i]) = {docs[i]} \cap S
  <2>1. TAKE i \in DOMAIN docs
  <2>2. CASE docs[i] \in S
    BY <1>6, <1>7, <2>2
  <2>3. CASE docs[i] \notin S
    BY <1>6, <1>8, <2>3
  <2> QED BY <2>2, <2>3
<1>10. \A x : (\E i \in DOMAIN docs : x \in ToSet(seqs[i]))
                <=> x \in ToSet(docs) /\ x \in S
  BY <1>9 DEF ToSet
<1>11. /\ FlattenSeq(seqs) \in Seq(T)
       /\ \A x : x \in ToSet(FlattenSeq(seqs)) <=> \E i \in DOMAIN docs : x \in ToSet(seqs[i])
  BY <1>4, <1>6, FlattenIsFlat
<1> QED BY <1>5, <1>10, <1>11

-----------------------------------------------------------------------------
\* A question of a request that may arrive.
Arrives(r, q) == r \in Request /\ q \in ToSet(r.questions)

LEMMA QuestionPosed ==
  ASSUME NEW r, NEW q, Arrives(r, q)
  PROVE  q \in Posed /\ q.topic \in Topic /\ q.requested \subseteq Artefact
<1>1. q \in Posed
  BY DEF Arrives, Posed
<1> QED BY <1>1, RetrievalAssumption

LEMMA ObligationsAre ==
  ASSUME NEW r, NEW q
  PROVE  Obligations(r, q) \in Seq(Duty)
<1>1. << >> \in Seq(Duty)
  OBVIOUS
<1> DEFINE x == <<q.topic, r.jurisdiction>>
<1>2. CASE x \in DOMAIN Register
  <2>1. Register[x] \in Seq(Duty)
    BY <1>2, RetrievalAssumption
  <2> QED BY <1>2, <2>1, Zenon DEF Obligations, ObligationsFor
<1>3. CASE x \notin DOMAIN Register
  BY <1>1, <1>3, Zenon DEF Obligations, ObligationsFor
<1> QED BY <1>2, <1>3

LEMMA Declared ==
  ASSUME NEW r, NEW q, Arrives(r, q)
  PROVE  \E declared \in SUBSET Artefact : Decomposed(r, q) = Decompose(declared)
<1> DEFINE duties == UNION {o.requires : o \in ToSet(Obligations(r, q))}
           declared == q.requested \cup RequiredArtefacts[q.topic] \cup duties
<1>1. ToSet(Obligations(r, q)) \subseteq Duty
  <2> DEFINE s == Obligations(r, q)
  <2>1. s \in Seq(Duty)
    BY ObligationsAre
  <2> HIDE DEF s
  <2>2. \A i \in DOMAIN s : s[i] \in Duty
    BY <2>1
  <2> QED BY <2>2 DEF s, ToSet
<1>2. duties \subseteq Artefact
  BY <1>1, RetrievalAssumption
<1>3. declared \subseteq Artefact
  BY <1>2, QuestionPosed, RetrievalAssumption
<1>4. Decomposed(r, q) = Decompose(declared)
  BY DEF Decomposed
<1> QED BY <1>3, <1>4

(* What search reads and what it refuses: the documents of the topic and   *)
(* of a class asked for, within the caller's entitlements or not.          *)
LEMMA StoreAnswers ==
  ASSUME NEW r, NEW q, Arrives(r, q)
  PROVE  /\ Entitled(r, q) \in Seq(Stored) /\ Refused(r, q) \in Seq(Stored)
         /\ \A d : d \in ToSet(Entitled(r, q)) <=>
              d \in ToSet(Corpus[q.topic]) /\ d.artefact \in Decomposed(r, q) /\ Readable(r, d)
         /\ \A d : d \in ToSet(Refused(r, q)) <=>
              d \in ToSet(Corpus[q.topic]) /\ d.artefact \in Decomposed(r, q) /\ ~Readable(r, d)
<1>1. q.topic \in Topic
  BY QuestionPosed
<1>2. Corpus[q.topic] \in Seq(Stored)
  BY <1>1, RetrievalAssumption
<1>3. ToSet(Corpus[q.topic]) \subseteq Stored
  BY <1>1 DEF Stored
<1>4. /\ Matching(r, q) \in Seq(Stored)
      /\ \A d : d \in ToSet(Matching(r, q)) <=>
           d \in ToSet(Corpus[q.topic]) /\ d.artefact \in Decomposed(r, q)
  <2> DEFINE S == {d \in Stored : d.artefact \in Decomposed(r, q)}
  <2>1. /\ Among(Corpus[q.topic], S) \in Seq(Stored)
        /\ ToSet(Among(Corpus[q.topic], S)) = ToSet(Corpus[q.topic]) \cap S
    BY <1>2, AmongIsExact
  <2> QED BY <1>3, <2>1 DEF Matching
<1>5. /\ Entitled(r, q) \in Seq(Stored)
      /\ \A d : d \in ToSet(Entitled(r, q)) <=> d \in ToSet(Matching(r, q)) /\ Readable(r, d)
  <2> DEFINE S == {d \in Stored : Readable(r, d)}
  <2>1. /\ Among(Matching(r, q), S) \in Seq(Stored)
        /\ ToSet(Among(Matching(r, q), S)) = ToSet(Matching(r, q)) \cap S
    BY <1>4, AmongIsExact
  <2> QED BY <1>3, <1>4, <2>1 DEF Entitled
<1>6. /\ Refused(r, q) \in Seq(Stored)
      /\ \A d : d \in ToSet(Refused(r, q)) <=> d \in ToSet(Matching(r, q)) /\ ~Readable(r, d)
  <2> DEFINE S == {d \in Stored : ~Readable(r, d)}
  <2>1. /\ Among(Matching(r, q), S) \in Seq(Stored)
        /\ ToSet(Among(Matching(r, q), S)) = ToSet(Matching(r, q)) \cap S
    BY <1>4, AmongIsExact
  <2> QED BY <1>3, <1>4, <2>1 DEF Refused
<1> QED BY <1>4, <1>5, <1>6

(* The page loses nothing unless it is as long as the limit.               *)
LEMMA PageIsFirst ==
  ASSUME NEW r, NEW q, Arrives(r, q)
  PROVE  /\ Page(r, q) \in Seq(Stored)
         /\ ToSet(Page(r, q)) \subseteq ToSet(Entitled(r, q))
         /\ Len(Page(r, q)) # Limit => ToSet(Page(r, q)) = ToSet(Entitled(r, q))
<1> DEFINE docs == Entitled(r, q)
           I == {k \in DOMAIN docs : k <= Limit}
<1>1. docs \in Seq(Stored) /\ Limit \in Nat \ {0}
  BY StoreAnswers, RetrievalAssumption
<1>2. Page(r, q) = [i \in I |-> docs[i]]
  BY DEF Page
<1> HIDE DEF docs
<1>3. Len(docs) \in Nat /\ DOMAIN docs = 1..Len(docs) /\ \A k \in DOMAIN docs : docs[k] \in Stored
  BY <1>1
<1> DEFINE n == IF Len(docs) <= Limit THEN Len(docs) ELSE Limit
<1>4. I = 1..n /\ n \in Nat /\ 1..n \subseteq DOMAIN docs
  BY <1>1, <1>3
<1>5. n # Limit => 1..n = DOMAIN docs
  BY <1>1, <1>3
<1> HIDE DEF I, n
<1> DEFINE page == [i \in I |-> docs[i]]
<1>6. page \in [1..n -> Stored]
  BY <1>3, <1>4
<1>7. DOMAIN page = 1..n /\ \A i \in 1..n : page[i] = docs[i]
  BY <1>4
<1> HIDE DEF page
<1>8. page \in Seq(Stored) /\ Len(page) = n
  BY <1>4, <1>6
<1>9. ToSet(page) \subseteq ToSet(docs)
  BY <1>4, <1>7 DEF ToSet
<1>10. n # Limit => ToSet(page) = ToSet(docs)
  BY <1>5, <1>7 DEF ToSet
<1> QED BY <1>2, <1>8, <1>9, <1>10 DEF page, docs

LEMMA PacksAreStored ==
  ASSUME NEW o
  PROVE  PacksOf(o) \in Seq(Stored)
<1>1. CASE o.id \in DOMAIN PacksFor
  <2> DEFINE refs == PacksFor[o.id]
             seqs == [i \in DOMAIN refs |-> Packs[refs[i]]]
  <2>1. refs \in Seq(DOMAIN Packs)
    BY <1>1, RetrievalAssumption
  <2>2. PacksOf(o) = FlattenSeq(seqs)
    BY <1>1, Zenon DEF PacksOf
  <2> HIDE DEF refs
  <2>3. Len(refs) \in Nat /\ DOMAIN refs = 1..Len(refs) /\ \A i \in DOMAIN refs : refs[i] \in DOMAIN Packs
    BY <2>1
  <2> DEFINE U == Seq(Stored)
  <2>4. \A i \in DOMAIN refs : Packs[refs[i]] \in U
    BY <2>3, RetrievalAssumption
  <2> HIDE DEF U
  <2>5. seqs \in [1..Len(refs) -> U]
    BY <2>3, <2>4
  <2> HIDE DEF seqs
  <2>6. seqs \in Seq(U)
    BY <2>3, <2>5
  <2>7. seqs \in Seq(Seq(Stored))
    BY <2>6 DEF U
  <2> QED BY <2>2, <2>7, FlattenIsFlat
<1>2. CASE o.id \notin DOMAIN PacksFor
  <2>1. PacksOf(o) = << >>
    BY <1>2, Zenon DEF PacksOf
  <2> QED BY <2>1
<1> QED BY <1>1, <1>2

LEMMA PackCandidatesAreStored ==
  ASSUME NEW r, NEW q, PackKnown(q)
  PROVE  PackCandidates(r, q) \in Seq(Stored)
<1> DEFINE named == IF q.packRef = NoRef THEN << >> ELSE Packs[q.packRef]
           os == Obligations(r, q)
           seqs == [i \in DOMAIN os |-> PacksOf(os[i])]
<1>1. named \in Seq(Stored)
  <2>1. CASE q.packRef = NoRef
    BY <2>1
  <2>2. CASE q.packRef # NoRef
    BY <2>2, RetrievalAssumption DEF PackKnown
  <2> QED BY <2>1, <2>2
<1>2. os \in Seq(Duty)
  BY ObligationsAre
<1>3. PackCandidates(r, q) = named \o FlattenSeq(seqs)
  BY Zenon DEF PackCandidates
<1> HIDE DEF os, named
<1>4. Len(os) \in Nat /\ DOMAIN os = 1..Len(os)
  BY <1>2
<1> DEFINE U == Seq(Stored)
<1>5. \A i \in DOMAIN os : PacksOf(os[i]) \in U
  BY PacksAreStored
<1> HIDE DEF U
<1>6. seqs \in [1..Len(os) -> U]
  BY <1>4, <1>5
<1> HIDE DEF seqs
<1>7. seqs \in Seq(U)
  BY <1>4, <1>6
<1>8. seqs \in Seq(Seq(Stored))
  BY <1>7 DEF U
<1>9. FlattenSeq(seqs) \in Seq(Stored)
  BY <1>8, FlattenIsFlat
<1> QED BY <1>1, <1>3, <1>9

(* The candidates of a question are the page and the packs, each as the    *)
(* request sees it.                                                        *)
LEMMA FoundIs ==
  ASSUME NEW r, NEW q, Arrives(r, q), PackKnown(q)
  PROVE  /\ Found(r, q) \in Seq(Stored)
         /\ ToSet(Found(r, q)) = ToSet(Page(r, q)) \cup ToSet(PackCandidates(r, q))
BY PageIsFirst, PackCandidatesAreStored, JoinedSet DEF Found

LEMMA ViewIsDoc ==
  ASSUME NEW r, NEW q, NEW d \in Stored
  PROVE  View(r, q, d) \in Doc
<1>1. View(r, q, d) \in Faces(d)
  BY DEF View, Faces
<1> QED BY <1>1, RetrievalAssumption DEF Face

LEMMA ViewsAre ==
  ASSUME NEW r, NEW q, Arrives(r, q), PackKnown(q)
  PROVE  /\ Len(Found(r, q)) \in Nat
         /\ Views(r, q) \in [1..Len(Found(r, q)) -> Doc]
         /\ DOMAIN Found(r, q) = 1..Len(Found(r, q))
         /\ \A i \in DOMAIN Found(r, q) : Views(r, q)[i] = View(r, q, Found(r, q)[i])
<1> DEFINE docs == Found(r, q)
<1>1. docs \in Seq(Stored)
  BY FoundIs
<1>2. Views(r, q) = [i \in DOMAIN docs |-> View(r, q, docs[i])]
  BY DEF Views
<1> HIDE DEF docs
<1>3. Len(docs) \in Nat /\ DOMAIN docs = 1..Len(docs) /\ \A i \in DOMAIN docs : docs[i] \in Stored
  BY <1>1
<1>4. \A i \in DOMAIN docs : View(r, q, docs[i]) \in Doc
  BY <1>3, ViewIsDoc
<1> QED BY <1>2, <1>3, <1>4 DEF docs

(* The store attributes what it refuses, and counts each document.         *)
LEMMA RefusalsAreCounted ==
  ASSUME NEW r, NEW q, Arrives(r, q), PackKnown(q)
  PROVE  Suppressed(r, q) \in Refusals
<1> DEFINE docs == Refused(r, q)
           classes == {d.artefact : d \in ToSet(docs)}
           class == [i \in 1..Len(docs) |-> docs[i].artefact]
<1>1. docs \in Seq(Stored) /\ Len(docs) <= MaxRefused
  <2>1. docs \in Seq(Stored)
    BY StoreAnswers
  <2>2. r \in Request /\ q \in ToSet(r.questions)
    BY DEF Arrives
  <2> QED BY <2>1, <2>2, BoundsAssumption
<1>2. Suppressed(r, q) = [total |-> Len(docs), classes |-> classes]
  BY DEF Suppressed
<1>3. classes \subseteq Artefact
  <2>1. \A d \in ToSet(docs) : d.artefact \in Decomposed(r, q)
    BY StoreAnswers
  <2>2. Decomposed(r, q) \subseteq Artefact
    BY Declared, LadderAssumption DEF Decompose
  <2> QED BY <2>1, <2>2
<1> HIDE DEF docs
<1>4. Len(docs) \in Nat /\ DOMAIN docs = 1..Len(docs)
  BY <1>1
<1>5. classes = {class[i] : i \in 1..Len(docs)}
  BY <1>4 DEF ToSet
<1>6. IsFiniteSet(1..Len(docs)) /\ Cardinality(1..Len(docs)) = Len(docs)
  <2>1. 1 \in Int /\ Len(docs) \in Int
    BY <1>4
  <2>2. /\ IsFiniteSet(1..Len(docs))
        /\ Cardinality(1..Len(docs)) = IF 1 > Len(docs) THEN 0 ELSE Len(docs) - 1 + 1
    BY <2>1, FS_Interval
  <2> QED BY <1>4, <2>2
<1>7. Cardinality(classes) <= Len(docs)
  <2>1. class \in Surjection(1..Len(docs), classes)
    BY <1>5 DEF Surjection
  <2> QED BY <1>6, <2>1, FS_Surjection
<1>8. Len(docs) \in 0..MaxRefused
  BY <1>1, <1>4, LadderAssumption
<1> HIDE DEF classes
<1> QED BY <1>2, <1>3, <1>7, <1>8 DEF Refusals

-----------------------------------------------------------------------------
\* The request is one that may arrive, and its items are a sequence.
Underway == request \in Request /\ IsSequence

\* What the ladder has in hand is what the ports answer to the question the
\* service is at.
Fed ==
  phase \in {"ladder", "verdict"} =>
    /\ Len(items) < Len(request.questions)
    /\ PackKnown(Question)
    /\ required = Decomposed(request, Question)
    /\ candidates = Views(request, Question)
    /\ suppressed = Suppressed(request, Question)

(* The question of a further item is one of the request's.                 *)
LEMMA AtQuestion ==
  ASSUME Underway, Len(items) < Len(request.questions)
  PROVE  Arrives(request, Question)
<1>1. request.questions \in Seq(Posed)
  BY RetrievalAssumption DEF Underway
<1>2. PICK S : items \in Seq(S)
  BY DEF Underway, IsSequence
<1>3. Len(items) + 1 \in 1..Len(request.questions) /\ DOMAIN request.questions = 1..Len(request.questions)
  BY <1>1, <1>2
<1> QED BY <1>3 DEF Arrives, Question, ToSet, Underway

(* A search gives the ladder candidates, requirements and a count that     *)
(* Retrieve allows for.                                                    *)
LEMMA SearchRetrieves ==
  ASSUME Underway, Search
  PROVE  Retrieve
<1>1. Len(items) < Len(request.questions) /\ phase = "item" /\ PackKnown(Question)
  BY DEF Search, Asking
<1>2. Arrives(request, Question)
  BY <1>1, AtQuestion
<1>3. \E declared \in SUBSET Artefact : required' = Decompose(declared)
  BY <1>2, Declared DEF Search
<1>4. \E n \in 0..MaxCandidates : candidates' \in [1..n -> Doc]
  <2> DEFINE n == Len(Found(request, Question))
  <2>1. n \in Nat /\ candidates' \in [1..n -> Doc]
    BY <1>1, <1>2, ViewsAre DEF Search
  <2>2. n <= MaxCandidates
    BY <1>1, <1>2, BoundsAssumption DEF Arrives
  <2> HIDE DEF n
  <2>3. n \in 0..MaxCandidates
    BY <2>1, <2>2, LadderAssumption
  <2> QED BY <2>1, <2>3
<1>5. suppressed' \in Refusals
  BY <1>1, <1>2, RefusalsAreCounted DEF Search
<1>6. waiverOk' \in BOOLEAN
  BY RetrievalAssumption DEF Search, Underway
<1>7. Len(items) < MaxItems
  <2>1. Len(request.questions) <= MaxItems
    BY BoundsAssumption DEF Underway
  <2>2. Len(items) \in Nat
    BY DEF Underway, IsSequence
  <2>3. Len(request.questions) \in Nat
    BY RetrievalAssumption DEF Underway
  <2> QED BY <1>1, <2>1, <2>2, <2>3, LadderAssumption
<1> QED BY <1>1, <1>3, <1>4, <1>5, <1>6, <1>7 DEF Search, Retrieve

LEMMA UnderwayInit == RetrievalInit => Underway
<1> SUFFICES ASSUME RetrievalInit PROVE Underway
  OBVIOUS
<1>1. items = << >> /\ << >> \in Seq({})
  BY DEF RetrievalInit, Init
<1> QED BY <1>1 DEF RetrievalInit, Underway, IsSequence

LEMMA UnderwayStep == Underway /\ [RetrievalNext]_retrievalVars => Underway'
<1> SUFFICES ASSUME Underway, [RetrievalNext]_retrievalVars PROVE Underway'
  OBVIOUS
<1>1. ASSUME UNCHANGED <<request, items>> PROVE Underway'
  BY <1>1 DEF Underway, IsSequence
<1>2. CASE Search \/ PackUnknown \/ StoreFails \/ Assemble \/ Done \/ UNCHANGED retrievalVars
  BY <1>1, <1>2 DEF Search, PackUnknown, StoreFails, Assemble, AssemblePack, Done,
                    retrievalVars, vars
<1>3. CASE Assess
  <2>1. CASE Skip \/ Drop \/ Place \/ LadderDone
    BY <1>1, <1>3, <2>1 DEF Assess, Skip, Drop, Place, LadderDone
  <2>2. CASE AssessItem
    <3>1. PICK x, more : \E sla \in Clocks : Ranked(more) /\ Assessment(x, sla, more)
      BY <2>2, ItemAssessed
    <3>2. items' = Append(items, x)
      BY <3>1 DEF Assessment
    <3> QED BY <1>3, <3>2, Appended DEF Underway, Assess
  <2> QED BY <1>3, <2>1, <2>2 DEF Assess
<1> QED BY <1>2, <1>3 DEF RetrievalNext

(* Every step of the composition is a step of the ladder or leaves it      *)
(* alone.                                                                  *)
LEMMA StepIsLadders == Underway /\ [RetrievalNext]_retrievalVars => [Next]_vars
<1> SUFFICES ASSUME Underway, [RetrievalNext]_retrievalVars PROVE [Next]_vars
  OBVIOUS
<1>1. CASE Search
  BY <1>1, SearchRetrieves DEF Next
<1>2. CASE PackUnknown \/ StoreFails \/ Done \/ UNCHANGED retrievalVars
  BY <1>2 DEF PackUnknown, StoreFails, Done, retrievalVars
<1>3. CASE Assess
  BY <1>3 DEF Assess, Next
<1>4. CASE Assemble
  BY <1>4 DEF Assemble, Next
<1> QED BY <1>1, <1>2, <1>3, <1>4 DEF RetrievalNext

LEMMA AlwaysUnderway == RetrievalSpec => []Underway
BY UnderwayInit, UnderwayStep, PTL DEF RetrievalSpec

(* Whatever is stored, asked and refused, the candidates of a question are *)
(* candidates the ladder is specified for: what EvidenceLadder establishes *)
(* of arbitrary ones holds of what the ports return.                       *)
THEOREM RetrievalFeedsLadder == RetrievalSpec => ImplementsLadder
<1>1. RetrievalInit => Init
  BY DEF RetrievalInit
<1> QED BY <1>1, StepIsLadders, AlwaysUnderway, PTL DEF RetrievalSpec, Spec, ImplementsLadder

-----------------------------------------------------------------------------
LEMMA FedStep ==
  Underway /\ Fed /\ [RetrievalNext]_retrievalVars => Fed'
<1> SUFFICES ASSUME Underway, Fed, [RetrievalNext]_retrievalVars PROVE Fed'
  OBVIOUS
<1>1. ASSUME UNCHANGED <<request, items, required, candidates, suppressed>>,
             phase' \in {"ladder", "verdict"} => phase \in {"ladder", "verdict"}
      PROVE  Fed'
  <2> SUFFICES ASSUME phase' \in {"ladder", "verdict"}
               PROVE  /\ Len(items) < Len(request.questions)
                      /\ PackKnown(Question)
                      /\ required = Decomposed(request, Question)
                      /\ candidates = Views(request, Question)
                      /\ suppressed = Suppressed(request, Question)
    BY <1>1, Zenon DEF Fed, Question
  <2> QED BY <1>1 DEF Fed
<1>2. CASE Search
  BY <1>2, Zenon DEF Search, Asking, Fed, Question
<1>3. CASE PackUnknown \/ StoreFails \/ Done \/ UNCHANGED retrievalVars
  BY <1>1, <1>3 DEF PackUnknown, StoreFails, Done, retrievalVars, vars
<1>4. CASE Assess /\ (Skip \/ Drop \/ Place \/ LadderDone)
  BY <1>1, <1>4 DEF Assess, Skip, Drop, Place, Looking, LadderDone
<1>5. CASE AssessItem
  <2>1. phase' = "item"
    BY <1>5, ItemAssessed
  <2> QED BY <2>1 DEF Fed
<1>6. CASE Assemble
  <2>1. phase' = "held"
    BY <1>6 DEF Assemble, AssemblePack
  <2> QED BY <2>1 DEF Fed
<1> QED BY <1>2, <1>3, <1>4, <1>5, <1>6 DEF RetrievalNext, Assess

LEMMA AlwaysFed == RetrievalSpec => []Fed
<1>1. RetrievalInit => Fed
  BY DEF RetrievalInit, Init, Fed
<1> QED BY <1>1, FedStep, AlwaysUnderway, PTL DEF RetrievalSpec

\* All the copies of the i-th candidate answer the requirement.
AllResponsive(i) ==
  \A j \in DOMAIN candidates :
    candidates[j].id = candidates[i].id => Responsive(candidates[j])

\* No document looked at is lost: one whose copies all answer the requirement
\* is on a link, and the ladder ends when every candidate was looked at.
Taken ==
  /\ \A i \in 1..(at - 1) :
       AllResponsive(i) => \E l \in links : l.doc.id = candidates[i].id
  /\ phase = "verdict" => at > Len(candidates)

LEMMA TakenInit == Init => Taken
BY DEF Init, Taken

LEMMA TakenStep == LadderInv /\ Taken /\ [Next]_vars => Taken'
<1> SUFFICES ASSUME LadderInv, Taken, [Next]_vars PROVE Taken'
  OBVIOUS
<1>0. Walk
  BY DEF LadderInv
<1>1. ASSUME Fixed, Looking, at' = at + 1, phase' = phase, links \subseteq links',
             AllResponsive(at) => \E l \in links' : l.doc.id = Candidate.id
      PROVE  Taken'
  <2>1. \A i : AllResponsive(i)' <=> AllResponsive(i)
    BY <1>1, VerdictFixed DEF AllResponsive, Fixed
  <2>2. at \in 1..Len(candidates)
    BY <1>0, <1>1 DEF Walk, Looking
  <2>3. \A i \in 1..(at' - 1) : i \in 1..(at - 1) \/ i = at
    BY <1>1, <2>2
  <2>4. \A i \in 1..(at' - 1) :
          AllResponsive(i) => \E l \in links' : l.doc.id = candidates[i].id
    BY <1>1, <2>3 DEF Taken, Candidate
  <2>5. phase' # "verdict"
    BY <1>1 DEF Looking
  <2> QED BY <1>1, <2>1, <2>4, <2>5 DEF Taken, Fixed
<1>2. CASE Retrieve
  <2>1. at' = 1 /\ phase' = "ladder"
    BY <1>2 DEF Retrieve
  <2> QED BY <2>1 DEF Taken
<1>3. CASE Skip
  <2>1. Fixed /\ Looking /\ at' = at + 1 /\ phase' = phase /\ links' = links /\ Candidate.id \in Seen
    BY <1>3 DEF Skip, Fixed
  <2>2. PICK i \in 1..(at - 1) : candidates[i].id = Candidate.id
    BY <2>1 DEF Seen
  <2>3. AllResponsive(at) => AllResponsive(i)
    BY <2>2 DEF AllResponsive, Candidate
  <2> QED BY <1>1, <2>1, <2>2, <2>3 DEF Taken
<1>4. CASE Drop
  <2>1. Fixed /\ Looking /\ at' = at + 1 /\ phase' = phase /\ links' = links /\ ~Responsive(Candidate)
    BY <1>4 DEF Drop, Fixed
  <2>2. at \in DOMAIN candidates
    BY <1>0, <2>1 DEF Walk, Looking
  <2>3. ~AllResponsive(at)
    BY <2>1, <2>2 DEF AllResponsive, Candidate
  <2> QED BY <1>1, <2>1, <2>3
<1>5. CASE Place
  <2>1. /\ Fixed /\ Looking /\ at' = at + 1 /\ phase' = phase
        /\ links' = links \cup {[doc |-> Candidate, status |-> VerdictOn(Candidate)]}
    BY <1>5 DEF Place, Fixed
  <2>2. \E l \in links' : l.doc.id = Candidate.id
    <3> DEFINE k == [doc |-> Candidate, status |-> VerdictOn(Candidate)]
    <3>1. k \in links' /\ k.doc = Candidate
      BY <2>1
    <3> HIDE DEF k
    <3> QED BY <3>1
  <2> QED BY <1>1, <2>1, <2>2
<1>6. CASE LadderDone
  <2>1. /\ at > Len(candidates)
        /\ UNCHANGED <<candidates, required, at, links>>
    BY <1>6 DEF LadderDone
  <2> QED BY <2>1 DEF Taken, AllResponsive, Responsive
<1>7. CASE AssessItem \/ AssemblePack \/ Held \/ UNCHANGED vars
  <2>1. /\ UNCHANGED <<candidates, required, at, links>>
        /\ phase' = "verdict" => phase = "verdict"
    BY <1>7 DEF AssessItem, AssemblePack, Held, vars
  <2> QED BY <2>1 DEF Taken, AllResponsive, Responsive
<1> QED BY <1>2, <1>3, <1>4, <1>5, <1>6, <1>7 DEF Next

LEMMA AlwaysTaken == Spec => []Taken
BY TakenInit, TakenStep, LadderAlways, PTL DEF Spec

-----------------------------------------------------------------------------
\* What was found is what arrived, as the request sees it.
Arrival(d) == View(request, Question, d)

LEMMA WhatArrived ==
  ASSUME Underway, Fed, phase = "verdict"
  PROVE  /\ Arrives(request, Question)
         /\ ToSet(Found(request, Question)) \subseteq Stored
         /\ ToSet(Found(request, Question)) =
              ToSet(Page(request, Question)) \cup ToSet(PackCandidates(request, Question))
         /\ Arrived = {Arrival(d) : d \in ToSet(Found(request, Question))}
         /\ \A d \in ToSet(Found(request, Question)) :
              \E i \in DOMAIN candidates : candidates[i] = Arrival(d)
<1> DEFINE docs == Found(request, Question)
<1>1. /\ Arrives(request, Question) /\ PackKnown(Question)
      /\ candidates = Views(request, Question)
  BY AtQuestion DEF Fed
<1>2. docs \in Seq(Stored)
      /\ ToSet(docs) = ToSet(Page(request, Question)) \cup ToSet(PackCandidates(request, Question))
  BY <1>1, FoundIs
<1>3. /\ Len(docs) \in Nat /\ candidates \in [1..Len(docs) -> Doc]
      /\ DOMAIN docs = 1..Len(docs)
      /\ \A i \in DOMAIN docs : candidates[i] = Arrival(docs[i])
  BY <1>1, ViewsAre DEF Arrival
<1> HIDE DEF docs
<1>4. \A i \in DOMAIN docs : docs[i] \in Stored
  BY <1>2
<1>5. DOMAIN candidates = DOMAIN docs
  BY <1>3
<1>6. ToSet(docs) \subseteq Stored
  BY <1>4 DEF ToSet
<1>7. Arrived = {Arrival(d) : d \in ToSet(docs)}
  BY <1>3, <1>5 DEF Arrived, ToSet
<1>8. \A d \in ToSet(docs) : \E i \in DOMAIN candidates : candidates[i] = Arrival(d)
  BY <1>3, <1>5 DEF ToSet
<1> QED BY <1>1, <1>2, <1>6, <1>7, <1>8 DEF docs

(* What the ladder reads of a candidate is what the store holds of it.     *)
LEMMA ViewKeeps ==
  ASSUME NEW d \in Stored, Arrives(request, Question)
  PROVE  /\ Arrival(d).id = d.id /\ Arrival(d).artefact = d.artefact
         /\ Arrival(d).asOf = d.asOf
         /\ Arrival(d).onTopic <=> d.topic = Question.topic
         /\ Arrival(d).acl \subseteq Entitlements <=> Readable(request, d)
<1>1. /\ Arrival(d).id = d.id /\ Arrival(d).artefact = d.artefact
      /\ Arrival(d).asOf = d.asOf
      /\ Arrival(d).acl = d.acl \ request.entitlements
  BY DEF Arrival, View
<1>2. Arrival(d).onTopic = (d.topic = Question.topic)
  BY Zenon DEF Arrival, View
<1>3. d.acl \cap Entitlements = {}
  BY RetrievalAssumption
<1>4. Arrival(d).acl \subseteq Entitlements <=> Readable(request, d)
  BY <1>1, <1>3 DEF Readable
<1> QED BY <1>1, <1>2, <1>4

(* A document found that answers a requirement is on a link of its class.  *)
LEMMA FoundIsLinked ==
  ASSUME CopiesAgree, LadderInv, Taken, Underway, Fed, phase = "verdict",
         NEW d \in ToSet(Found(request, Question)),
         d.artefact \in required, d.topic = Question.topic
  PROVE  \E l \in links : l.doc.artefact = d.artefact /\ l.doc.asOf = d.asOf
<1>1. /\ Arrives(request, Question) /\ d \in Stored
      /\ \A c \in Arrived : \E e \in Stored : c = Arrival(e)
  BY WhatArrived
<1>2. PICK i \in DOMAIN candidates : candidates[i] = Arrival(d)
  BY WhatArrived
<1>3. \A j \in DOMAIN candidates : candidates[j] \in Arrived
  BY DEF Arrived
<1>4. ASSUME NEW c \in Arrived, c.id = candidates[i].id
      PROVE  c.artefact = d.artefact /\ c.asOf = d.asOf /\ c.onTopic
  <2>1. PICK e \in Stored : c = Arrival(e)
    BY <1>1
  <2>2. e.id = d.id
    BY <1>1, <1>2, <1>4, <2>1, ViewKeeps
  <2>3. e.artefact = d.artefact /\ e.topic = d.topic /\ e.asOf = d.asOf
    BY <1>1, <2>2 DEF CopiesAgree
  <2> QED BY <1>1, <2>1, <2>3, ViewKeeps
<1>5. AllResponsive(i)
  BY <1>3, <1>4 DEF AllResponsive, Responsive
<1>6. i \in 1..(at - 1)
  <2>1. at > Len(candidates) /\ Walk
    BY DEF Taken, LadderInv
  <2>2. DOMAIN candidates = 1..Len(candidates) /\ Len(candidates) \in Nat
    BY <2>1 DEF Walk
  <2> QED BY <2>1, <2>2 DEF Walk
<1>7. PICK l \in links : l.doc.id = candidates[i].id
  BY <1>5, <1>6 DEF Taken
<1>8. l.doc \in Arrived
  BY DEF LadderInv, Decided
<1> QED BY <1>4, <1>7, <1>8

(* A requirement reported as missing has nothing near the review period in *)
(* the store or the packs, unless the page was cut.                        *)
LEMMA MissingIsNotHeld ==
  ASSUME CopiesAgree, Cap > 0, LadderInv, Asked, Taken, Underway, Fed
  PROVE  MissingMeansNotHeld
<1> SUFFICES ASSUME phase = "verdict", NEW a \in required, Coverage[a] = "MISSING",
                    Len(Page(request, Question)) # Limit,
                    NEW d \in OnQuestion(request, Question, a), NearPeriod(d)
             PROVE  FALSE
  BY DEF MissingMeansNotHeld
<1>1. /\ d \in Holdings(request, Question)
      /\ d.artefact = a /\ d.topic = Question.topic
  BY DEF OnQuestion
<1>2. Arrives(request, Question) /\ required = Decomposed(request, Question)
      /\ suppressed = Suppressed(request, Question)
  BY WhatArrived DEF Fed
<1>3. ~SuppressedHere(a)
  BY CoverageSays
<1>4. CASE d \in ToSet(Corpus[Question.topic]) /\ ~Readable(request, d)
  <2>1. d \in ToSet(Refused(request, Question))
    BY <1>1, <1>2, <1>4, StoreAnswers
  <2>2. a \in suppressed.classes
    BY <1>1, <1>2, <2>1 DEF Suppressed
  <2> QED BY <1>3, <2>2 DEF SuppressedHere
<1>5. CASE d \in ToSet(Found(request, Question))
  <2>1. PICK l \in links : l.doc.artefact = a /\ l.doc.asOf = d.asOf
    BY <1>1, <1>5, FoundIsLinked
  <2>2. NearPeriod(l.doc)
    BY <2>1 DEF NearPeriod
  <2>3. DeniedIsNotMissing
    BY MissingIsMissing
  <2> QED BY <2>1, <2>2, <2>3 DEF DeniedIsNotMissing
<1>6. CASE d \in ToSet(Corpus[Question.topic]) /\ Readable(request, d)
  <2>1. d \in ToSet(Entitled(request, Question))
    BY <1>1, <1>2, <1>6, StoreAnswers
  <2>2. d \in ToSet(Page(request, Question))
    BY <1>2, <2>1, PageIsFirst
  <2> QED BY <1>5, <2>2, WhatArrived
<1>7. CASE d \in ToSet(PackCandidates(request, Question))
  BY <1>5, <1>7, WhatArrived
<1> QED BY <1>1, <1>4, <1>6, <1>7 DEF Holdings

(* "The firm holds nothing" is said of a requirement only when that is so, *)
(* for every store, register, pack, request and page size: a page as long  *)
(* as the limit is the one excuse.  The copies of a document must agree on *)
(* its class, topic and date, and the cap must leave room for one.         *)
THEOREM MissingIsTrue ==
  ASSUME CopiesAgree, Cap > 0 PROVE RetrievalSpec => []MissingMeansNotHeld
<1>1. Spec => []Asked
  BY AskedInit, AskedStep, PTL DEF Spec
<1>2. RetrievalSpec => Spec
  BY RetrievalFeedsLadder DEF ImplementsLadder
<1> QED BY <1>1, <1>2, MissingIsNotHeld, LadderAlways, AlwaysTaken, AlwaysUnderway, AlwaysFed, PTL

-----------------------------------------------------------------------------
\* An item whose store refused something responsive is escalated.
Told ==
  \A i \in DOMAIN items :
    (\E d \in ToSet(Corpus[request.questions[i].topic]) :
       d.artefact \in DOMAIN items[i].coverage /\ ~Readable(request, d))
      => items[i].verdict.decision = "ESCALATED"

LEMMA RefusalEscalates ==
  ASSUME Underway, Fed, phase = "verdict",
         NEW d \in ToSet(Corpus[Question.topic]), d.artefact \in required,
         ~Readable(request, d),
         NEW more, Ranked(more), NEW sla \in Clocks
  PROVE  Escalates(ItemSeverity(EvidenceBlockers \cup more, sla))
<1>1. Arrives(request, Question) /\ required = Decomposed(request, Question)
      /\ suppressed = Suppressed(request, Question)
  BY WhatArrived DEF Fed
<1>2. d \in ToSet(Refused(request, Question)) /\ Refused(request, Question) \in Seq(Stored)
  BY <1>1, StoreAnswers
<1>3. suppressed.total > 0
  <2> DEFINE docs == Refused(request, Question)
  <2>1. docs \in Seq(Stored) /\ DOMAIN docs # {}
    BY <1>2 DEF ToSet
  <2> HIDE DEF docs
  <2>2. Len(docs) > 0
    BY <2>1
  <2> QED BY <1>1, <2>2 DEF Suppressed, docs
<1>4. PICK b \in EvidenceBlockers : b.severity \in Blocking
  BY <1>3, RefusalReported
<1>5. Ranked(EvidenceBlockers \cup more)
  BY EvidenceRanked DEF Ranked
<1> QED BY <1>4, <1>5, QuietBlockers DEF Escalates

LEMMA ToldStep ==
  Underway /\ Fed /\ Told /\ [RetrievalNext]_retrievalVars => Told'
<1> SUFFICES ASSUME Underway, Fed, Told, [RetrievalNext]_retrievalVars PROVE Told'
  OBVIOUS
<1>1. CASE Assess /\ AssessItem
  <2>1. PICK x, more : \E sla \in Clocks : Ranked(more) /\ Assessment(x, sla, more)
    BY <1>1, ItemAssessed
  <2>2. PICK sla \in Clocks : Ranked(more) /\ Assessment(x, sla, more)
    BY <2>1
  <2>3. phase = "verdict" /\ request' = request
    BY <1>1, ItemAssessed DEF Assess
  <2>4. DOMAIN x.coverage = required
    BY <2>2 DEF Assessment, Coverage
  <2>5. ASSUME NEW d \in ToSet(Corpus[Question.topic]), d.artefact \in DOMAIN x.coverage,
               ~Readable(request, d)
        PROVE  x.verdict.decision = "ESCALATED"
    BY <2>2, <2>3, <2>4, <2>5, RefusalEscalates DEF Assessment
  <2>6. \A i \in DOMAIN items' :
          \/ i = Len(items) + 1 /\ items'[i] = x
          \/ i \in DOMAIN items /\ items'[i] = items[i]
    <3>1. PICK S : items \in Seq(S)
      BY DEF Underway, IsSequence
    <3> DEFINE T == S \cup {x}
    <3>2. items \in Seq(T) /\ x \in T
      BY <3>1, SeqMonotonic
    <3> HIDE DEF T
    <3> QED BY <2>2, <3>2 DEF Assessment
  <2>7. ASSUME NEW i \in DOMAIN items',
               NEW d \in ToSet(Corpus[request.questions[i].topic]),
               d.artefact \in DOMAIN items'[i].coverage, ~Readable(request, d)
        PROVE  items'[i].verdict.decision = "ESCALATED"
    <3>1. CASE i = Len(items) + 1 /\ items'[i] = x
      BY <2>5, <2>7, <3>1 DEF Question
    <3>2. CASE i \in DOMAIN items /\ items'[i] = items[i]
      BY <2>7, <3>2 DEF Told
    <3> QED BY <2>6, <3>1, <3>2
  <2>8. \A d : Readable(request, d)' <=> Readable(request, d)
    BY <2>3 DEF Readable
  <2> QED BY <2>3, <2>7 DEF Told, Readable
<1>2. ASSUME UNCHANGED <<request, items>> PROVE Told'
  BY <1>2 DEF Told, Readable
<1>3. CASE Search \/ PackUnknown \/ StoreFails \/ Assemble \/ Done \/ UNCHANGED retrievalVars
  BY <1>2, <1>3 DEF Search, PackUnknown, StoreFails, Assemble, AssemblePack, Done,
                    retrievalVars, vars
<1>4. CASE Assess /\ (Skip \/ Drop \/ Place \/ LadderDone)
  BY <1>2, <1>4 DEF Assess, Skip, Drop, Place, LadderDone
<1> QED BY <1>1, <1>3, <1>4 DEF RetrievalNext, Assess

(* A requirement reported as denied has a document of its class that is    *)
(* refused to this caller.                                                 *)
LEMMA DeniedIsRefused ==
  ASSUME CopiesAgree, LadderInv, Underway, Fed, phase = "verdict",
         NEW a \in required, Coverage[a] = "DENIED"
  PROVE  \E d \in OnQuestion(request, Question, a) : ~Readable(request, d)
<1>1. Arrives(request, Question) /\ required = Decomposed(request, Question)
      /\ suppressed = Suppressed(request, Question)
  BY WhatArrived DEF Fed
<1>2. \A d \in ToSet(Corpus[Question.topic]) : d.topic = Question.topic /\ d \in Stored
  BY <1>1, QuestionPosed, RetrievalAssumption DEF Stored
<1>3. CASE SuppressedHere(a)
  <2> DEFINE docs == Refused(request, Question)
  <2>1. docs \in Seq(Stored)
        /\ suppressed = [total |-> Len(docs), classes |-> {d.artefact : d \in ToSet(docs)}]
    BY <1>1, StoreAnswers DEF Suppressed
  <2> HIDE DEF docs
  <2>2. \E d \in ToSet(docs) : d.artefact = a
    <3>1. CASE a \in suppressed.classes
      BY <2>1, <3>1
    <3>2. CASE suppressed.classes = {} /\ suppressed.total > 0
      <4>1. Len(docs) > 0 /\ ToSet(docs) = {}
        BY <2>1, <3>2
      <4>2. 1 \in DOMAIN docs
        BY <2>1, <4>1
      <4> QED BY <4>1, <4>2 DEF ToSet
    <3> QED BY <1>3, <3>1, <3>2 DEF SuppressedHere
  <2>3. PICK d \in ToSet(docs) : d.artefact = a
    BY <2>2
  <2>4. d \in ToSet(Corpus[Question.topic]) /\ ~Readable(request, d)
    BY <1>1, <2>3, StoreAnswers DEF docs
  <2> QED BY <1>2, <2>3, <2>4 DEF OnQuestion, Holdings
<1>4. CASE Has(a, {"DENIED_NO_ENTITLEMENT"})
  <2>1. PICK l \in links : l.doc.artefact = a /\ l.status = "DENIED_NO_ENTITLEMENT"
    BY <1>4 DEF Has
  <2>2. l.doc \in Arrived /\ Responsive(l.doc) /\ VerdictOn(l.doc) = "DENIED_NO_ENTITLEMENT"
    BY <2>1 DEF LadderInv, Decided
  <2>3. l.doc.id \in LeakedIds
    BY <2>2 DEF VerdictOn, StatusOf
  <2>4. PICK c \in Arrived : ~(c.acl \subseteq Entitlements) /\ c.id = l.doc.id
    BY <2>3 DEF LeakedIds, Leaked
  <2>5. PICK d \in ToSet(Found(request, Question)) : c = Arrival(d)
    BY WhatArrived
  <2>6. PICK e \in ToSet(Found(request, Question)) : l.doc = Arrival(e)
    BY <2>2, WhatArrived
  <2>7. d \in Stored /\ e \in Stored
    BY WhatArrived
  <2>8. ~Readable(request, d) /\ d.id = e.id
    BY <1>1, <2>4, <2>5, <2>6, <2>7, ViewKeeps
  <2>9. d.artefact = e.artefact /\ d.topic = e.topic
    BY <2>7, <2>8 DEF CopiesAgree
  <2>10. d.artefact = a /\ d.topic = Question.topic
    BY <1>1, <2>1, <2>2, <2>6, <2>7, <2>9, ViewKeeps DEF Responsive
  <2>11. d \in Holdings(request, Question)
    <3>1. CASE d \in ToSet(PackCandidates(request, Question))
      BY <3>1 DEF Holdings
    <3>2. CASE d \in ToSet(Page(request, Question))
      BY <1>1, <3>2, PageIsFirst, StoreAnswers DEF Holdings
    <3> QED BY <3>1, <3>2, WhatArrived
  <2> QED BY <2>8, <2>10, <2>11 DEF OnQuestion
<1> QED BY <1>3, <1>4, CoverageSays

(* "You are not entitled" is said of what it is true of, and a refusal     *)
(* always reaches a reviewer, for every store, register, pack, request and *)
(* page size, as long as the copies of a document agree on its class and   *)
(* topic.                                                                  *)
THEOREM DenialsAreTrue ==
  ASSUME CopiesAgree PROVE RetrievalSpec => []DenialsAreExact
<1>1. RetrievalInit => Told
  BY DEF RetrievalInit, Init, Told
<1>2. RetrievalSpec => []Told
  BY <1>1, ToldStep, AlwaysUnderway, AlwaysFed, PTL DEF RetrievalSpec
<1>3. RetrievalSpec => Spec
  BY RetrievalFeedsLadder DEF ImplementsLadder
<1>4. LadderInv /\ Underway /\ Fed /\ Told => DenialsAreExact
  BY DeniedIsRefused DEF DenialsAreExact, Told
<1> QED BY <1>2, <1>3, <1>4, LadderAlways, AlwaysUnderway, AlwaysFed, PTL
=============================================================================
