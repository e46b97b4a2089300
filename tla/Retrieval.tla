----------------------------- MODULE Retrieval -----------------------------
(***************************************************************************)
(* Where the candidates of the admissibility ladder come from.  For each   *)
(* question of a request the service decomposes the question against the   *)
(* playbook and the obligation register, searches the knowledge base       *)
(* (which filters by the caller's entitlements and counts what it refused, *)
(* in total and by artefact class), adds the documents of the evidence     *)
(* packs the item names or its obligations have, and hands all of it to    *)
(* the ladder of EvidenceLadder.  The ladder sees a document as this       *)
(* request does (View): a label that the caller holds is left out, so the  *)
(* ladder's own Entitlements hold none of a stored document's labels, and  *)
(* a jurisdiction is permitted to this requester or it is not.             *)
(***************************************************************************)
EXTENDS EvidenceLadder, SequencesExt

CONSTANTS
  Request,             \* the requests that may arrive
  Topic,
  Corpus,              \* the documents of a topic, in the order of the store
  Register,            \* the obligations of a topic and jurisdiction
  Packs, PacksFor,     \* the assembled packs: by reference, by obligation
  RequiredArtefacts,   \* the topic playbook
  Transfers,           \* the transfer matrix
  Limit,               \* RetrievalQuery.limit
  NoRef                \* an item that names no evidence pack

VARIABLES
  request,
  failed               \* a port raised and the request was given up

retrievalVars == <<request, failed, vars>>

Stored == UNION {ToSet(Corpus[t]) : t \in Topic}
            \cup UNION {ToSet(Packs[r]) : r \in DOMAIN Packs}
Duty == UNION {ToSet(Register[x]) : x \in DOMAIN Register}
Posed == UNION {ToSet(r.questions) : r \in Request}

\* The copies of one document differ in nothing that decides which requirement
\* it answers and from when it is.
CopiesAgree ==
  \A c, d \in Stored : c.id = d.id =>
    c.artefact = d.artefact /\ c.topic = d.topic /\ c.asOf = d.asOf

\* The ways the ladder may see a document, for some question and caller.
Faces(d) == [id : {d.id}, artefact : {d.artefact}, onTopic : BOOLEAN,
             acl : SUBSET d.acl, tags : {d.tags}, asOf : {d.asOf},
             from : {"permitted", "elsewhere"}]
Face == UNION {Faces(d) : d \in Stored}

ASSUME RetrievalAssumption ==
  /\ Face \subseteq Doc
  /\ "permitted" \in Permitted /\ "elsewhere" \notin Permitted
  /\ \A d \in Stored : d.acl \cap Entitlements = {}
  /\ Corpus \in [Topic -> Seq(Stored)]
  /\ \A t \in Topic : \A d \in ToSet(Corpus[t]) : d.topic = t
  /\ Packs \in [DOMAIN Packs -> Seq(Stored)] /\ NoRef \notin DOMAIN Packs
  /\ PacksFor \in [DOMAIN PacksFor -> Seq(DOMAIN Packs)]
  /\ Register \in [DOMAIN Register -> Seq(Duty)]
  /\ \A o \in Duty : o.requires \subseteq Artefact
  /\ RequiredArtefacts \in [Topic -> SUBSET Artefact]
  /\ \A r \in Request : /\ r.instrument \in Instrument
                        /\ r.waiver \in BOOLEAN
                        /\ r.questions \in Seq(Posed)
  /\ \A q \in Posed : q.topic \in Topic /\ q.requested \subseteq Artefact
  /\ Limit \in Nat \ {0}

RetrievalInit ==
  /\ request \in Request
  /\ failed = FALSE
  /\ Init
  /\ instrument = request.instrument

-----------------------------------------------------------------------------
(* What the ports answer to a question q of a request r.                   *)

\* obligations_for: an unseeded pair has no row.
ObligationsFor(topic, jurisdiction) ==
  IF <<topic, jurisdiction>> \in DOMAIN Register
    THEN Register[topic, jurisdiction] ELSE <<>>

Obligations(r, q) == ObligationsFor(q.topic, r.jurisdiction)

\* D1 to D4.
Decomposed(r, q) ==
  Decompose(q.requested \cup RequiredArtefacts[q.topic]
              \cup UNION {o.requires : o \in ToSet(Obligations(r, q))})

Readable(r, d) == d.acl \subseteq r.entitlements

\* The documents of docs that are in S, in their order.
Among(docs, S) ==
  FlattenSeq([i \in DOMAIN docs |-> IF docs[i] \in S THEN <<docs[i]>> ELSE <<>>])

Matching(r, q) ==
  Among(Corpus[q.topic], {d \in Stored : d.artefact \in Decomposed(r, q)})
Entitled(r, q) == Among(Matching(r, q), {d \in Stored : Readable(r, d)})
Refused(r, q) == Among(Matching(r, q), {d \in Stored : ~Readable(r, d)})

\* search: one page of what the caller may read.
Page(r, q) ==
  LET docs == Entitled(r, q)
  IN [i \in {k \in DOMAIN docs : k <= Limit} |-> docs[i]]

\* Slip: the count is not split by class.
Suppressed_Unattributed(r, q) == [total |-> Len(Refused(r, q)), classes |-> {}]

\* search: what it refused, which the limit does not touch.
Suppressed(r, q) ==
  [total |-> Len(Refused(r, q)),
   classes |-> {d.artefact : d \in ToSet(Refused(r, q))}]

PacksOf(obligation) ==
  IF obligation.id \in DOMAIN PacksFor
    THEN FlattenSeq([i \in DOMAIN PacksFor[obligation.id] |->
                       Packs[PacksFor[obligation.id][i]]])
    ELSE <<>>

\* fetch: whether the pack the item names, if it names one, is there.
PackKnown(q) == q.packRef \in DOMAIN Packs \cup {NoRef}

\* _pack_candidates: the pack the item names, then those of its obligations.
PackCandidates(r, q) ==
  (IF q.packRef = NoRef THEN <<>> ELSE Packs[q.packRef])
    \o FlattenSeq([i \in DOMAIN Obligations(r, q) |->
                     PacksOf(Obligations(r, q)[i])])

\* permitted_transfers: an unknown requester may be sent its own evidence only.
PermittedTransfers(r) ==
  IF r.jurisdiction \in DOMAIN Transfers
    THEN Transfers[r.jurisdiction] ELSE {r.jurisdiction}

\* What the ladder reads of a candidate: the labels the caller lacks, whether
\* it is of the topic asked, and whether it may be transferred.
View(r, q, d) ==
  [id |-> d.id, artefact |-> d.artefact, onTopic |-> d.topic = q.topic,
   acl |-> d.acl \ r.entitlements, tags |-> d.tags, asOf |-> d.asOf,
   from |-> IF d.from \in PermittedTransfers(r) THEN "permitted" ELSE "elsewhere"]

Found(r, q) == Page(r, q) \o PackCandidates(r, q)
Views(r, q) ==
  LET docs == Found(r, q) IN [i \in DOMAIN docs |-> View(r, q, docs[i])]

\* The ladder's bounds leave room for everything the ports may answer.
ASSUME BoundsAssumption ==
  \A r \in Request :
    /\ Len(r.questions) <= MaxItems
    /\ \A q \in ToSet(r.questions) :
         PackKnown(q) => /\ Len(Found(r, q)) <= MaxCandidates
                         /\ Len(Refused(r, q)) <= MaxRefused

-----------------------------------------------------------------------------
\* The question the service is at.
Question == request.questions[Len(items) + 1]

Asking ==
  /\ phase = "item"
  /\ ~failed
  /\ Len(items) < Len(request.questions)

\* Slip: the ladder goes on where the last question left it.
Search_KeepsPlace ==
  /\ Asking
  /\ PackKnown(Question)
  /\ required' = Decomposed(request, Question)
  /\ candidates' = Views(request, Question)
  /\ suppressed' = Suppressed(request, Question)
  /\ waiverOk' = request.waiver
  /\ dropped' = 0
  /\ phase' = "ladder"
  /\ UNCHANGED <<request, failed, instrument, at, links, items, pack>>

\* The retrieval step of _assess_item, when no port raises.
Search ==
  /\ Asking
  /\ PackKnown(Question)
  /\ required' = Decomposed(request, Question)
  /\ candidates' = Views(request, Question)
  /\ suppressed' = Suppressed(request, Question)
  /\ waiverOk' = request.waiver
  /\ at' = 1
  /\ links' = {}
  /\ dropped' = 0
  /\ phase' = "ladder"
  /\ UNCHANGED <<request, failed, instrument, items, pack>>

\* fetch: a pack that is not there is a caller error, not an empty result.
PackUnknown ==
  /\ Asking
  /\ ~PackKnown(Question)
  /\ failed' = TRUE
  /\ UNCHANGED <<request, vars>>

\* Slip: a store out of reach is answered for by an empty result.
StoreFails_EmptySuccess ==
  /\ Asking
  /\ required' = Decomposed(request, Question)
  /\ candidates' = <<>>
  /\ suppressed' = [total |-> 0, classes |-> {}]
  /\ waiverOk' = request.waiver
  /\ at' = 1
  /\ links' = {}
  /\ dropped' = 0
  /\ phase' = "ladder"
  /\ UNCHANGED <<request, failed, instrument, items, pack>>

\* A managed store that is not configured or not reached raises.
StoreFails ==
  /\ Asking
  /\ failed' = TRUE
  /\ UNCHANGED <<request, vars>>

Assess ==
  /\ Skip \/ Drop \/ Place \/ LadderDone \/ AssessItem
  /\ UNCHANGED <<request, failed>>

\* The pack is assembled once every question has its assessment.
Assemble ==
  /\ ~failed
  /\ Len(items) = Len(request.questions)
  /\ AssemblePack
  /\ UNCHANGED <<request, failed>>

Done ==
  /\ failed \/ phase = "held"
  /\ UNCHANGED retrievalVars

RetrievalNext ==
  \/ Search \/ PackUnknown \/ StoreFails
  \/ Assess
  \/ Assemble
  \/ Done

RetrievalSpec == RetrievalInit /\ [][RetrievalNext]_retrievalVars

-----------------------------------------------------------------------------
\* Everything the firm holds that a question could be answered from.
Holdings(r, q) == ToSet(Corpus[q.topic]) \cup ToSet(PackCandidates(r, q))

OnQuestion(r, q, a) ==
  {d \in Holdings(r, q) : d.artefact = a /\ d.topic = q.topic}

(* "The firm holds nothing responsive" is said of a requirement only when  *)
(* neither the store nor a pack holds a document of that class near the    *)
(* review period, readable to the caller or not.  A page as long as the    *)
(* limit is the one excuse: what the limit cuts is counted nowhere.        *)
MissingMeansNotHeld ==
  phase = "verdict" => \A a \in required :
    Coverage[a] = "MISSING" =>
      \/ Len(Page(request, Question)) = Limit
      \/ \A d \in OnQuestion(request, Question, a) : ~NearPeriod(d)

(* "You are not entitled" is said of the class it is true of, and said     *)
(* whenever it is true: a requirement reads DENIED only where a document   *)
(* of that class is refused to this caller, and a responsive document of   *)
(* the store that is refused reaches the checker as an escalated item.     *)
DenialsAreExact ==
  /\ phase = "verdict" => \A a \in required :
       Coverage[a] = "DENIED" =>
         \E d \in OnQuestion(request, Question, a) : ~Readable(request, d)
  /\ \A i \in DOMAIN items :
       (\E d \in ToSet(Corpus[request.questions[i].topic]) :
          d.artefact \in DOMAIN items[i].coverage /\ ~Readable(request, d))
         => items[i].verdict.decision = "ESCALATED"

(* The composition implements the ladder fed by arbitrary candidates: what *)
(* EvidenceLadder establishes of those holds of what the ports return.     *)
ImplementsLadder == Spec
=============================================================================
