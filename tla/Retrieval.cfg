SPECIFICATION RetrievalSpec
CONSTANTS
  Doc <- MCDoc
  DocId <- MCDocId
  Entitlements <- MCNone
  Permitted <- MCPermitted
  Request <- MCRequest
  Topic <- RequestTopic
  Artefact <- ArtefactClass
  DefaultArtefact = "narrative_statement"
  Corpus <- MCCorpus
  Register <- SeededRegister
  Packs <- SeededPacks
  PacksFor <- SeededPacksFor
  RequiredArtefacts <- Playbook
  Transfers <- TransferMatrix
  Limit <- PageSize
  NoRef = ""
  PeriodStart <- MCStart
  PeriodEnd <- MCEnd
  MaxAge = 400
  HardTags <- MCTags
  SilentTags <- MCSilent
  RequiresWaiver = TRUE
  Cap = 5
  Instrument <- MCInstrument
  MaxCandidates = 26
  MaxItems = 2
  MaxRefused = 21
  MinCompleteness = 100
  DualInstrument <- MCDual
  DualKind <- MCDualKind
INVARIANTS
  MissingMeansNotHeld
  DenialsAreExact
  PackCoversItems
PROPERTY ImplementsLadder
