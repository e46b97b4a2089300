SPECIFICATION Spec
CONSTANTS
  Doc <- ItemDocs
  DocId <- MCDocId
  Artefact <- MCArtefact
  DefaultArtefact = "policy"
  Entitlements <- MCEntitlements
  Permitted <- MCPermitted
  PeriodStart = 10
  PeriodEnd = 20
  MaxAge = 5
  HardTags <- MCTags
  SilentTags <- MCSilent
  RequiresWaiver = TRUE
  Cap = 1
  Instrument <- OneInstrument
  MaxCandidates = 1
  MaxItems = 1
  MaxRefused = 2
  MinCompleteness = 100
  DualInstrument <- MCDual
  DualKind <- MCDualKind
INVARIANT SilentRowRaisesNoBlocker
