SPECIFICATION FairSpec
CONSTANTS
  a1 = a1  l1 = l1  l2 = l2
  NoArtifact = NoArtifact
  Ingest = Ingest
  Nobody = Nobody
  Dead = Dead
  Artifacts = {a1}
  Live = {l1, l2}
  Outsiders = {l2}
  MaxLiveRuns = 1
  MaxSources = 3
  MaxTime = 2
  MaxFaults = 2
CHECK_DEADLOCK FALSE
INVARIANTS
  NothingIsLost
PROPERTIES
  ManifestMovesForward
  BusinessIsSettled
  EveryCaptureEnds
