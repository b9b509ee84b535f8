SPECIFICATION Spec
CONSTANTS
  f = f
  g = g
  h = h
  Files = {f, g, h}
  Size <- MCSize
  Name <- MCName
  SPLIT_THRESHOLD = 2
  MaxSuffixes = 2
  NoManifest = NoManifest
  NoFile = NoFile
  MaxFaults = 1
INVARIANTS
  RemovedMeansWhole
  ManifestOutlivesSplit
PROPERTY
  ArrivedIsMerged
CHECK_DEADLOCK FALSE
