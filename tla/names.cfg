SPECIFICATION NameSpec
CONSTANTS
  Clusters <- MCClusters
  Datasets <- MCDatasets
  OtherNames <- MCOtherNames
  w1 = w1
  w2 = w2
  w3 = w3
  Wwns = {w1, w2, w3}
SYMMETRY AllWwns
INVARIANTS
  NameIInv
  OwnVolumesFound
  NamesIdentify
PROPERTY
  StoresArePrivate
