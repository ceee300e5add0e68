SPECIFICATION MCSpec
CONSTANTS
  n1 = n1
  n2 = n2
  c1 = c1
  c2 = c2
  None = None
  Publications = {"p1", "p2"}
  Sites <- SomeSites
  Covers <- CertificateCovers
  SitesPerCluster = 2
  Scenes = {"store", "lifecycles", "fleet", "sites", "reported", "many", "moved"}
INVARIANT CommittedIsStored
PROPERTY RefsLive
PROPERTY EveryNodeDesiresCurrent
SYMMETRY ClustersAlike
CHECK_DEADLOCK FALSE
