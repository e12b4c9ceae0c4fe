CONSTANTS
  ArtifactOps = {"p", "o"}
  OutputOps = {"o"}
  ArtifactPlans <- MCArtifactPlans
  Contents = {"x", "y"}
  ContentSize <- MCContentSize
  PutInputs = {1}
  MaxTransfers = 2
  ArtifactRunBytes = 2
  ArtifactStoreBytes = 2
  MaxArtifactTime = 1
  MaxArtifactFaults = 0
INIT ArtifactsInit
NEXT ArtifactsNext
CHECK_DEADLOCK FALSE
INVARIANT BytesRemain
