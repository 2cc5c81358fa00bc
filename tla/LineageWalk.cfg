SPECIFICATION FairSpec
CONSTANTS
  p = p
  v = v
  w = w
  t = t
  noDb = noDb
  db = db
  Objects = {p, v, w, t}
  Databases = {noDb}
  NoDatabase = noDb
  NoLimit = NoLimit
  Specs = {"hash", "replicate"}
  NoSpec = "none"
  ModelSchemaTypes <- AllTypes
  Models <- WalkModels
  Requests <- WalkRequests
INVARIANTS TypeOK WalkIsSound ExactClosure
PROPERTIES WalksInLayers Termination
