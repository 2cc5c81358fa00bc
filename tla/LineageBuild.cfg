SPECIFICATION Spec
CONSTANTS
  p = p
  v = v
  w = w
  t = t
  noDb = noDb
  db = db
  Objects = {p, v, w, t}
  Databases = {noDb, db}
  NoDatabase = noDb
  NoLimit = NoLimit
  Specs = {"hash", "replicate"}
  NoSpec = "none"
  ModelSchemaTypes = {"PROCEDURE", "VIEW", "TABLE", "SYNONYM"}
  Models <- BuildModels
  Requests <- BuildRequests
INVARIANTS NoSilentGap CtasRecorded ExitCodeTruthful
