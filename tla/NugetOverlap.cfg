SPECIFICATION Spec
CONSTANTS
  Procs = {"p1", "p2"}
  PackageOrder <- Order
  Optional = {"sqlclient"}
  Versions = {1, 2}
  Latest = 0
  Tfms = {"net8.0", "net472"}
  Entries <- ZipEntries
  Choices <- Everyday
  Overlap = TRUE
  Crashes = FALSE
INVARIANTS MarkedIsWhole EnsuredIsWhole
