SPECIFICATION FairSpec
CONSTANTS
  b1 = b1
  b2 = b2
  f1 = f1
  f2 = f2
  f3 = f3
  c1 = c1
  c2 = c2
  c3 = c3
  Batches = {b1, b2}
  Paths = {f1, f2, f3}
  Commits = {c1, c2, c3}
  NoCommit = NoCommit
  NoBlob = NoBlob
  FilesOf <- MCFilesOf
  BlobAt <- MCBlobAt
  MaxKills = 2
INVARIANTS CoveredIsDurable
PROPERTIES KeepsCoverage RetryCovers
CHECK_DEADLOCK FALSE
