SPECIFICATION Spec
CONSTANTS
  u1 = u1
  u2 = u2
  del1 = del1
  del2 = del2
  f1 = f1
  f2 = f2
  Uploads <- MCUploads
  Deletions <- MCDeletions
  Files <- MCFiles
  MaxChunks = 2
  MaxInFlight = 2
SYMMETRY MCSymmetry
INVARIANTS
  TypeOK
  UploadIsSearchable
  DeletedIsGone
