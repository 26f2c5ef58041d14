SPECIFICATION Spec
CONSTANTS
  d1 = d1
  d2 = d2
  d3 = d3
  d4 = d4
  d5 = d5
  Docs <- MCDocs
  None = None
  K = 4
  RRF_CONSTANT = 60
SYMMETRY MCSymmetry
INVARIANTS
  TypeOK
  AgreementIsKept
  BothOutweighOne
  NoChunkTwice
  BestAreOutermost
