INIT Init
NEXT Next
CONSTANTS
  r1 = r1
  r2 = r2
  NoReq = NoReq
  Reqs <- MCReqs
  Blocks = 2
  Values <- MCValues
  Sent <- MCTransfers
  ByteSwap = FALSE
  Parallel = "no"
  Sparse = TRUE
  TornLookups = FALSE
INVARIANT TypeOK
INVARIANT ReadsAreCurrent
INVARIANT PublishedMatchesImage
INVARIANT CopiesStayInBuffer
SYMMETRY Symmetry
