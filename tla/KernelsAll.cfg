CONSTANTS
  Ops = {"MAC", "LOOKUP", "EUDIST", "FILTER", "ELEW_ADD", "ELEW_PROD", "AFFINE", "CONV_1D"}
  BlockPages = 2
  WordPages = 5
  Allocations = {1, 2}
  Tasklet = {0, 1, 2}
  ChunksPerPage = 2
  ItemNum = 3
  BlkCounts = {1, 2, 3}
  Src1 <- MixedSrc1
  Src2 <- MixedSrc2
  Tenths <- Parameters
  KernelSize = 3
  Junk = Junk
SPECIFICATION TestSpec
INVARIANTS
  SidesAgree
  EudistIsSomeChunk
