CONSTANTS
  Ops = {"EUDIST"}
  BlockPages = 1
  WordPages = 4
  Allocations = {1}
  Tasklet = {0, 1, 2, 3, 4, 5}
  ChunksPerPage = 4
  ItemNum = 3
  BlkCounts = {1}
  Src1 <- TestSrc1
  Src2 <- TestSrc2
  Tenths <- Parameters
  KernelSize = 3
  Junk = Junk
SPECIFICATION TestSpec
INVARIANTS
  TestIsCorrect
