\* One project at a time, of every way the three keys are computed.
CONSTANTS
  Sensitive = {"DB"}
  PublicParts = {"host"}
  Here = "dev"
  ExprsA <- MCExprsA
  ExprsB <- MCExprsB
  ExprsC <- MCExprsC
  Depths = {2, 9}
  Projects <- MCProjects
SPECIFICATION Spec
CHECK_DEADLOCK FALSE
INVARIANT ReadsAreMarked
