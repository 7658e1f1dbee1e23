CONSTANTS
  None = None
  s1 = s1
  s2 = s2
  a1 = a1
  a2 = a2
  Streams = {s1, s2}
  Statuses = {"RUNNING", "COMPLETED"}
  Servers = {a1}
  ServerOf <- Together
  MaxPublished = 3
  MaxFaults = 1
  MaxPurges = 1
SPECIFICATION FairSpec
INVARIANTS TypeOK FaithfulAlone CopiesAreAccounted
PROPERTY EndsWithTheJob
CHECK_DEADLOCK FALSE
