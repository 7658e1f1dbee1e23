CONSTANTS
  sync = sync
  agent = agent
  i1 = i1
  i2 = i2
  Callers = {sync, agent}
  Instances = {i1, i2}
  InstanceOf <- Objects
  Calls <- HowOften
  Burst = 1
  MaxRetries = 1
  FailureThreshold = 2
  WithJob = {agent}
  SuccessThreshold = 2
  HalfOpenMax = 1
  Limit <- Least
SPECIFICATION Spec
INVARIANTS TypeOK OpenForACause StopBoundsAttempts
PROPERTIES OpenedForGood EventuallyAnswered
CHECK_DEADLOCK FALSE
