CONSTANTS
  None = None
  j1 = j1
  j2 = j2
  t1 = t1
  t2 = t2
  p1 = p1
  p2 = p2
  Jobs = {j1}
  Threads = {t1, t2}
  Processes = {p1, p2}
  ProcessOf <- Separate
  MaxRetries = 3
  Budget <- Stopping
SPECIFICATION Spec
INVARIANTS NotStranded StopIsObeyed BilledPerDelivery
PROPERTY NoWorkAfterStop
