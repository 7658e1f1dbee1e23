CONSTANTS
  p1 = p1
  p2 = p2
  o1 = o1
  o2 = o2
  i1 = i1
  Requests = {p1, p2, o1, o2}
  Password = {p1, p2}
  Identities = {"ann", "bob"}
  Who <- Persons
  Subdomains = {"s1", "s2"}
  Wanted <- Choices
  Invites = {i1}
  Brings <- Links
  MaxFaults = 1
SPECIFICATION Spec
INVARIANTS TypeOK OneAccount NoOrphans TokensFit
CHECK_DEADLOCK FALSE
