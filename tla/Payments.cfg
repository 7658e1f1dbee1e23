CONSTANTS
  None = None
  h1 = h1
  h2 = h2
  Unreadable = Unreadable
  e1 = e1
  e2 = e2
  e3 = e3
  e4 = e4
  e5 = e5
  u1 = u1
  zero = zero
  Handlers = {h1, h2}
  Events = {e1, e2, e3, e5}
  Ignored = {e3}
  UserOf <- UsersOf
  Users = {u1}
  Strangers = {zero}
  Award <- Awards
  Grant = 1
  Budget <- Faults
SPECIFICATION Spec
INVARIANTS TypeOK LedgerIsExact RecordedIsLogged NoCreditFromNothing SerialIsExact MirrorFollows AnsweredIsRecorded
SYMMETRY Symmetric
