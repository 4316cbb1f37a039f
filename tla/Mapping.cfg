CONSTANTS
  SourceUsers = {s1, s2}
  TargetUsers = {t1, t2}
  MailUsers = {m1}
  Employees = {e1}
  Upns = {u1, u2}
  Addresses = {a1}
  Orgs = {o1}
  NoValue = NoValue
  Absent = Absent
  MaxChanges = 4
SPECIFICATION Spec
SYMMETRY MappingSymmetry
VIEW MappingView
INVARIANTS
  PersonOnce
  MapAndPeopleAgree
  NobodyLost
  UnmatchedIsACount
CHECK_DEADLOCK FALSE
