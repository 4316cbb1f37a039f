CONSTANTS
  Sites = {s1, s2}
  Groups = {g1}
  Owners = {u1, u2}
  Orgs = {1, 2}
  NoValue = NoValue
  Absent = Absent
  MaxRenames = 1
  MaxChanges = 6
SPECIFICATION Spec
SYMMETRY SitesSymmetry
VIEW SitesView
CONSTRAINT SitesOrOwners
INVARIANTS
  SettledReferences
  PrimarySiteRefersBack
  DerivedCountsAgree
  OneRowPerDataSet
  OrganizationsAddUp
CHECK_DEADLOCK FALSE
