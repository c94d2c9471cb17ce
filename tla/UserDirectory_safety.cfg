CONSTANTS
  Uid = {u1, u2}
  Email = {adminAddress, e1}
  Req = {r1, r2}
  Role <- ThreeRole
  Level <- ThreeLevel
  AdminRole = "SYSTEM_ADMIN"
  StudentRole = "STUDENT"
  AdminEmail = adminAddress
  Unused = Unused
  Gone = Gone
  Nobody = Nobody
  None = None
SPECIFICATION Spec
SYMMETRY Symmetric
INVARIANTS TypeOK EmailUnique AdminsAreSeeded
PROPERTIES AdminsStayAdmins HierarchyUnlessStale
