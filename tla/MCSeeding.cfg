SPECIFICATION Spec
CONSTANTS
    Email = {"admin", "eve"}
    Role = {"tenant_admin", "student"}
    Student = "student"
    Seeded = {"admin"}
    SeedRole <- MCSeedRole
    Req = {r1, r2}
    MaxStart = 4
SYMMETRY ReqSymmetry
INVARIANTS
    SerialRoles
    AccountOnce
    SeedWhole
CHECK_DEADLOCK FALSE
