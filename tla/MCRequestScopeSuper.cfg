CONSTANTS
    t1 = t1
    t2 = t2
    Tenant = {t1, t2}
    Known = {t1, t2}
    Conn = {1, 2}
    Req = {"a", "b"}
    None = None
SPECIFICATION Spec
INVARIANT SuperadminBypassesRls
