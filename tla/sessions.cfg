\* One user whose row is changed at any time, even to a role the server does not
\* know, two requests of one client, a server restarted with either of two keys.
CONSTANTS
    c1 = c1
    q1 = q1
    q2 = q2
    k1 = k1
    k2 = k2
    Users = {"operator"}
    Roles = {"operator", "auditor"}
    Clients = {c1}
    Requests = {q1, q2}
    Routes = {"write", "audits"}
    Keys = {k1, k2}
    TTL = 2
    Second = 2
    MaxLogin = 1
    MaxTime = 3
SYMMETRY Interchangeable
SPECIFICATION Spec
INVARIANTS
    TypeOK
    ButtonsAgree
PROPERTIES
    RightsAreRecent
    SessionsLast
