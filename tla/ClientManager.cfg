CONSTANTS
    Users = {u1, u2, u3}
    Clusters = {k1, k2}
    Clients = {c1, c2, c3, c4}
    NoClient = NoClient
SPECIFICATION Spec
INVARIANTS TypeOK CountExact NoUseAfterClose OneConnection
CHECK_DEADLOCK FALSE
