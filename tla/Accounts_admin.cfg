SPECIFICATION Spec
CONSTANTS
    ann = ann
    bob = bob
    cy = cy
    q1 = q1
    q2 = q2
    q3 = q3
    None = None
    Emails = {ann, bob, cy}
    Requests = {q1, q2, q3}
    Roles = {"analyst", "controller", "admin"}
    Bootstrap = cy
    MaxFaults = 1
    MaxStarts = 3
CONSTANTS
    DemoRole <- MCDemoRole
SYMMETRY RequestSymmetry
INVARIANT TypeOK
INVARIANT AdminRemains
INVARIANT TrailTellsTheAccount
INVARIANT OneAccountPerAddress
CHECK_DEADLOCK FALSE
