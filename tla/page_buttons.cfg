SPECIFICATION Spec
CONSTANTS
    Admins = {a1}
    Jobs = {j1, j2}
    Messages = {m1}
    Subscribers = {s1}
    PageSize = 1
    MaxStops = 1
    Failures = TRUE
    None = None
PROPERTIES PagesTurn
