SPECIFICATION Spec
CONSTANTS
    Admins = {a1}
    Tasks = {t1, t2}
    Policies = {p1, p2}
    Chats = {c1}
    MaxStops = 1
    Failures = TRUE
    None = None
INVARIANTS TypeOK OnePolicyPerChat AnswerFindsData ToldIsWritten
PROPERTIES WrittenAsEntered
SYMMETRY Symmetry
