SPECIFICATION FairSpec
CONSTANTS
    a = a
    f = f
    g = g
    Nowhere = Nowhere
    Chats <- OneChat
    Checks <- TwoChecks
    Required <- SameChat
    Clearing <- Fresh
    TTL = 2
    Patience = 1
    Horizon = 4
INVARIANTS TypeOK AnswersRecent DeletedStaysOut
PROPERTIES AdmissionLapses
