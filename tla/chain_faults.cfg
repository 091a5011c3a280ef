SPECIFICATION NoticeSpec
CONSTANTS
    p1 = p1
    p2 = p2
    r = r
    a = a
    b = b
    Policies <- ChainPolicies
    Chats <- ChainChats
    Protected <- ChainProtected
    InitRequired <- ChainRequired
    Editable <- Nothing
    Toggled <- Nothing
    Grace = 1
    MaxPending = 1
    Faults = TRUE
    Throttling = TRUE
PROPERTIES FullNotice RefinesContract ActivatedOnlyIfCompliant
