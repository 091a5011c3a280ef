SPECIFICATION NoticeSpec
CONSTANTS
    p1 = p1
    p2 = p2
    r = r
    a = a
    b = b
    Policies <- ChainPolicies
    Chats <- ChainChats
    Protected <- ChainProtected
    InitRequired <- ChainRequired
    Editable <- Nothing
    Toggled <- Nothing
    Grace = 2
    MaxPending = 2
    Faults = FALSE
    Throttling = FALSE
INVARIANTS TypeOK MemberOnRecord NoticeOwed
PROPERTIES RefinesContract ActivatedOnlyIfCompliant KickCascades FullNotice
