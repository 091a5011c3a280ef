SPECIFICATION Spec
CONSTANTS
    p1 = p1
    p2 = p2
    r = r
    a = a
    b = b
    Policies <- ChainPolicies
    Chats <- ChainChats
    Protected <- ChainProtected
    InitRequired <- ChainRequired
    Editable <- EditBoth
    Toggled <- ToggleOne
    Grace = 1
    MaxPending = 1
    Faults = FALSE
    Throttling = FALSE
PROPERTIES RefinesContract ActivatedOnlyIfCompliant KickCascades
