SPECIFICATION FairHistorySpec
CONSTANTS
    chatA = chatA
    chatB = chatB
    r1 = r1
    r2 = r2
    r3 = r3
    Nobody = Nobody
    Chats <- TwoChats
    Requests <- TwoRequests
    Capacity = 1
    MaxTries = 2
    MaxStops = 1
    MayAsk <- FirstInA
    MayRollBack = TRUE
INVARIANTS NoLeak
PROPERTIES RequestsEnd
CHECK_DEADLOCK FALSE
