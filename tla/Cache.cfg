SPECIFICATION FairCacheSpec
CONSTANTS
    c1 = c1
    c2 = c2
    Chats = {c1, c2}
    Songs = {m1}
    Nothing = Nothing
    Labels = {"youtube", "local"}
    Tiers = {"best"}
    MayDie = TRUE
INVARIANTS CountsAreSessions
PROPERTIES HeldRowKept DanglingCleaned
CHECK_DEADLOCK FALSE
