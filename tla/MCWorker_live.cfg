SPECIFICATION FairSpec
CONSTANTS
    Sessions = {s1}
    NoSession = NoSession
    Slots = {r1, r2, r3}
    NoSlot = NoSlot
    Transitions <- MCTransitions
    Backoffs = 2
    MailboxCap = 1
    BusCap = 2
    Budget <- LiveBudget
CHECK_DEADLOCK FALSE
PROPERTIES UploadedIsPickedUp ClaimedIsResolved SendsReturn
