SPECIFICATION Spec
CONSTANTS
    Sessions = {s1}
    NoSession = NoSession
    Slots = {r1, r2, r3}
    NoSlot = NoSlot
    Transitions <- MCTransitions
    Backoffs = 2
    MailboxCap = 1
    BusCap = 2
    Budget <- DisturbedBudget
CHECK_DEADLOCK FALSE
INVARIANTS TypeOK HandlesAreJoined WrittenBeforeTranscribed NoOrphanedSession
