SPECIFICATION FairSpec
CONSTANTS
    r1 = r1
    r2 = r2
    s1 = s1
    s2 = s2
    Requests <- MCRequests
    Reruns <- MCReruns
    Capacity = 1
CHECK_DEADLOCK FALSE
INVARIANTS TypeOK AnsweredMeansDone
PROPERTIES RequestsAreAnswered CommandsAreDone
