SPECIFICATION Spec
CONSTANTS
    ann = ann
    bob = bob
    Idle = Idle
    Speakers <- MCSpeakers
    MaxSeq = 2
    MaxFaults = 2
    ByteValues = 4
    Levels <- MCLevels
    Frames = 2
    MaxChunk = 8
    WordValues = 128
    Lengths <- MCLengths
    Logprobs <- MCLogprobs
    Unknown = Unknown
    Default <- MCDefault
    Retries = 2
CHECK_DEADLOCK FALSE
INVARIANTS TypeOK TracksAreComplete NoTracksMeansNoAudio WholeTracksAreOnClock JoinedIsTheMean AlignedPathsAgree HeaderDescribesFile ConfidenceIsOfTheReply RefusalsAreFinal
