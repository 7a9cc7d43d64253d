SPECIFICATION FairLoopSpec
CONSTANTS
    Configs <- MCConfigs
    Blank = Blank
    Junk = Junk
    LongSleep = 4
    EntryLimit = 3
    MaxLag = 2
INVARIANTS TypeOK NoOversleep EntriesConserved
PROPERTIES DueEntriesAreTaken ImplementsDueQueue
