SPECIFICATION FairSpec
CONSTANTS
    Downloads = {d1}
    Requests = {}
    Heartbeat = heartbeat
    Socket = socket
    Tokens = {1, 2, 3, 4, 5, 6, 7, 8}
    NoToken = 0
    MaxRetries = 3
    Listed = 3
    Budget <- MCBudget
INVARIANTS TypeOK RefusedTokenIsReplaced BackoffIsListed
PROPERTIES DownloadsReturn StoredTokenIsHealed SocketReturns
