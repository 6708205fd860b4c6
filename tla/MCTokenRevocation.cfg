CONSTANTS
    home = home
    away = away
    alice = alice
    r1 = r1
    r2 = r2
    NoToken = NoToken
    NoEntry = NoEntry
    Requests <- MCRequests
    Tokens <- MCTokens
    Holds <- MCHolds
    Agents = {alice}
    Issued = {home, away}
    AgentOf <- MCAgentOf
    OutOfScope = {away}
SPECIFICATION FairSpec
INVARIANTS
    TypeOK
    
    ListedOnlyViaFallback
    ScopeLostOnlyOffline
PROPERTIES
    ListNeverShrinks
    RevocationIsLearned
