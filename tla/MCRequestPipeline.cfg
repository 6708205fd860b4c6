CONSTANTS
    r1 = r1
    r2 = r2
    s1 = s1
    s2 = s2
    bot = bot
    Unnamed = Unnamed
    NoPolicy = NoPolicy
    NoCaps = NoCaps
    NoEdit = NoEdit
    Requests = {r1, r2}
    Secrets = {s1, s2}
    Agents = {bot}
    Domains = {"api"}
    Methods = {"POST"}
    Calls <- MCCalls
    Policies <- MCPolicies
    EmptyPolicy <- MCEmptyPolicy
    Commands <- MCCommands
    Capabilities <- MCCapabilities
    AuditOpen = TRUE
    MaxEdits = 1
SPECIFICATION MCSpec
INVARIANTS
    TypeOK
    
    AllOrNothing
    
    
SYMMETRY MCSymmetry
CONSTRAINT MCConstraint
