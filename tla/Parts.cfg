SPECIFICATION PartsSpec
CONSTANTS
    Agents = {a, b}
    Indices = {0, 1}
    Ids = {"a", "b"}
    Names = {"f"}
    Endpoints = {"ollama", "local"}
    Models = {"m"}
    Listings = {{}, {"m"}, {"n"}}
    MaxRows = 5
    MaxCalls = 3
    MaxRules = 3
    MaxWords = 5
    MaxChunks = 4
    MaxGates = 3
    MaxTargets = 2
CHECK_DEADLOCK FALSE
INVARIANTS RulesDecide PushesAreSeen CallsAssembled PolicyIsSound LaterFileWins  AuthorityFollows
