SPECIFICATION FairSpec
CONSTANTS
    ru = ru  other = other
    Clients = {ru, other}
    Repertoire <- Roles
    MaxConns = 1
INVARIANTS
    PlacesKept
    AnswersUnderstood
    DisplacedIsTold
PROPERTIES
    EveryCallReturns
CHECK_DEADLOCK FALSE
