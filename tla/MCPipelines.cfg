\* Two requests, a reload or restart, and schemas that are fetched meanwhile.
SPECIFICATION FairSpec
CONSTANTS
    Config <- MCConfig
    Routes <- MCRoutes
    Pipes <- MCPipes
    Policy = {"auth", "log", "check", "shape", "proxy"}
    Name = {"api", "old", "none"}
    Host = {"a", "b"}
    Schema = {"l", "m", "f"}
    Remote = {"f"}
    IdOf <- MCIdOf
    Req = {r1, r2}
    None = None
    MaxGens = 2
    MaxPipelines = 2
    MaxSteps = 3
    MaxUrls = 2
INVARIANTS
    TypeOK
    StepsInOrder
    WholePass
    EvenTurns
    SchemasAreOwn
PROPERTIES
    RequestsEnd
\* Every request ends and generations run out.
CHECK_DEADLOCK FALSE
