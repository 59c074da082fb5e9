\* A request comes in before a schema has been fetched, or meets policies mounted late.
SPECIFICATION Spec
CONSTANTS
    Config <- MCConfig
    Routes <- MCRoutes
    Pipes <- MCPipes
    Policy = {"auth", "log", "check", "shape", "proxy"}
    Name = {"api", "old", "none"}
    Host = {"a", "b"}
    Schema = {"l", "m", "f"}
    Remote = {"f"}
    IdOf <- MCIdOf
    Req = {r1, r2}
    None = None
    MaxGens = 2
    MaxPipelines = 2
    MaxSteps = 3
    MaxUrls = 2
INVARIANTS
    InSequence
\* Every request ends and generations run out.
CHECK_DEADLOCK FALSE
