\* One request at a time; what others do to the stores is among the two changes.
SPECIFICATION FairSpec
CONSTANTS
    None = None
    app = app
    user = user
    Consumer = {app, user}
    Registered <- MCRegistered
    Client = {app}
    User = {user}
    Scope = {s}
    Req = {1}
    Kinds = {"key", "bearer", "clientCredentials", "password", "refreshToken", "code", "authorize", "decideCode", "decideToken"}
    MaxId = 3
    MaxChanges = 2
INVARIANTS
    TypeOK
    ScopesHeld
    AdmittedWasValid
PROPERTIES
    EveryRequestAnswered
\* A request rests when there is no room for more documents.
CHECK_DEADLOCK FALSE
