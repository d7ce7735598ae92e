\* The docstrings of the middleware, with the two workers of docker-compose.yml.
SPECIFICATION Spec
CONSTANTS
    Workers = {w1, w2}
    Clients = {c1}
    Paths = {"/metrics"}
    DefaultLimit = 2
    Overrides <- MCOverrides
    StartsWith <- MCStartsWith
    Window = 3
    Second = 2
    MaxTime = 5
    MaxRequests = 3
INVARIANT ClientWindowHeld
