SPECIFICATION Spec
CONSTANTS
    r1 = r1
    c1 = c1
    c2 = c2
    m1 = m1
    None = None
    Runs = {r1}
    Clients = {c1, c2}
    Memories = {m1}
    NStages = 1
    MaxAttempts = 2
    MaxMessages = 2
    Batch = 1
    MaxFailures = 1
CHECK_DEADLOCK FALSE
PROPERTIES
    RequestsEnd
    WithdrawnIsErased
