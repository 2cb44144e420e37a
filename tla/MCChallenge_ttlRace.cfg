SPECIFICATION Spec
CONSTANTS
    v1 = v1
    v2 = v2
    Visitors = {v1, v2}
    HasFallback = TRUE
    Threshold = 2
    MaxFailures = 3
    Primary = "external"
    Window = 2
    Hour = 1
INVARIANTS
    FallbackGrantsLastAnHour
