SPECIFICATION Spec
CONSTANTS
    BreakerCall = {b1, b2}
    ProxyCall = {p1}
    BreakerThreshold = 2
    ProxyThreshold = 3
    MaxRetries = 2
    CooldownTicks = 2
INVARIANTS
    SingleProbe
