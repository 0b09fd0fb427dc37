SPECIFICATION Spec
CONSTANTS
    Clients = {c1, c2, c3}
    Kinds = {"request", "system"}
    FaultSets = {{"lost", "ambiguous", "crash"}, {"long", "slow", "late"}}
    Payloads = {p, q}
    TTL = 4
    Lease = 3
    Backoff = 1
    Horizon = 6
SYMMETRY Symmetry
INVARIANTS OneOwner EffectsApart ReplayIsOfSamePayload SuccessStands
CHECK_DEADLOCK FALSE
