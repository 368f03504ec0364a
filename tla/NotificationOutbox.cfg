CONSTANTS
    Endpoints = {e1}
    Workers = {w1, w2}
    Budget = 2
    PerPass = 1
    MaxOffset = 1
    MaxAbandoned = 1
SPECIFICATION Spec
INVARIANTS
    DeliveredWasAccepted
    RequestsAreBounded
PROPERTY EveryDeliverySettles
