SPECIFICATION Spec
CONSTANTS
    Offers <- SomeOffers
    Accounts = {"a", "b"}
    Cap <- SmallCap
    Promoted = {"service_name", "family", "record_type"}
    CostLimit = 2
    MaxOffers = 4
CONSTRAINT FullOnesLast
INVARIANTS
    WithinLimits
    OncePerResponse
PROPERTIES
    NoCostIsLost
CHECK_DEADLOCK FALSE
