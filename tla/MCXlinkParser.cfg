SPECIFICATION Spec
CONSTANTS
    MaxPayload = 2
    SOF = 2
    Noisy <- MCNoisy
    Plain <- MCPlain
    MaxNoisy = 2
    MaxFaults = 2
CHECK_DEADLOCK FALSE
INVARIANTS
    TypeOK
    ParserInv
    DeliveredIsSent
    WholeFrameDelivered
    OutageInv
    OutageIsBounded
