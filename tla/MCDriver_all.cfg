CONSTANTS
    MaxPid = 3
    NDevices = 3
    KindOf <- MCKindOf
    LineOf <- MCLineOf
    MaxClaims = 2
    MaxPending = 1
SPECIFICATION FairSpec
INVARIANTS ClaimsExclusive NoLostInterrupt
PROPERTY InterruptServed
