SPECIFICATION Spec
CONSTANTS MaxPort = 2 MaxSlot = 2 MaxMsd = 2 RingTrbs = 2
 Keyboards = {1} Sticks = {2} Gadgets = {}
 MaxTimeouts = 0 MaxEvents = 2 MaxMoves = 0 CtrlC = TRUE
INVARIANT WaitIsGoingOn
CHECK_DEADLOCK FALSE
