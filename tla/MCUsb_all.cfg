SPECIFICATION Spec
CONSTANTS MaxPort = 2 MaxSlot = 2 MaxMsd = 2 RingTrbs = 2
 Keyboards = {1} Sticks = {2} Gadgets = {}
 MaxTimeouts = 1 MaxEvents = 2 MaxMoves = 2 CtrlC = FALSE
INVARIANTS AnswerIsOwn KeyboardHeard IndexReachesItsDevice
CHECK_DEADLOCK FALSE
