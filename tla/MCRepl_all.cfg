CONSTANTS
    Programs = {"ends", "polls", "bare"}
    MaxPresses = 4
    MaxFinalizers = 2
SPECIFICATION Spec
INVARIANTS InterruptsOnce
PROPERTIES PolledInterruptDelivered ThreePressesEnd
CHECK_DEADLOCK FALSE
