CONSTANTS
    SlotCount = 2
    Valid = {1}
    Hold = 1
    Lease = 1
    MaxLines = 1
SPECIFICATION Spec
INVARIANTS TypeOK FaultIsFinal
PROPERTIES ModesAtRest ChordHonoured ResultTruthful ComesToRest
