SPECIFICATION DirectSpec
CONSTANTS
    Thread = {t1, t2}
    None = None
    RingSize = 3
    MaxRoom = 2
    SeqMod = 3
    Erratum = {t1}
INVARIANTS ScannedInOrderOnce
PROPERTIES EveryFlowResultDelivered RingDrains
