SPECIFICATION DirectSpec
CONSTANTS
    Thread = {t1, t2}
    None = None
    RingSize = 3
    MaxRoom = 1
    SeqMod = 3
    Erratum = {t1, t2}
PROPERTIES PointerMovesOn
