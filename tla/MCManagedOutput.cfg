SPECIFICATION Spec
CONSTANTS
    Thread = {t1, t2}
    RingSize = 4
    FifoSize = 1
    SeqMod = 5
INVARIANTS DeliveredInOrderOnce
PROPERTY EveryResultDelivered
