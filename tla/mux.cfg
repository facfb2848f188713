SPECIFICATION Spec
CONSTANTS
    Tasks = {t1, t2, t3}
    Slots = 2
    MaxOutages = 2
    MaxGiveUps = 1
INVARIANTS
    SlotOwned
PROPERTY
    ServedOnceSent
CHECK_DEADLOCK FALSE
