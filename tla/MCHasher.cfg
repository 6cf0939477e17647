SPECIFICATION SlotSpec
CONSTANTS
    g1 = g1
    g2 = g2
    g3 = g3
    g4 = g4
    Callers = {g1, g2, g3, g4}
    Concurrency = 2
INVARIANTS SlotsHeld
PROPERTIES CallsEnd
