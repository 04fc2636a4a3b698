SPECIFICATION FairSpec
CONSTANTS
    Guest = {g1}
    Bot = {b1}
    Pod = {p1}
    Worker = {w1, w2}
    Nobody = Nobody
    Capacity = 1
    MaxJoins = 2
    MaxFaults = 1
    MaxAdmin = 1
INVARIANTS RoomIsNotOverfull NobodyIsTwice FreeSlotIsOwed
PROPERTIES GhostsLeave SlotIsTaken
