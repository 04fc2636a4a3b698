SPECIFICATION Spec
CONSTANTS
    Tab = {ta, tb}
    Room = {r1, r2}
    Socket = {1, 2, 3}
    None = None
    TimeControl = {TRUE}
    MaxRooms = 1
    UndoLimit = 1
    BoardSize = 2
    MaxRestarts = 0
SYMMETRY Symmetry
INVARIANTS
    SeatsAreServed
    PageIsSeated
    ClockIsRight
    CapacityKept
PROPERTIES
    ChangesAreSaved
    ResultStands
    ResultIsKept
