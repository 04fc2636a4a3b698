SPECIFICATION Spec
CONSTANTS
    Tab = {ta, tb}
    Room = {r1}
    Socket = {1, 2, 3}
    None = None
    TimeControl = {TRUE}
    MaxRooms = 1
    UndoLimit = 1
    BoardSize = 2
    MaxRestarts = 0
PROPERTIES
    ResultWaitsForTheAbsent
