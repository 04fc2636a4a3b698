SPECIFICATION FairSpec
CONSTANTS
    Tab = {ta, tb}
    Room = {r1}
    Socket = {1, 2, 3}
    None = None
    TimeControl = {FALSE}
    MaxRooms = 1
    UndoLimit = 1
    BoardSize = 1
    MaxRestarts = 1
PROPERTIES
    NobodyWaitsForEver
