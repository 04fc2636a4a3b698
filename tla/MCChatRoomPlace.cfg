SPECIFICATION Spec
CONSTANTS
    Guest = {g1, g2}
    Bot = {b1}
    Pod = {p1, p2}
    Worker = {w1, w2}
    Nobody = Nobody
    Capacity = 1
    MaxJoins = 4
    MaxFaults = 0
    MaxAdmin = 0
SYMMETRY Symmetry
PROPERTIES ReconnectKeepsPlace
