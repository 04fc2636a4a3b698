SPECIFICATION Spec
CONSTANTS
    WikiSlug = {w1}
    BlogSlug = {b1}
    Text = {x, y}
    None = None
    MaxEdits = 1
    MaxWrites = 2
    MaxFaults = 0
PROPERTIES SameIsSame
