SPECIFICATION Spec
CONSTANTS
    Run = {r1, r2}
    Page = {p1}
    Thread = {t1, t2}
    None = None
    MaxFaults = 1
SYMMETRY Symmetry
INVARIANT RivalsAreExplained
PROPERTY CancellationLasts
