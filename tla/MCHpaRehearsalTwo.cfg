SPECIFICATION Spec
CONSTANTS
    Run = {r1, r2, r3}
    Page = {p1}
    Thread = {t1, t2}
    None = None
    MaxFaults = 0
SYMMETRY Symmetry
INVARIANT OneRehearsal
