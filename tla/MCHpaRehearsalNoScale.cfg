SPECIFICATION FairSpec
CONSTANTS
    Run = {r1}
    Page = {p1}
    Thread = {t1}
    None = None
    MaxFaults = 0
PROPERTY UnscaledEnds
