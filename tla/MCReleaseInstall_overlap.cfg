\* Two updates overlap while releases are published.
SPECIFICATION Spec
CONSTANTS
    r1 = r1  r2 = r2
    d1 = d1  d2 = d2
    Own = Own
    Run = {r1, r2}
    Dest = {d1}
    MaxVersion = 3
    Faults = {}
SYMMETRY Symmetric
INVARIANTS NoDowngrade
