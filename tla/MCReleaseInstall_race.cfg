\* The user writes a skill of their own while a run is on its way.
SPECIFICATION Spec
CONSTANTS
    r1 = r1  r2 = r2
    d1 = d1  d2 = d2
    Own = Own
    Run = {r1}
    Dest = {d1}
    MaxVersion = 2
    Faults = {"race"}
SYMMETRY Symmetric
INVARIANTS UnmarkedPreserved
