\* A receipt write that fails after its replacement.
SPECIFICATION Spec
CONSTANTS
    r1 = r1  r2 = r2
    d1 = d1  d2 = d2
    Own = Own
    Run = {r1}
    Dest = {d1}
    MaxVersion = 2
    Faults = {"late"}
SYMMETRY Symmetric
INVARIANTS NoStaleReceipt
