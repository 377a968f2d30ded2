\* One run after another; failures at every step, kills, a receipt that fails late.
SPECIFICATION Spec
CONSTANTS
    r1 = r1  r2 = r2
    d1 = d1  d2 = d2
    Own = Own
    Run = {r1}
    Dest = {d1, d2}
    MaxVersion = 2
    Faults = {"io", "late", "kill"}
SYMMETRY Symmetric
INVARIANTS TypeOK UnmarkedKept NoDowngrade
PROPERTIES SuccessConsistent FailureRestores ReceiptNamesTool
