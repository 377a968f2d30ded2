\* Two processes that run commands one after another, a key of each, kills,
\* power losses and a user who changes the key file.
SPECIFICATION Spec
CONSTANTS
    p1 = p1  p2 = p2
    k1 = k1  k2 = k2
    w1 = w1
    v1 = v1
    b1 = b1
    Proc = {p1, p2}
    Key = {k1, k2}
    Password = {w1}
    Variables = {v1}
    Backup = {b1}
    NoKey = NoKey  Malformed = Malformed  Absent = Absent
    MaxEvents = 3
SYMMETRY Symmetric
INVARIANTS TypeOK PartialOnlyByUser ExportOpens
PROPERTIES KeyStands BackupWhole
