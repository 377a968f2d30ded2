\* Two processes in one home; kills, I/O errors and a removed key.
SPECIFICATION Spec
CONSTANTS
    p1 = p1  p2 = p2  p3 = p3
    h1 = h1  h2 = h2
    e0 = e0  e1 = e1  e2 = e2  e3 = e3
    k1 = k1  k2 = k2  k3 = k3
    Proc = {p1, p2}
    Home = {h1}
    HomeOf <- OneHome
    Edit = {e0, e1, e2}
    Key = {k1, k2}
    NoProc = NoProc  NoEdit = NoEdit  NoKey = NoKey
    Torn = Torn  Plain = Plain  Missing = Missing
    FirstSeal = {Plain, Missing}
    FirstDir = {"kept"}
    Legacy <- OneLegacy
    MaxLosses = 0
    Faults = {"kill", "io", "rmkey"}
SYMMETRY Symmetric
INVARIANTS TypeOK KeyMatches NoLostUpdate RollbackExact
PROPERTIES SnapshotFirst NeverRekeyed SnapshotsOnlySealed ImplementsRegister
