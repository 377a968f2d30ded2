\* A process dies while it creates the storage key; migrate-storage follows.
SPECIFICATION Spec
CONSTANTS
    p1 = p1  p2 = p2  p3 = p3
    h1 = h1  h2 = h2
    e0 = e0  e1 = e1  e2 = e2  e3 = e3
    k1 = k1  k2 = k2  k3 = k3
    Proc = {p1, p2}
    Home = {h1}
    HomeOf <- OneHome
    Edit = {e0, e1}
    Key = {k1}
    NoProc = NoProc  NoEdit = NoEdit  NoKey = NoKey
    Torn = Torn  Plain = Plain  Missing = Missing
    FirstSeal = {Plain}
    FirstDir = {"kept"}
    Legacy <- NoLegacy
    MaxLosses = 0
    Faults = {"kill"}
INVARIANTS MigrationRecovers
