\* Two homes share one storage key and have a lock each, and a reader runs
\* beside the writers of one of them; kills at any moment.
SPECIFICATION Spec
CONSTANTS
    p1 = p1  p2 = p2  p3 = p3
    h1 = h1  h2 = h2
    e0 = e0  e1 = e1  e2 = e2  e3 = e3
    k1 = k1  k2 = k2  k3 = k3
    Proc = {p1, p2, p3}
    Home = {h1, h2}
    HomeOf <- TwoHomes
    Edit = {e0, e1}
    Key = {k1, k2}
    NoProc = NoProc  NoEdit = NoEdit  NoKey = NoKey
    Torn = Torn  Plain = Plain  Missing = Missing
    FirstSeal = {Plain, Missing}
    FirstDir = {"kept"}
    Legacy <- NoLegacy
    MaxLosses = 0
    Faults = {"kill"}
SYMMETRY Symmetric
CONSTRAINT ThirdReads
INVARIANTS Readable ReaderFindsKey
