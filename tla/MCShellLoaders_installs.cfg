\* Two overlapping installs, stopped and cut short anywhere; upgrades, removal.
SPECIFICATION Spec
CONSTANTS
    p1 = p1  p2 = p2
    r1 = r1  r2 = r2
    s1 = s1
    Proc = {p1, p2}
    Release = {r1, r2}
    Shell = {s1}
    NoRelease = NoRelease  Absent = Absent  Partial = Partial  Mixed = Mixed
    Empty = Empty  Blank = Blank  Link = Link
    RcFiles <- OneRc
    Edited <- SomeProfiles
    First <- FirstProfiles
    MaxEvents = 2
SYMMETRY Symmetric
INVARIANTS TypeOK RuntimesWhole ShellNeverStranded BlockOnce
PROPERTIES RuntimeStable ProfileKept InstallReaches
