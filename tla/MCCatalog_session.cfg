\* Sessions of the catalog and commands on a variable of each kind.
SPECIFICATION Spec
CONSTANTS
    Name = {1, 2, 3, 4}
    Upper <- MCUpper
    Literal = {5, 6}
    Empty = 5
    Short = {1, 5}
    Url = {6}
    WithPassword = {6}
    SecretName = {1}
    UrlName = {2}
    ReferenceName = {3}
    Edge <- MCEdge
    Pattern <- MCPattern
    Typed = {1, 6}
    Environment <- MCEnvironment
INVARIANTS TypeOK NeverExposed SelectionShown
PROPERTIES FailedSaveKeepsView FocusFollows ReferencesChecked ImportAddsOnly
