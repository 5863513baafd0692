SPECIFICATION Spec
CONSTANTS
    Ids = {1, 2, 3, 4, 5, 6}
    Forced = {f1, f2, f3}
    Plain = {p1}
    Previews = {v1}
    MaxAborts = 1
SYMMETRY Symmetry
INVARIANTS LinksEndInReady RegenerationsSerialize
PROPERTY NeverWithoutReady
