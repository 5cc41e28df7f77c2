CONSTANTS
    Nodes = {n1, n2, n3, n4, n5}
    First = first
    Data = {d1, d2}
    NULL = null
SPECIFICATION Spec
INVARIANT HeapExact
PROPERTY ImplementsContainers
SYMMETRY Symmetry
