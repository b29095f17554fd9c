CONSTANTS
    c1 = c1
    c2 = c2
    Clients = {c1, c2}
    MaxConns = 3
    MaxRequests = 4
    Root = Root
    None = None
SPECIFICATION Spec
SYMMETRY Symmetry
INVARIANTS TypeOK LoggedInAtBothEnds SessionOfCurrentConnection SpinsOnlyWithoutClose
PROPERTY ResponsesLagByPutsGivenUp
