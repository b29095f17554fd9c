CONSTANTS
    c1 = c1
    c2 = c2
    m1 = m1
    Clients = {c1, c2}
    Mailboxes = {m1}
    Unknown = Unknown
    Malformed = Malformed
    None = None
    Typed <- MCTyped
    MaxLines = 5
    MaxFaults = 1
SPECIFICATION Spec
SYMMETRY Symmetry
INVARIANTS HandlerFitsMail AcknowledgedMeansStored LinesOfTheWriterKept WaitsForSomething
PROPERTY LateOnlyAfterRefusedData
CHECK_DEADLOCK FALSE
