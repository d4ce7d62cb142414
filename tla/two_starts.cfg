SPECIFICATION Spec
CONSTANTS
    Ids = {a, b}
    Orderly = FALSE
INVARIANTS
    SecondStartRejected
