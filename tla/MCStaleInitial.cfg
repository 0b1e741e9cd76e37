CONSTANT
    CallId = {c1}
SPECIFICATION Spec
INVARIANTS
    NoStaleInitial
