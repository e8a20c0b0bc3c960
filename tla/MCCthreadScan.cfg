SPECIFICATION Spec
CONSTANT N = 2
INVARIANT PrintedAfterAll
