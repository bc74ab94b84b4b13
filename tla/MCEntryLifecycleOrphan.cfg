SPECIFICATION Spec
INVARIANTS FailsClosed
