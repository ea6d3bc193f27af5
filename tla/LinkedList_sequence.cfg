\* LinkedList_sequence: see README.md, section "Runs".
CONSTANTS
    Cells = {c1, c2, c3, c4}
    Data = {p, q}
    NULL = NULL
    Junk = Junk

SPECIFICATION Spec
INVARIANTS WellLinked
PROPERTIES ImplementsSequence
\* NULL passed to removeNode is a page fault, and a panic.
CHECK_DEADLOCK FALSE
