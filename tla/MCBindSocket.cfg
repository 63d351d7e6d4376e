\* Two sockets, a listener and another reference, each used once, and two of the
\* four callbacks, which are referenced and given back alike.  The program ends,
\* and the model at a mishap: deadlock is not checked.
SPECIFICATION BindSpec
CONSTANTS
    Handles = {s1, s2}
    Timers = {}
    Listeners = {l1}
    Others = {o1}
    Callbacks = {"read", "error"}
    MaxUsers = 2
    MaxChunks = 2
    NoFrame = NoFrame
INVARIANTS
    RefsAreOwn
    HandlesAreOwned
    ClosedAreForgotten
PROPERTY
    EndedAreClosed
CHECK_DEADLOCK FALSE
