\* Three devices and a collector step in every second turn of the loop.
\* The program ends, after which nothing happens: deadlock is not checked.
CONSTANTS
    Devs = {d1, d2, d3}
    GC_INTERVAL = 2
SPECIFICATION BdevSpec
INVARIANTS
    StackIsOpen
PROPERTIES
    GarbageIsClosed
    EndClosesAll
CHECK_DEADLOCK FALSE
