\* Two sockets, two timers and a listener, in any order.
SPECIFICATION Spec
CONSTANTS
    Handles = {h1, h2}
    Timers = {t1, t2}
    Listeners = {l1}
    MaxUsers = 3
INVARIANTS
    TypeOK
    DnsWhileResolving
    DnsIsCounted
PROPERTIES
    IdleLoopReturns
    TimersFire
    ExitIsObeyed
\* The process ends when the loop is left.
CHECK_DEADLOCK FALSE
