\* A concat of two slices and a stripe.
SPECIFICATION Spec
CONSTANTS
    SliceCount = 2
    Start <- MCStart
    Len <- MCLen
    Count = 2
    Sizes <- MCSizes
    Values = {v}
    Zero = zero
    Keys = {k, other}
    Key = k
    BaseIv = iv
    Closed = Closed
    NoReply = NoReply
INVARIANTS
    RoutesAreApart
    OthersUntouched
PROPERTY
    ImplementsBlockDevice
