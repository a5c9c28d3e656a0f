SPECIFICATION FairSpec
CONSTANT Conn = {c1, c2, c3}
INVARIANTS ManagedIsBusy
PROPERTIES ReplyStable StopsWhenSignalled Released ImplementsService
CHECK_DEADLOCK FALSE
