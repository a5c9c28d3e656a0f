SPECIFICATION FairSpec
CONSTANT Child = {p1, p2}
PROPERTIES Reaped ChildEnds KeepsAccepting
CHECK_DEADLOCK FALSE
