SPECIFICATION Spec
CONSTANTS
    Session = {s1, s2}
    Size = {1, 2, 3}
    Capacity = 2
    Nobody = Nobody
INVARIANTS StorageAlive NoHeap NoLeak
