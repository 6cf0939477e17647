SPECIFICATION Spec
CONSTANTS
    o1 = o1
    o2 = o2
    n1 = n1
    n2 = n2
    n3 = n3
    todo = todo
    done = done
    Owners = {o1, o2}
    Ids = {1, 2, 3}
    Names = {n1, n2, n3}
    Status = {todo, done}
    MaxLimit = 2
    MaxOffset = 2
    MaxTime = 1
    MaxRemoved = 2
SYMMETRY Symmetry
INVARIANTS MissedBounded
