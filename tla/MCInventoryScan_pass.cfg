SPECIFICATION Spec
CONSTANTS
    r = r
    a = a
    b = b
    a1 = a1
    a2 = a2
    b1 = b1
    ir = ir
    ia = ia
    ib = ib
    i1 = i1
    i2 = i2
    i3 = i3
    Paths = {r, a, b, a1, a2, b1}
    root = r
    Parent <- MCParent
    Order <- MCOrder
    Inodes = {ir, ia, ib, i1, i2, i3}
    Trees <- MCTrees
    MaxChanges = 2
    MaxBytes = 3
CHECK_DEADLOCK FALSE
INVARIANTS TypeOK WithinBudget TotalsExact SizesExact NothingMissed
