CONSTANTS
    base = base  r = r  s = s  a = a  b = b  x = x
    cand = cand  n1 = n1  n2 = n2
    NoInode = NoInode
    PathRef = PathRef
    Fds = {"fd1", "fd2"}
    Self = Self
    Inodes = {base, r, s, a, b, x}
    Names = {cand, n1, n2}
    Top = base
    Cand = cand
    LinkDir = base
    Procs = {}
    InitHosts <- MCHosts
    CreateKinds = {"link", "dir"}
    Sizes = {1}
    MaxChanges = 2
    MaxOpens = 0
    SelfVisible = FALSE
    SelfNamed = FALSE
    MayHide = FALSE
    MayExpire = FALSE
    MaxTreeEntries = 5
    FdLimit = 5
SPECIFICATION Spec
INVARIANT TypeOK
INVARIANT RemovalsVerified
INVARIANT NothingShared
INVARIANT CompleteWhenUndisturbed
INVARIANT VerdictHonest
CHECK_DEADLOCK FALSE
