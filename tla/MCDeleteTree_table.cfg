CONSTANTS
    base = base  r = r  s = s  a = a  b = b  x = x
    cand = cand  n1 = n1  n2 = n2 
    NoInode = NoInode
    PathRef = PathRef
    Fds = {"fd1", "fd2"}
    Self = Self
    Inodes = {base, r, s, a, b, x}
    Names = {cand, n1, n2}
    Top = base
    Cand = cand
    LinkDir = base
    Procs = {"p1"}
    InitHosts <- MCHosts
    CreateKinds = {"file"}
    Sizes = {1}
    MaxChanges = 1
    MaxOpens = 0
    SelfVisible = TRUE
    SelfNamed = FALSE
    MayHide = FALSE
    MayExpire = TRUE
    MaxTreeEntries = 5
    FdLimit = 8
SPECIFICATION FairSpec
CHECK_DEADLOCK FALSE
INVARIANT OnlyTheCandidate
PROPERTY UndisturbedOutcome
