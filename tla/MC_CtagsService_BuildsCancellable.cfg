CONSTANTS
    w = w
    s = s
    i = i
    j = j
    u = u
    Session = Session
    NULL = NULL
    Dirs <- MCDirs
    Children <- MCChildren
    TagsDirs <- MCTagsDirs
    UnreadableDirs <- MCUnreadableDirs
    WorkDir = w
    HomeDir = w
    IncludeDir = i
SPECIFICATION Spec
INVARIANT
    BuildsCancellable
CHECK_DEADLOCK FALSE
