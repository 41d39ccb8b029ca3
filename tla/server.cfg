SPECIFICATION SmallSpec
CONSTANTS
    Threads = {t1, t2}
    Keys = {k1, k2}
    Requests = {r1, r2}
    MaxEntries = 1
    Metas = {0, 1}
    NoMeta = NoMeta
    Errors = {"os_error", "too_large", "malformed", "value_error"}
    None = None
    Tools = {"list_tables", "search", "search_invalid", "get_script", "get_variables", "reload", "list_files", "unknown"}
    Shapes = {"ok", "big", "malformed", "drifted", "unsteady", "absent", "dangling"}
    MaxStamp = 1
SYMMETRY Symmetry
INVARIANTS ServerTypeOK OneJobPerWaitingTask DegradedAnswersOnly ReloadedIsFresh
PROPERTIES EveryTargetAccountedFor OneBadFileSparesTheRest
