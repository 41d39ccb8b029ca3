SPECIFICATION SlowMatchSpec
CONSTANTS
    Threads = {t1, t2}
    Keys = {k1}
    Requests = {r1, r2}
    MaxEntries = 1
    Metas = {0, 1, 2}
    NoMeta = NoMeta
    Errors = {"os_error", "too_large", "malformed", "value_error"}
    None = None
    Tools = {"search", "list_files"}
    Shapes = {"ok"}
    MaxStamp = 0
PROPERTIES SlowMatchSparesOthers
