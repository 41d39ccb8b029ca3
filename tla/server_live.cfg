SPECIFICATION SlowParseSpec
CONSTANTS
    Threads = {t1}
    Keys = {k1}
    Requests = {r1, r2}
    MaxEntries = 1
    Metas = {0, 1, 2}
    NoMeta = NoMeta
    Errors = {"os_error", "too_large", "malformed", "value_error"}
    None = None
    Tools = {"search", "list_tables", "list_files", "reload"}
    Shapes = {"ok"}
    MaxStamp = 1
PROPERTIES EveryRequestAnswered LoopStaysResponsive
