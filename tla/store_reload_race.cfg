SPECIFICATION HSpec
CONSTANTS
    Threads = {t1, t2}
    Keys = {k1}
    MaxEntries = 1
    Shapes = {"ok"}
    MaxStamp = 2
    None = None
SYMMETRY Symmetry
PROPERTIES FreshAfterReload
