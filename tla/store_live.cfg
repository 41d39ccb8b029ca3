SPECIFICATION FairSpec
CONSTANTS
   Threads = {t1, t2}
   Keys = {k1, k2}
   MaxEntries = 1
   Shapes = {"ok", "big", "malformed", "short", "drifted", "absent"}
   MaxStamp = 1
   None = None
PROPERTIES CallsReturn
