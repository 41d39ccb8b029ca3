SPECIFICATION MCSpec
CONSTANTS
    Basenames <- MCBasenames
    Sorted <- MCSorted
    MaxFiles = 9
    Letters = {"a", "r", "qvw"}
    Digits = {"1", "2", "3", "4", "5", "6", "7", "8", "9"}
    Unsafe = {"-"}
    Reserved <- MCReserved
    Qvw <- MCQvw
    Decimal <- MCDecimal
    Paths = {"s", "s.qvw", "s.qvw.qvw", "else"}
    Inside = {"s", "s.qvw", "s.qvw.qvw"}
    Args = {"s", "s.qvw", "/else"}
    Candidates <- MCCandidates
    InIndex <- MCInIndex
    Leads <- MCLeads
    None = None
    MaxChanges = 1
    DefaultLimit = 9
    Limits = {2, 9}
CHECK_DEADLOCK FALSE
INVARIANT SchemaNamesDistinct
