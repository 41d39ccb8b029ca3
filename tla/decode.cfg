SPECIFICATION MCSpec
CONSTANTS
    Escape = 7
    Width = 2
    Garbled = {5, 6}
    Undefined = {6}
    Marker = 3
    Tag = 4
    MaxCount = 4
    MaxSamples = 2
    MaxFields = 3
    Text = 1
    Origins = {"a", "b"}
    Containers <- MCContainers
    Scripts <- MCScripts
CHECK_DEADLOCK FALSE
INVARIANTS BlocksTypeOK EntriesTile ScriptIsWhole DecodesWhatWasWritten RefusesOnlyDamage ValueSetsComplete DirectoryPartitions EachSourceOnce
