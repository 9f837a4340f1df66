SPECIFICATION FairSpec
CONSTANTS
    Object = {"host1", "host2", "session1", "session2", "connection1", "target1", "power", "array", "disk1", "target2"}
    Root = "root"
    Kind <- MCKind
    Parent <- MCParent
    Hash <- MCHash
    MaxEvents = 2
    Calls <- Both
    Attributes = {"targetname", "abort_tmo", "port", "state", "type", "block"}
    Supported <- MCSupported
    SessionFiles <- MCSessionFiles
    FillFiles <- MCFillFiles
    ConnectionFiles <- MCConnectionFiles
    Array = {"array"}
INVARIANTS TypeOK RowsTrue LunsOnce CountFits CrashNeedsLogout
PROPERTIES Ends
