SPECIFICATION FairSpec
CONSTANTS
    Object = {"host1", "host2", "rport1", "rport2", "rport3", "power"}
    Root = "root"
    Kind <- MCKind
    Parent <- MCParent
    Hash <- MCHash
    MaxEvents = 3
    Calls <- MCCalls
    Attributes = {"symbolic_name", "port_id", "max_npiv_vports", "fwrev", "fw_version",
                  "link_state", "active_mode", "tx_frames", "fpin_dn", "roles"}
    Supported <- MCSupported
    DetailFiles <- MCDetailFiles
    DriverFiles <- MCDriverFiles
    LinkFiles <- MCLinkFiles
    StatFiles <- MCStatFiles
    RportFiles <- MCRportFiles
    Loads <- AnyLoad
    DriverOf <- MCDriverOf
INVARIANTS TypeOK RowsTrue CrashNeedsMissingFile PortsFitList
PROPERTIES EnumeratesHostsAndPorts Ends
