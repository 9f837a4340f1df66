------------------------------ MODULE MCFcPort ------------------------------
(***************************************************************************)
(* Two hosts for FcPort.  host1 has three ports, with the directory        *)
(* `power' before the last of them; host2 has no link_state file.  Both    *)
(* are listed, host1 is shown, and its statistics, too.                    *)
(***************************************************************************)
EXTENDS FcPort, TLC

HashOf ==
    "rport1" :> 1 @@ "rport2" :> 2 @@ "power" :> 3 @@ "rport3" :> 4 @@ "host1" :> 5 @@ "host2" :> 6

MCHash == [o \in Object |-> HashOf[o]]

MCKind ==
    [o \in Object |-> CASE o \in {"host1", "host2"}   -> "host"
                        [] o \in {"rport1", "rport2", "rport3"} -> "rport"
                        [] OTHER                      -> "other"]

MCParent == [o \in Object |-> IF MCKind[o] = "host" THEN Root ELSE "host1"]

MCCalls ==
    {[op |-> "list", host |-> Root],
     [op |-> "show", host |-> "host1"], [op |-> "stats", host |-> "host1"]}

ShowOnly == {[op |-> "show", host |-> "host1"]}

\* One file of each kind that matters: the first and the last of a function, one
\* converted at once, the one that ends get_fc_info().
MCDetailFiles ==
    <<[file |-> "port_id", how |-> "format"], [file |-> "max_npiv_vports", how |-> "number"]>>
MCDriverFiles ==
    [d \in Drivers |-> IF d = "lpfc" THEN <<[file |-> "fwrev", how |-> "format"]>>
                                     ELSE <<[file |-> "fw_version", how |-> "format"]>>]
MCLinkFiles ==
    <<[file |-> "link_state", how |-> "gate"], [file |-> "active_mode", how |-> "format"]>>
MCStatFiles ==
    <<[file |-> "tx_frames", how |-> "format"], [file |-> "fpin_dn", how |-> "format"]>>
MCRportFiles == <<[file |-> "port_id", how |-> "format"], [file |-> "roles", how |-> "format"]>>

MCSupported ==
    [o \in Object |->
        CASE MCKind[o] = "rport" -> {"port_id", "roles"}
          [] o = "host1"  -> {"symbolic_name", "port_id", "max_npiv_vports", "fwrev",
                              "link_state", "active_mode", "tx_frames"}
          [] o = "host2"  -> {"symbolic_name", "port_id", "max_npiv_vports", "fwrev",
                              "active_mode", "tx_frames"}
          [] OTHER        -> {}]

AnyLoad == {<<>>, <<"lpfc">>, <<"qla2xxx", "lpfc">>}
OneLoaded == {<<"lpfc">>}
BothLoaded == {<<"qla2xxx", "lpfc">>}
MCDriverOf == [o \in Object |-> "lpfc"]
=============================================================================
