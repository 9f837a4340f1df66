----------------------------- MODULE MCIscsiShow -----------------------------
(***************************************************************************)
(* One host with two sessions, one of which has a connection and two       *)
(* targets, with a disk behind each and an array controller beside one,    *)
(* and a host with neither.                                                *)
(***************************************************************************)
EXTENDS IscsiShow, TLC

Tree ==
    "host1"       :> <<"host", "root", 1>>          @@
    "host2"       :> <<"host", "root", 2>>          @@
    "session1"    :> <<"session", "host1", 3>>      @@
    "session2"    :> <<"session", "host1", 4>>      @@
    "connection1" :> <<"connection", "session1", 5>> @@
    "target1"     :> <<"target", "session1", 6>>    @@
    "target2"     :> <<"target", "session1", 7>>    @@
    "power"       :> <<"other", "target1", 8>>      @@
    "array"       :> <<"lun", "target1", 9>>        @@
    "disk1"       :> <<"lun", "target1", 10>>        @@
    "disk2"       :> <<"lun", "target2", 11>>

MCKind == [o \in Object |-> Tree[o][1]]
MCParent == [o \in Object |-> Tree[o][2]]
MCHash == [o \in Object |-> Tree[o][3]]

ListCall == [op |-> "list", host |-> Root]
ShowCall == [op |-> "show", host |-> "host1"]
Both == {ListCall, ShowCall}

F(of, file, how) == [of |-> of, file |-> file, how |-> how]

\* One file of each kind that matters of every table.
MCSessionFiles ==
    <<F("session", "targetname", "format"), F("session", "abort_tmo", "number")>>
MCFillFiles == <<F("session", "targetname", "format"), F("connection", "port", "format")>>
MCConnectionFiles == <<F("connection", "port", "number"), F("connection", "state", "format")>>

MCSupported ==
    [o \in Object |-> CASE MCKind[o] = "session"    -> {"targetname", "abort_tmo"}
                        [] MCKind[o] = "connection" -> {"port"}
                        [] MCKind[o] = "lun"        -> {"type", "state", "block"}
                        [] OTHER                    -> {}]
=============================================================================
