----------------------------- MODULE MCListing -----------------------------
(***************************************************************************)
(* Small hosts for Listing.  A .cfg picks the names that exist (Name) and  *)
(* the listings performed (Runs); class, order and kind of every name are  *)
(* given here.                                                             *)
(***************************************************************************)
EXTENDS Listing, TLC

ClassOfName ==
    "sda" :> "sd" @@ "sdb" :> "sd" @@ "nvme0n1" :> "nvme" @@ "md0" :> "md" @@
    "sg0" :> "sg" @@ "st0" :> "st" @@
    "0:0:8:0" :> "enclosure" @@ "1:0:8:0" :> "enclosure"

\* Not the order of the names: a directory is read in the order of hashes.
HashOfName ==
    "sdb" :> 1 @@ "nvme0n1" :> 2 @@ "sda" :> 3 @@ "md0" :> 4 @@ "sg0" :> 5 @@
    "st0" :> 6 @@ "1:0:8:0" :> 7 @@ "0:0:8:0" :> 8

MCClass == [n \in Name |-> ClassOfName[n]]
MCHash == [n \in Name |-> HashOfName[n]]

\* sg0 is a disk until it is replaced by an array controller.
MCArrays == {a \in {<<"sg0", 2>>} : a[1] \in Name}

EnclosureRun == {<<"enclosure">>}

\* The four listings of scsi_disk_utils.c that handle_cmd_errors() performs one
\* after the other, and those of `list cd-rom', `list tape' and `list generic'.
AllRuns ==
    {<<"enclosure", "controller", "disk", "multipath">>, <<"cd-rom">>, <<"tape">>,
     <<"generic">>}

\* When the program starts, sda and sg0 have no nodes yet: one step gives them
\* theirs, two put another device in their place.  The tape drive is to come.
Settling ==
    {[n \in Name |-> CASE n \in {"sda", "sg0"} -> "sysfs"
                       [] n = "st0"            -> "absent"
                       [] OTHER                -> "live"]}

AllLive == {[n \in Name |-> "live"]}
=============================================================================
