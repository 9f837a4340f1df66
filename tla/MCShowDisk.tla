----------------------------- MODULE MCShowDisk -----------------------------
(***************************************************************************)
(* A small host for ShowDisk: two SCSI disks of which one's name begins    *)
(* the other's, a third one and an NVMe disk; sda itself, a name, a part   *)
(* of a name and an NVMe name are asked for.                               *)
(***************************************************************************)
EXTENDS ShowDisk, TLC

MCClass == [n \in Name |-> IF n = "nvme0n1" THEN "nvme" ELSE "sd"]

HashOfName == "sdaa" :> 1 @@ "nvme0n1" :> 2 @@ "sda" :> 3 @@ "sdb" :> 4

MCHash == [n \in Name |-> HashOfName[n]]

\* Every disk may be there, be there without its node, or not be there.
MCLives == [Name -> {"absent", "sysfs", "live"}]

BegunBy ==
    "sda" :> {"sda", "sdaa"} @@ "sd" :> {"sda", "sdaa", "sdb"} @@
    "nvme0n1" :> {"nvme0n1"}

MCBeginsWith == [r \in Requests |-> BegunBy[r] \cap Name]

\* One file of each kind that matters: read first and last, and one that the
\* disk need not have.
MCScsiFiles == <<"model", "dh_state">>
MCNvmeFiles == <<"model", "dctype">>
MCQueueFiles == <<"write_cache">>

MCSupported ==
    [n \in Name |-> IF n = "sda" THEN {"model", "dh_state", "write_cache"}
                                 ELSE {"model", "write_cache"}]
=============================================================================
