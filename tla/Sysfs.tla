------------------------------- MODULE Sysfs -------------------------------
(***************************************************************************)
(* The kernel side of scsi-cli: the SCSI, NVMe, device-mapper and MD       *)
(* devices of the host, as the program sees them through sysfs and /dev.   *)
(* None of this is code of the program; it is modelled from the way        *)
(* scsi_sysfs_utils.c and scsi_disk_utils.c read it.                       *)
(*                                                                         *)
(* A name (sda, nvme0n1, sg3, ...) is reused when a device is pulled and   *)
(* another one takes its place, so each name has a generation: 1 for the   *)
(* first device that bears it, 2 for the next, ...  A value read from an   *)
(* attribute is represented by the generation it was read from.            *)
(*                                                                         *)
(* A device appears in two steps, first its sysfs directory with its       *)
(* attributes, then its /dev node, and disappears in the opposite order.   *)
(***************************************************************************)
EXTENDS Naturals, FiniteSets

CONSTANTS
    Name,        \* device names
    Class,       \* the kind of device a name stands for
    Hash,        \* where the name comes in its directory's order
    Lives,       \* bound: how the devices may stand when the program starts
    MaxEvents    \* bound: hot-plug steps in a behaviour

Classes == {"sd", "nvme", "dm", "md", "sg", "ng", "sr", "st", "enclosure"}

Dirs == {"block", "scsi_generic", "enclosure", "dev"}

ASSUME ClassAssumption == Class \in [Name -> Classes]
ASSUME HashAssumption ==
    /\ Hash \in [Name -> Nat \ {0}]
    /\ \A m, n \in Name : Hash[m] = Hash[n] => m = n
ASSUME LivesAssumption == Lives \subseteq [Name -> {"absent", "sysfs", "live"}]
ASSUME MaxEventsAssumption == MaxEvents \in Nat

VARIABLES
    life,     \* "absent", "sysfs" (directory, no node) or "live" (both)
    gen,      \* the generation of the device that last bore the name
    events,   \* hot-plug steps so far
    touched   \* history: the names whose device changed since the last mark

kernel == <<life, gen, events, touched>>

KernelTypeOK ==
    /\ life \in [Name -> {"absent", "sysfs", "live"}]
    /\ gen \in [Name -> Nat]
    /\ events \in Nat
    /\ touched \subseteq Name
    /\ \A n \in Name : life[n] # "absent" => gen[n] > 0

KernelInit ==
    /\ life \in Lives
    /\ gen = [n \in Name |-> IF life[n] = "absent" THEN 0 ELSE 1]
    /\ events = 0
    /\ touched = {}

Change(n, from, to) ==
    /\ events < MaxEvents
    /\ life[n] = from
    /\ life' = [life EXCEPT ![n] = to]
    /\ events' = events + 1
    /\ touched' = touched \cup {n}

\* A device is found: device_add() creates its directory and attributes.
Add(n) ==
    /\ Change(n, "absent", "sysfs")
    /\ gen' = [gen EXCEPT ![n] = gen[n] + 1]

\* ... and then its node in /dev.
MakeNode(n) == Change(n, "sysfs", "live") /\ UNCHANGED gen

\* A device goes away: its node is deleted first ...
RemoveNode(n) == Change(n, "live", "sysfs") /\ UNCHANGED gen

\* ... and then its directory.
Remove(n) == Change(n, "sysfs", "absent") /\ UNCHANGED gen

Hotplug == \E n \in Name : Add(n) \/ MakeNode(n) \/ RemoveNode(n) \/ Remove(n)

-----------------------------------------------------------------------------
(* What the program's system calls find. *)

\* The classes whose entries are in a directory.
Holds ==
    [block        |-> {"sd", "nvme", "dm", "md", "sr"},
     scsi_generic |-> {"sg"},
     enclosure    |-> {"enclosure"},
     dev          |-> Classes \ {"enclosure"}]

\* The entries of a directory: nodes in /dev, device directories in sysfs.
Entries(dir) ==
    {n \in Name : /\ Class[n] \in Holds[dir]
                  /\ life[n] \in IF dir = "dev" THEN {"live"} ELSE {"sysfs", "live"}}

\* A directory is read in the order of the hashes: what is left of it after a
\* position, and the first of some of its entries.
EntriesAfter(dir, position) == {n \in Entries(dir) : Hash[n] > position}

First(n, S) == n \in S /\ \A m \in S : Hash[n] <= Hash[m]

HasNode(n) == life[n] = "live"

HasAttributes(n) == life[n] # "absent"

=============================================================================
