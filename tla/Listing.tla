------------------------------ MODULE Listing ------------------------------
(***************************************************************************)
(* The device listings of scsi-cli (`list disk', `list controller', ...):  *)
(* the seven list_*() functions of scsi_disk_utils.c with what they call   *)
(* in scsi_sysfs_utils.c, running while devices come and go.               *)
(*                                                                         *)
(* Every listing is one or two passes over a directory.  A pass opens the  *)
(* directory, takes its entries one by one, and for an entry of its class  *)
(* allocates a record, fills it with one system call after another, prints *)
(* a row and frees the record.  Each system call is one step, so that the  *)
(* kernel may change the device between any two of them.                   *)
(*                                                                         *)
(* open_sysfs_stats_file() returns NULL when a file is gone, and its       *)
(* callers pass the result to snprintf() as the format.  That is           *)
(* undefined: the C library leaves the string empty or the process dies.   *)
(***************************************************************************)
EXTENDS Sysfs, Sequences

CONSTANTS
    Runs,      \* the sequences of listings an invocation may perform
    Arrays,    \* the <<name, generation>> of storage array controllers
    StdFds,    \* standard descriptors open when the program starts
    MaxFd,     \* bound: descriptors are below MaxFd
    Batch      \* bound: directory entries one getdents call returns

Listings == {"disk", "controller", "enclosure", "cd-rom", "tape", "generic",
             "multipath"}

\* The passes of a listing: only list_block_devs() makes two.
PassesOf ==
    [l \in Listings |-> IF l = "disk" THEN <<"sd", "nvme">> ELSE <<l>>]

PassName == {"sd", "nvme"} \cup (Listings \ {"disk"})

ASSUME RunsAssumption == Runs \subseteq Seq(Listings)
ASSUME ArraysAssumption == Arrays \subseteq Name \X (Nat \ {0})
ASSUME FdsAssumption == StdFds \subseteq 0 .. 2 /\ MaxFd \in Nat /\ MaxFd >= 2
ASSUME BatchAssumption == Batch \in Nat \ {0}

-----------------------------------------------------------------------------
(* What tells the passes apart. *)

DirOf ==
    [p \in PassName |->
        CASE p \in {"sd", "nvme", "multipath"}   -> "block"
          [] p = "controller"                    -> "scsi_generic"
          [] p = "enclosure"                     -> "enclosure"
          [] p \in {"cd-rom", "tape", "generic"} -> "dev"]

\* The entries a pass does not skip, by the prefix of their name.
ClassesOf ==
    [p \in PassName |->
        CASE p = "sd"         -> {"sd"}
          [] p = "nvme"       -> {"nvme"}
          [] p = "multipath"  -> {"dm", "md"}
          [] p = "controller" -> {"sg"}
          [] p = "enclosure"  -> {"enclosure"}
          [] p = "cd-rom"     -> {"sr"}
          [] p = "tape"       -> {"st"}
          [] p = "generic"    -> {"sg", "ng"}]

Matches(p, n) == Class[n] \in ClassesOf[p]

Fields == {"type", "numbers", "hctl", "components", "vendor", "model", "rev"}

\* The fields a pass fills, in the order of its calls.
StepsOf ==
    [p \in PassName |->
        CASE p \in {"sd", "controller"} ->
                 <<"type", "numbers", "hctl", "vendor", "model", "rev">>
          [] p = "nvme" -> <<"numbers", "hctl", "model", "rev">>
          [] p = "enclosure" -> <<"type", "components", "model", "vendor">>
          [] p \in {"cd-rom", "tape"} -> <<"type">>
          [] p \in {"generic", "multipath"} ->
                 <<"numbers", "hctl", "vendor", "model", "rev">>]

\* Mutant: the nvme pass asks for a file that NVMe devices do not have.
ObtainableNoFirmware ==
    [p \in PassName |->
        CASE p = "sd"         -> {"type", "numbers", "hctl", "vendor", "model", "rev"}
          [] p = "nvme"       -> {"numbers", "model"}
          [] p = "controller" -> {"type", "numbers", "vendor", "model", "rev"}
          [] OTHER            -> {"numbers"}]

\* The fields whose path leads to a file of the device.  The others never do:
\* /dev/sg0/device/vendor and /sys/block/dm-0/device do not exist, the type of
\* an enclosure is sought at a path cut off after 31 bytes, and
\* /sys/dev/block/<major>:<minor> knows the numbers of block devices only.
Obtainable ==
    [p \in PassName |->
        CASE p = "sd"         -> {"type", "numbers", "hctl", "vendor", "model", "rev"}
          [] p = "nvme"       -> {"numbers", "model", "rev"}
          [] p = "controller" -> {"type", "numbers", "vendor", "model", "rev"}
          [] p = "enclosure"  -> {"components", "model", "vendor"}
          [] p \in {"cd-rom", "tape"}       -> {}
          [] p \in {"generic", "multipath"} -> {"numbers"}]

\* What alloc_scsi_dev() failing makes the listing return.
AllocError ==
    [p \in PassName |-> IF p \in {"sd", "controller"} THEN "ENODEV" ELSE "ENOSPC"]

-----------------------------------------------------------------------------
VARIABLES
    todo,      \* the listings still to perform
    passes,    \* the passes left of the current listing, the current one first
    pc,        \* what the process does next
    fds,       \* its open descriptors
    dirfd,     \* the descriptor of the directory stream, or NoFd
    devfd,     \* what open() of the node returned, in get_device_numbers()
    cursor,    \* the directory's position after the last entry of the buffer
    buf,       \* the entries got from the kernel and not yet taken
    rec,       \* the record of the current entry, or NoRec
    k,         \* the field the record gets next, a position of StepsOf
    rows,      \* the rows this pass has printed
    result,    \* what the last listing returned
    oom        \* history: allocations that failed

proc == <<todo, passes, pc, fds, dirfd, devfd, cursor, buf, rec, k, rows,
          result, oom>>
vars == <<kernel, proc>>

NoFd == MaxFd + 1     \* the -1 of a failed open()
NoRec == [name |-> "none"]
Missing == 0          \* a field that was not obtained

Pass == Head(passes)

Records == [name : Name, since : Nat, val : [Fields -> Nat]]

PCs == {"next", "opendir", "getdents", "readdir", "read", "stat", "close",
        "print", "closedir", "done", "crashed"}

\* Where the process is inside a pass, and where it holds a record.
InPass == {"getdents", "readdir", "read", "stat", "close", "print", "closedir"}

InRecord == {"read", "stat", "close", "print"}

TypeOK ==
    /\ KernelTypeOK
    /\ todo \in Seq(Listings)
    /\ passes \in Seq(PassName)
    /\ pc \in PCs
    /\ fds \subseteq 0 .. MaxFd
    /\ dirfd \in (0 .. MaxFd) \cup {NoFd}
    /\ devfd \in (0 .. MaxFd) \cup {NoFd}
    /\ cursor \in Nat
    /\ buf \subseteq Name
    /\ rec \in Records \cup {NoRec}
    /\ k \in Nat
    /\ rows \in Seq(Records)
    /\ result \in {"none", "ok", "ENODEV", "ENOSPC"}
    /\ oom \in Nat

Init ==
    /\ KernelInit
    /\ todo \in Runs
    /\ passes = <<>>
    /\ pc = "next"
    /\ fds = StdFds
    /\ dirfd = NoFd
    /\ devfd = NoFd
    /\ cursor = 0
    /\ buf = {}
    /\ rec = NoRec
    /\ k = 1
    /\ rows = <<>>
    /\ result = "none"
    /\ oom = 0

-----------------------------------------------------------------------------
(* The passes over a directory. *)

\* open() and opendir() take the lowest descriptor that is free.
NewFd(fd) == fd \notin fds /\ 0 .. (fd - 1) \subseteq fds

\* A listing returns.  An open directory stream is not closed by this.
EndListing(r) ==
    /\ pc' = "next"
    /\ result' = r
    /\ passes' = <<>>
    /\ dirfd' = NoFd

\* handle_cmd_errors() performs several listings and ignores their results.
StartListing ==
    /\ pc = "next"
    /\ todo # <<>>
    /\ passes' = PassesOf[Head(todo)]
    /\ todo' = Tail(todo)
    /\ pc' = "opendir"
    /\ UNCHANGED <<kernel, fds, dirfd, devfd, cursor, buf, rec, k, rows, result, oom>>

Exit ==
    /\ pc = "next"
    /\ todo = <<>>
    /\ pc' = "done"
    /\ UNCHANGED <<kernel, todo, passes, fds, dirfd, devfd, cursor, buf, rec, k,
                   rows, result, oom>>

\* Mutant: the directory is scanned as a whole and closed at once.
OpenDirScans ==
    /\ pc = "opendir"
    /\ cursor' = 0
    /\ buf' = {}
    /\ rows' = <<>>
    /\ touched' = {}
    /\ pc' = "getdents"
    /\ UNCHANGED <<life, gen, events, todo, passes, fds, dirfd, devfd, rec, k,
                   result, oom>>

OpenDir ==
    /\ pc = "opendir"
    /\ \E fd \in 0 .. MaxFd :
          /\ NewFd(fd)
          /\ fds' = fds \cup {fd}
          /\ dirfd' = fd
    /\ cursor' = 0
    /\ buf' = {}
    /\ rows' = <<>>
    /\ touched' = {}
    /\ pc' = "getdents"
    /\ UNCHANGED <<life, gen, events, todo, passes, devfd, rec, k, result, oom>>

\* The directory cannot be opened, be it that no kernel module made its class.
OpenDirFails ==
    /\ pc = "opendir"
    /\ EndListing("ENODEV")
    /\ UNCHANGED <<kernel, todo, fds, devfd, cursor, buf, rec, k, rows, oom>>

\* The entries the kernel has not emitted yet: it goes by the hash of the name.
Ahead == EntriesAfter(DirOf[Pass], cursor)

\* The kernel puts the next entry into the buffer of the directory stream ...
GetdentsEmit ==
    /\ pc = "getdents"
    /\ Cardinality(buf) < Batch
    /\ \E n \in Ahead :
          /\ First(n, Ahead)
          /\ buf' = buf \cup {n}
          /\ cursor' = Hash[n]
    /\ UNCHANGED <<kernel, todo, passes, pc, fds, dirfd, devfd, rec, k, rows,
                   result, oom>>

\* ... and returns with some, or with none at the end of the directory.
GetdentsReturn ==
    /\ pc = "getdents"
    /\ buf # {} \/ Ahead = {}
    /\ pc' = IF buf = {} THEN "closedir" ELSE "readdir"
    /\ UNCHANGED <<kernel, todo, passes, fds, dirfd, devfd, cursor, buf, rec, k,
                   rows, result, oom>>

\* Mutant: the directory is opened anew for every buffer.
RefillRewinds ==
    /\ pc = "readdir"
    /\ buf = {}
    /\ cursor' = 0
    /\ pc' = "getdents"
    /\ UNCHANGED <<kernel, todo, passes, fds, dirfd, devfd, buf, rec, k, rows,
                   result, oom>>

\* readdir() finds the buffer empty and goes to the kernel again.
Refill ==
    /\ pc = "readdir"
    /\ buf = {}
    /\ pc' = "getdents"
    /\ UNCHANGED <<kernel, todo, passes, fds, dirfd, devfd, cursor, buf, rec, k,
                   rows, result, oom>>

\* readdir() returns the buffer's first entry.
FirstOfBuf(n) == First(n, buf)

\* Mutant: the loop continues without a readdir().
SkipNothing ==
    /\ pc = "readdir"
    /\ \E n \in buf : FirstOfBuf(n) /\ ~Matches(Pass, n)
    /\ UNCHANGED vars

SkipEntry ==
    /\ pc = "readdir"
    /\ \E n \in buf : FirstOfBuf(n) /\ ~Matches(Pass, n) /\ buf' = buf \ {n}
    /\ UNCHANGED <<kernel, todo, passes, pc, fds, dirfd, devfd, cursor, rec, k,
                   rows, result, oom>>

\* Mutant: alloc_scsi_dev() without its memset().
GarbageRecord(n) ==
    [name |-> n, since |-> gen[n], val |-> [f \in Fields |-> 0 - 1]]

EmptyRecord(n) ==
    [name |-> n, since |-> gen[n], val |-> [f \in Fields |-> Missing]]

TakeEntry ==
    /\ pc = "readdir"
    /\ \E n \in buf :
          /\ FirstOfBuf(n)
          /\ Matches(Pass, n)
          /\ buf' = buf \ {n}
          /\ rec' = EmptyRecord(n)
    /\ k' = 1
    /\ pc' = "read"
    /\ UNCHANGED <<kernel, todo, passes, fds, dirfd, devfd, cursor, rows, result,
                   oom>>

\* alloc_scsi_dev() returns NULL: the listing returns at once.
AllocFails ==
    /\ pc = "readdir"
    /\ \E n \in buf : FirstOfBuf(n) /\ Matches(Pass, n)
    /\ oom' = oom + 1
    /\ EndListing(AllocError[Pass])
    /\ UNCHANGED <<kernel, todo, fds, devfd, cursor, buf, rec, k, rows>>

-----------------------------------------------------------------------------
(* The record of an entry. *)

Field == StepsOf[Pass][k]

Fill(f, v) == rec' = [rec EXCEPT !.val[f] = v]

Advance ==
    /\ k' = k + 1
    /\ pc' = IF k = Len(StepsOf[Pass]) THEN "print" ELSE "read"

\* Mutant: the value comes from what was read when the entry was taken.
ReadAttributeStale ==
    /\ pc = "read"
    /\ Field \notin {"numbers", "hctl"}
    /\ Fill(Field, IF Field \in Obtainable[Pass] THEN rec.since ELSE Missing)
    /\ Advance
    /\ UNCHANGED <<kernel, todo, passes, fds, dirfd, devfd, cursor, buf, rows,
                   result, oom>>

\* An attribute file is read; or it is not there and its value stays empty ...
ReadAttribute ==
    /\ pc = "read"
    /\ Field \notin {"numbers", "hctl"}
    /\ Fill(Field, IF Field \in Obtainable[Pass] /\ HasAttributes(rec.name)
                      THEN gen[rec.name] ELSE Missing)
    /\ Advance
    /\ UNCHANGED <<kernel, todo, passes, fds, dirfd, devfd, cursor, buf, rows,
                   result, oom>>

\* ... or the NULL format of snprintf() ends the process.
ReadCrashes ==
    /\ pc = "read"
    /\ Field \notin {"numbers", "hctl"}
    /\ ~(Field \in Obtainable[Pass] /\ HasAttributes(rec.name))
    /\ pc' = "crashed"
    /\ UNCHANGED <<kernel, todo, passes, fds, dirfd, devfd, cursor, buf, rec, k,
                   rows, result, oom>>

\* get_device_numbers(), the open(): it fails without a node or a permission.
OpenNode ==
    /\ pc = "read"
    /\ Field = "numbers"
    /\ \/ /\ HasNode(rec.name)
          /\ \E fd \in 0 .. MaxFd :
                NewFd(fd) /\ fds' = fds \cup {fd} /\ devfd' = fd
       \/ devfd' = NoFd /\ UNCHANGED fds
    /\ pc' = "stat"
    /\ UNCHANGED <<kernel, todo, passes, dirfd, cursor, buf, rec, k, rows, result,
                   oom>>

\* Mutant: the test meant, `if (err < 0)', without a stat() of a node that
\* cannot be opened.
StatNodeStrict ==
    /\ pc = "stat"
    /\ IF devfd # NoFd /\ HasNode(rec.name)
          THEN Fill("numbers", gen[rec.name]) /\ UNCHANGED devfd
          ELSE devfd' = NoFd /\ UNCHANGED rec
    /\ pc' = "close"
    /\ UNCHANGED <<kernel, todo, passes, fds, dirfd, cursor, buf, k, rows, result,
                   oom>>

\* Descriptor 0 is taken for an error, a failed open() is not; and an error
\* code overwrites the descriptor.
StatNode ==
    /\ pc = "stat"
    /\ IF devfd # 0 /\ HasNode(rec.name)
          THEN Fill("numbers", gen[rec.name]) /\ UNCHANGED devfd
          ELSE devfd' = NoFd /\ UNCHANGED rec
    /\ pc' = "close"
    /\ UNCHANGED <<kernel, todo, passes, fds, dirfd, cursor, buf, k, rows, result,
                   oom>>

CloseNode ==
    /\ pc = "close"
    /\ fds' = fds \ {devfd}
    /\ devfd' = NoFd
    /\ Advance
    /\ UNCHANGED <<kernel, todo, passes, dirfd, cursor, buf, rec, rows, result, oom>>

\* get_hctl_info() finds the device by the numbers just read.
ReadHctl ==
    /\ pc = "read"
    /\ Field = "hctl"
    /\ Fill("hctl", IF /\ "hctl" \in Obtainable[Pass]
                       /\ rec.val["numbers"] # Missing
                       /\ HasAttributes(rec.name)
                      THEN gen[rec.name] ELSE Missing)
    /\ Advance
    /\ UNCHANGED <<kernel, todo, passes, fds, dirfd, devfd, cursor, buf, rows,
                   result, oom>>

\* Mutant: the test of the device type is dropped.
PrintedAny(p, r) == p # "cd-rom"

\* A controller is printed if its type says so, a CD-ROM drive never is.
Printed(p, r) ==
    CASE p = "controller" -> <<r.name, r.val["type"]>> \in Arrays
      [] p = "cd-rom"     -> FALSE
      [] OTHER            -> TRUE

\* Mutant: every pass breaks after a row, as list_enclosure() does.
PrintRowBreaks ==
    /\ pc = "print"
    /\ rows' = IF Printed(Pass, rec) THEN Append(rows, rec) ELSE rows
    /\ rec' = NoRec
    /\ k' = 1
    /\ pc' = "closedir"
    /\ UNCHANGED <<kernel, todo, passes, fds, dirfd, devfd, cursor, buf, result, oom>>

\* The row, put_scsi_dev(), and on to the next entry; list_enclosure() breaks
\* out of its loop instead.
PrintRow ==
    /\ pc = "print"
    /\ rows' = IF Printed(Pass, rec) THEN Append(rows, rec) ELSE rows
    /\ rec' = NoRec
    /\ k' = 1
    /\ pc' = IF Pass = "enclosure" THEN "closedir" ELSE "readdir"
    /\ UNCHANGED <<kernel, todo, passes, fds, dirfd, devfd, cursor, buf, result, oom>>

NextPass ==
    /\ pc = "closedir"
    /\ Len(passes) > 1
    /\ fds' = fds \ {dirfd}
    /\ dirfd' = NoFd
    /\ passes' = Tail(passes)
    /\ pc' = "opendir"
    /\ UNCHANGED <<kernel, todo, devfd, cursor, buf, rec, k, rows, result, oom>>

\* Mutant: the closedir() is forgotten.
LastPassLeaves ==
    /\ pc = "closedir"
    /\ Len(passes) = 1
    /\ EndListing("ok")
    /\ UNCHANGED <<kernel, todo, fds, devfd, cursor, buf, rec, k, rows, oom>>

LastPass ==
    /\ pc = "closedir"
    /\ Len(passes) = 1
    /\ fds' = fds \ {dirfd}
    /\ EndListing("ok")
    /\ UNCHANGED <<kernel, todo, devfd, cursor, buf, rec, k, rows, oom>>

-----------------------------------------------------------------------------
Process ==
    \/ StartListing \/ Exit
    \/ OpenDir \/ OpenDirFails \/ GetdentsEmit \/ GetdentsReturn
    \/ Refill \/ SkipEntry \/ TakeEntry \/ AllocFails
    \/ ReadAttribute \/ ReadCrashes
    \/ OpenNode \/ StatNode \/ CloseNode \/ ReadHctl
    \/ PrintRow \/ NextPass \/ LastPass

Kernel == Hotplug /\ UNCHANGED proc

Finished == pc \in {"done", "crashed"} /\ UNCHANGED vars

Next == Process \/ Kernel \/ Finished

Spec == Init /\ [][Next]_vars

\* The process keeps running; devices need not come or go.
FairSpec == Spec /\ WF_vars(Process)

-----------------------------------------------------------------------------
(* Properties. *)

\* The device was there, with its node, all through this pass.
Steady(n) == n \notin touched /\ life[n] = "live"

\* A pass is to show every entry of its kind.
Wanted(p, n) ==
    /\ Class[n] \in Holds[DirOf[p]]
    /\ Matches(p, n)
    /\ p = "controller" => <<n, gen[n]>> \in Arrays

Shown(n) == \E i \in DOMAIN rows : rows[i].name = n

\* The passes that print everything of their kind.  list_enclosure() breaks
\* after a row, and list_cdrom_devs() prints none.
Complete(p) == p \notin {"enclosure", "cd-rom"}

\* No device is listed twice by a pass, not even one that is pulled and
\* replaced while the pass reads the directory (the readdir() loops).
NoDuplicateRows ==
    \A i, j \in DOMAIN rows : rows[i].name = rows[j].name => i = j

\* A pass that comes to its closedir() has shown every device that was there
\* all the time, whatever else came and went around it.
SteadyDevicesShown ==
    pc = "closedir" /\ Complete(Pass) =>
        \A n \in Name : Steady(n) /\ Wanted(Pass, n) => Shown(n)

\* `list all the enclosure device', says the comment above list_enclosure().
EnclosuresShown ==
    pc = "closedir" /\ Pass = "enclosure" =>
        \A n \in Name : Steady(n) /\ Wanted(Pass, n) => Shown(n)

\* The row of a device nobody touched shows that device: every call that can
\* deliver a field delivered it, and from this device.
SteadyRowsTrue ==
    pc \in InPass =>
        \A i \in DOMAIN rows :
            Steady(rows[i].name) =>
                \A f \in Obtainable[Pass] : rows[i].val[f] = gen[rows[i].name]

\* What `list controller' shows of the devices nobody touched are disk
\* controllers, although the name may have belonged to a disk before.  And if
\* disks and controllers take over each other's names while it runs, each row
\* has the name of a controller that was there at some time since the entry was
\* taken: the type tested is never one of before.
ListedAreArrays ==
    pc \in InPass /\ Pass = "controller" =>
        \A i \in DOMAIN rows :
            LET n == rows[i].name
            IN  /\ Steady(n) => <<n, gen[n]>> \in Arrays
                /\ \E g \in rows[i].since .. gen[n] : <<n, g>> \in Arrays

\* The fields of a row come from devices that followed each other in the order
\* of the calls, none of them older than the entry: the row of a device that
\* was replaced meanwhile may mix the two, but never goes back.
FieldsInOrder ==
    pc \in InPass =>
        \A i \in DOMAIN rows :
            LET v(j) == rows[i].val[StepsOf[Pass][j]]
            IN  \A j \in DOMAIN StepsOf[Pass] :
                    v(j) # Missing =>
                        /\ rows[i].since <= v(j)
                        /\ \A h \in 1 .. j : v(h) <= v(j)

\* `list disk' and `list controller' die of a NULL format only on a device that
\* was pulled while they read it.  (The other listings ask for files that no
\* device has.)
CrashNeedsUnplug ==
    pc = "crashed" /\ Pass \in {"sd", "nvme", "controller"} => rec.name \in touched

\* A descriptor is lost only to a node removed between open() and stat() or to
\* a listing that returned without closedir(): get_device_numbers() and the
\* early returns lose no other.
Lost == fds \ (StdFds \cup {dirfd, devfd})

LostIsAccounted == Cardinality(Lost) <= events + oom

\* The test `if (!err)' of get_device_numbers() takes descriptor 0 for a
\* failure.  It never meets one, even with standard input closed, because the
\* directory stream is open and has the lowest free descriptor.
NodeIsNotDescriptorZero == devfd # 0

\* The program ends, whatever the devices do meanwhile.
Ends == <>(pc \in {"done", "crashed"})

\* The abstract view of a pass.  It is complete at its closedir(), where only
\* the devices that nobody touched count; a pass that does not print everything
\* of its kind never is, and ends as one that was given up.
Status ==
    CASE pc \notin InPass                  -> "idle"
      [] pc = "closedir" /\ Complete(Pass) -> "complete"
      [] OTHER                             -> "open"

SteadyWanted ==
    IF pc \in InPass THEN {n \in Name : Steady(n) /\ Wanted(Pass, n)} ELSE {}

ShownNames == [i \in DOMAIN rows |-> rows[i].name]

Enum == INSTANCE Enumeration WITH
    Thing <- Name, status <- Status, steady <- SteadyWanted, shown <- ShownNames

\* Every pass is an enumeration: nothing twice, nothing steady left out when it
\* is complete, and this through every step of the program and the kernel.
EnumeratesSteadyDevices == Enum!Spec

=============================================================================
