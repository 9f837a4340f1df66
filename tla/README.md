# scsi-cli in TLA+

A specification of [scsi-cli](../src/README.md), the command-line tool that lists SCSI,
NVMe, multipath, Fibre Channel and iSCSI devices of a Linux host from sysfs and `/dev`,
shows details and statistics of one of them, and resets Fibre Channel adapters.

scsi-cli is a sequential C program, yet what it reads changes while it reads it: devices are
pulled, replaced and found between any two of its system calls. Most of what can go wrong in it,
and nearly nothing of what a test on a quiet host would show, comes from this race, from the
paths on which one of several steps fails, and from the way results are passed back through
four layers of calls. These are the subject of the modules here.

## 1. Inventory

| component | source | state | operations | interacts with | status |
|---|---|---|---|---|---|
| device listings | `scsi_disk_utils.c` `list_*` | directory stream, record of the current entry | one listing per kind of device | sysfs helpers, records, output; called by the command line | modelled: `Listing` |
| sysfs helpers | `scsi_sysfs_utils.c` | open descriptors | read an attribute, the numbers of a node, the slot of a device | the kernel | as steps of their callers: `Listing`, `ShowDisk`, `FcPort`, `IscsiShow` |
| records | `scsi_utils.c` | heap records | `alloc_*`, `put_*` | everything | in `Listing` and `Dispatch` |
| the kernel | external | device directories, nodes; the tree of hosts, ports and sessions | hot-plug | | modelled: `Sysfs`, `SysfsTree` |
| command line | `scsi_test.c`, `scsi_cmds.h` | tables of commands, the list head `sdev` | `main`, `handle_cmd`, `parse_cmd`, nine `cmd_*` | calls everything else | modelled: `Dispatch` |
| trigger | `scsi_trigger.c` | none | `fc_hba_reset`; `pci_bus_rescan` (never called) | the kernel | `fc_hba_reset`: `Dispatch` |
| help | `scsi_help.c` | none | print texts | command line | only as results in `Dispatch` |
| state commands | `set_*`, `get_*_error_count`, `scsi_scan_*` | none | | command line | unreachable from `main` (section 7) |
| details of a disk | `show_disk_details` ... | record, directory stream | show one disk | sysfs helpers; called by the command line | modelled: `ShowDisk` |
| disk statistics | `get_disk_stats` | record | scan the `stat` line | sysfs helpers, output | its results and what becomes of them: `Dispatch` |
| Fibre Channel | `scsi_fcp_utils.c`, `scsi_fcp.h` | record of a host, then of its remote ports; one directory stream | `list fc_hba`, `show fc_port`, `stats fc_port` | sysfs helpers; called by the command line | modelled: `FcPort` |
| iSCSI | `scsi_iscsi_utils.c`, `scsi_iscsi.h` | names found on the way down, records, up to two directory streams | `list iscsi`, `show iscsi` | sysfs helpers; called by the command line | modelled: `IscsiShow` |
| output | `scsi_print.c`, `scsi_print.h` | static buffer of `calculate_size` | conversions, layout | everything | conversions: `Format`; layout is left out |
| lists | `utils.h` | links | `list_head` operations (never called) | nothing | no user (section 7) |

What makes each correct:

* A **listing** shows every device of its kind that is there all the time, and shows it with its
  own attributes; it shows none twice; it ends; it does not die on a quiet host; it gives back what
  it opened.
* The **command line** refuses what its tables do not know before anything happens, carries out
  each accepted command once, releases its records, writes to the kernel only for a reset, and
  tells success from failure by its exit status and its messages.
* **Details** belong to the device asked for, and the program says so when there is none.
* **Hosts and ports** are counted by what is shown, and every attribute belongs to one port.
* **Sessions, connections and disks** are found by walking down from a host by names that may be
  old: what is shown together belongs together, and a disk is shown once.
* **Conversions** keep the value, or the largest value they can show.

## 2. Modules

```
    MCListing   ListingProofs
          \       /
    Sysfs  <----  Listing  ------.
      ^                          |
      +---------  ShowDisk  -----+-- INSTANCE --> Enumeration
                 /       \       |
     MCShowDisk   ShowDiskProofs |
                                 |
    SysfsTree  <--  FcPort  -----'    <-- MCFcPort;    FcPortProofs <-- FcPortPassProofs
      ^
      +-----------  IscsiShow         <-- MCIscsiShow; IscsiShowProofs <-- IscsiPassProofs

    Dispatch  <-- MCDispatch; DispatchProofs
    Format    <-- MCFormat;   FormatProofs
```

(arrows: `EXTENDS`)

**`Sysfs`** (external: the kernel, as the program meets it). `life[n]` says of a name whether its
device is absent, has a directory in sysfs, or has a node in `/dev` too. `gen[n]` counts the
devices that have borne the name: sysfs reuses names, and an attribute's value is represented by
the generation it was read from, which is all the properties need in order to tell *this* device from
*the one before*. Devices appear in two steps (directory, node) and leave in the opposite order.
`touched` is a history variable: the names something happened to since the current pass opened
its directory. `Lives` bounds how the devices may stand at the start.

**`Listing`** models `list_block_devs`, `list_controllers`, `list_enclosure`, `list_cdrom_devs`,
`list_tape_devs`, `list_generic_devs` and `list_multipath_devs` with everything they call. They
share their structure, so the module has it once and tells the listings apart by tables:
`PassesOf` (only `list disk` reads its directory twice), `DirOf`, `ClassesOf` (the prefixes the loops
compare), `StepsOf` (the calls, in order), `Obtainable` (the calls whose path leads to a file at all),
`AllocError` and `Printed`. The steps are system calls:

| action | code |
|---|---|
| `StartListing`, `Exit` | the calls of `handle_cmd_errors()` and the single one of `cmd_list()` |
| `OpenDir`, `OpenDirFails` | `opendir()` and the return of `-ENODEV` |
| `GetdentsEmit`, `GetdentsReturn`, `Refill` | `readdir()` of the C library over `getdents64()`: a buffer of `Batch` names that goes stale while the loop works through it |
| `SkipEntry`, `TakeEntry`, `AllocFails` | the comparison of prefixes, `alloc_scsi_dev()` |
| `ReadAttribute`, `ReadCrashes` | `open_sysfs_stats_file()` and the `snprintf()` its result is the format of |
| `OpenNode`, `StatNode`, `CloseNode` | `get_device_numbers()`, its `open()`, its test `if (!err)` with `stat()`, its `close()` |
| `ReadHctl` | `get_hctl_info()` |
| `PrintRow` | the row, `put_scsi_dev()`, `continue` or `break` |
| `NextPass`, `LastPass` | `closedir()` |

The kernel's `Hotplug` interleaves with all of them.

**`Enumeration`** is what a pass over a directory promises, without system calls: things are shown
one by one, none twice, and the pass is complete only when all that stayed in place has been shown.
`Listing` refines it under the mapping at the end of `Listing.tla`. The passes of `list enclosure`, which
breaks off, and of `list cd-rom`, which prints no row, are enumerations that are given up.

**`ShowDisk`** models `show disk <name>`: `show_disk_details()`, the functions that collect the
attributes of a SCSI or NVMe disk, the queue's, and the answer. The directory is read as in
`Listing`. The point of the function is that it matches *entries* and shows the *argument*: for
every entry of `/sys/block` that begins with the argument, the files below `/sys/block/<argument>`
are read anew. The files are parameters (`ScsiFiles`, `NvmeFiles`, `QueueFiles`, in the order of the
calls, and `Supported`, what a disk has), so what is proved holds for the lists in the code, which
are too long for a model checker.

| action | code |
|---|---|
| `OpenDir`, `OpenDirFails`, `GetdentsEmit`, `GetdentsReturn`, `Refill` | as in `Listing`, for `/sys/block` |
| `SkipEntry`, `TakeEntry` | the `strncmp()` over the length of the argument |
| `ReadFile`, `ReadCrashes` | one `open_sysfs_stats_file()` and the `snprintf()` of its result, of `get_single_scsi_disk_details()`, `get_single_nvme_disk_details()` or `get_disk_queue_data()` |
| `PrintDetails` | `print_scsi_disk_details()` or `print_nvme_disk_details()`, `count++` |
| `CloseDir` | `closedir()`, `return (count == 1) ? 1 : -ENODEV` |

**`SysfsTree`** (external) is the kernel as the Fibre Channel and iSCSI commands meet it: objects with a
kind (host, remote port, session, connection, target, LUN, or any *other* entry such as `power`)
and a parent. An object appears below something that exists and vanishes after everything below
it. As in `Sysfs`, an attribute's value is the generation it was read from. A directory stream
(`Streams`) remembers the directory it was opened on, its position and the names the C library
has got from the kernel and not yet returned; `ReadAhead` of the two modules gets one more name
at any time, so that a name may be any degree of old when it is used. A stream on a directory
that was removed reads nothing more, even if a new directory bears the name.

**`FcPort`** models `list fc_hba`, `show fc_port` and `stats fc_port`. All three fill one record from
files, and the order of the files and what the code does about one that is missing are
what can go wrong; so a command is the control below plus a queue `todo` of files, taken from tables
that are parameters. The tables tell for every file how it is read:

| in a table | code | a missing file |
|---|---|---|
| `format` | `snprintf(buf, n, open_sysfs_stats_file(...))` | empty, or the end of the program |
| `number` | `strtoull(open_sysfs_stats_file(...))` | the end of the program |
| `line` | the function opens the file itself (`get_symbolic_name`) | the field stays as it is |
| `gate` | `link_state` in `get_fc_info()` | all fields after it stay as they are |

| action | code |
|---|---|
| `ReadFile`, `ReadCrashes` | one file of `get_adapter_details`, `get_fc_info`, `get_fc_dev_stats`, `get_rport_info` |
| `GetDriver`, `NoMemory`, `GetInfo`, `NoDriver` | `get_driver_info()` and the use of its result by `get_fc_info()` |
| `OpenHosts`, `TakeHost`, `AllocFails`, `EndHosts` | `list_fc_adapters()` |
| `OpenPorts`, `CountPort`, `EndCount` | the loop of `get_adapter_details()` that counts remote ports, and stores the number when it meets an entry that is none |
| `OpenList`, `TakePort`, `PortAllocFails`, `EndList` | `list_rport_adapters()`, the second pass over the same directory |
| `PrintHost`, `PrintPort` | the rows of `print_list_fc_dev`, `print_fc_info`, `print_fc_port_stats`, `print_fc_rport_info` |

`FcPort` refines `Enumeration` twice: the hosts of a list, and the ports below one host.

**`IscsiShow`** models `list iscsi` and `show iscsi`. Its state is the chain of names (`name.host`,
`.session`, `.connection`, `.target`, `.lun`), the values read, and two streams, `outer` for the loop over
hosts or targets and `inner` for the loop inside it. The tables name, for each file, the link
of the chain whose path is built.

| action | code |
|---|---|
| `Scan`, `CountHost`, `EndScan` | `get_device_count()`, whose result `list_iscsi_devs()` returns |
| `OpenHosts`, `TakeHost`, `AllocFails`, `EndHosts` | the loop of `list_iscsi_devs()` |
| `Alloc` | `show_iscsi_details()` |
| `OpenDevice`, `TakeSession`, `EndSessions` | `fill_session_info()`: the first session wins |
| `OpenSession`, `FindTarget`, `NoTarget` | the end of `get_iscsi_session_info()`: the loop for the first target |
| `OpenTargets`, `TakeTarget`, `EndTargets` | `get_session_scsi_disks()`: the loop over all targets, inside the one for the first |
| `OpenLuns`, `TakeLun`, `CheckType`, `GetDeviceEntry`, `EntryCrashes`, `PrintLun`, `EndLuns` | `get_iscsi_disk_hctl()` and `get_device_entry()` |
| `OpenConnections`, `TakeConnection`, `EndConnections` | `fill_connection_info()`: the last connection wins |
| `GetConnectionInfo`, `PrintRow` | `get_iscsi_connection_info()` and the rows |

`opendir()` may fail at any time, not only for a directory that is gone; the history variable `lost`
keeps the directories it failed for, since what is below them cannot be shown. The name that
`get_device_entry()` returns lies in a stream it has closed: `disk` says only whether such a name was
returned (`"true"` or `"dangling"`), nothing about what it reads as.

**`Format`** models the conversions: `calculate_size()`, the product of `logical_block_size` and `size`
in a 64-bit word, `strtol()` of counters, and the lines that `show disk` and `stats fc_port`
print. `Sector` is what the kernel counts `size` by, 512 bytes, whatever the logical block is; `Unread` are
the fields that are printed and never read. The arguments of a `printf()` are evaluated in any order, and
all that `calculate_size()` returned
for one line is the same static buffer.

| action | code |
|---|---|
| `Evaluate` | a call of `calculate_size()` for one argument of a `printf()` |
| `Divide` | a round of its loop, or its end |
| `WriteResult` | `snprintf()` to the static buffer |
| `PrintLine` | the `printf()`, with `strtol()` for counters |

**`Dispatch`** models `main()` to the exit status: the skipping of dashes, the two tables, the
nine `cmd_*` functions with their early returns, the fall-back `handle_cmd_errors()`,
`fc_hba_reset()`, the messages and the folding of all results into 0 or 1. The operations it
calls are abstract: each returns any of the results its code can return (`ListResults`,
`ShowResults`, `StatsResults`).

## 3. Runs

| run | question | bounds |
|---|---|---|
| `listings` | the four listings of `handle_cmd_errors()` in a row, and those of `cd-rom`, `tape` and `generic`, standard input closed, failing allocations: every invariant of `Listing`, an end; implements `Enumeration` | 7 names (two SCSI disks, an NVMe disk, an MD array, an enclosure, an `sg` name that passes from a disk to an array controller, a tape to come), 3 hot-plug steps, buffer of 2 names |
| `show_disk` | `sda` (begins `sda` and `sdaa`), `sd` (a name no disk bears) and `nvme0n1` asked for: true and ordered details, an answer that fits, no crash without a missing file, an end; implements `Enumeration` | 4 hot-plug steps, 3 disks, 3 files per disk, buffer of 2 names |
| `dispatch` | every command line, with every result of the operations | none needed: the whole space of command lines (`ArgvSpace`) |
| `fc_port` | two hosts, one with three ports and the directory `power` before the last of them, one without `link_state`: true rows, the number of ports against the ports, crashes, an end; implements `Enumeration` | 3 hot-plug steps, 6 objects, no, one or two drivers loaded |
| `iscsi` | two hosts, two sessions, a connection, two targets, a disk: what is shown together belongs together, disks once, the number returned, crashes, an end | 2 hot-plug steps, 10 objects, failing `opendir()` |
| `format` | sizes and counters at the boundaries of units and words | words of 12 bits (`Half` is 2048), 5 units, each 4 of the one before, sectors of 2 bytes, logical blocks of one sector or eight |
| `list_enclosure` (violated) | all enclosures shown? Only the first is. | 2 hot-plug steps |
| `show_disk_prefix` (violated) | is a disk found that is there all the time? Not if its name begins another one's. | no hot-plug |
| `reset_issued` (violated) | is a reset that is reported as issued one the kernel accepted? Not always. | |
| `fc_driver` (violated) | is the driver shown the host's own? Not if another known one is loaded. | no hot-plug |
| `fc_ports` (violated) | is the number of remote ports right, and are they printed? Not if they come last in the directory. | one host, one port, no hot-plug |
| `format_labels` (violated) | is a size printed after its own label? Not both of two on one line. | as `format` |

**Bounds.** `MaxEvents` bounds the hot-plug steps of a behaviour. Replacing a device of `Sysfs` takes four
(node away, directory away, directory, node). `show_disk` allows it for any disk at any point. In
`listings` one of the disks and the `sg` name start without a node (`Lives`), so that three steps pull them, put
another device there and give it its node, and any other device can be pulled or come half-way. The
sequences are long, so that this is the largest run; one with nine names, all there at the start, was
explored for the safety properties alone while the modules were written. There is no CD-ROM drive in
`listings`: `list cd-rom` goes through `/dev`, skips what is there and has nothing to print. In `SysfsTree`
a replacement takes two steps: `iscsi` can replace any one session, connection or disk, `fc_port` any one
port and take another away, or take away a host without ports and bring it back.
`Batch` stands for the 32 KiB buffer of `getdents64()`: the interesting cases are one name that was
buffered before it was pulled, and one that appears after the buffer was filled, ahead of or behind
the cursor. They occur with a buffer of 2 and three names of one directory. The buffers of `SysfsTree` have
no bound. The
files of a run stand for the positions that matter: read first, read last, one that some objects do
not have, one that is converted to a number, one that ends a function. In `show_disk` two entries that
the argument begins are enough for a record that is used again. `MaxFd` is a bound on
descriptors that no run reaches: `Lost` shows how many can be lost. In `format` 64 bits and units of
1024 are scaled down so that, as in the program, the largest word exceeds the largest unit many times, half
of the words do not fit a signed number, and products may or may not fit a word (they do if logical blocks
are sectors, since the kernel holds
the bytes of a disk in a signed number); the samples are the
boundaries of units and words and their neighbours.

**Fairness.** `FairSpec` has weak fairness on the program's steps, `WF_vars(Process)` in `Listing`,
`ShowDisk`, `FcPort` and `IscsiShow`, and `WF_vars(Step)` in `Dispatch`: a runnable process gets to
run, and no system call of the program blocks forever. Nothing is assumed of the kernel, devices need not come or go.

**Deadlock** is checked in all runs: a program that has exited or died stutters explicitly
(`Finished`), everything else must be able to go on.

## 4. Properties

*Listing.* `NoDuplicateRows`, `SteadyDevicesShown` (of the passes that print all of their kind),
`SteadyRowsTrue` (every field a call can deliver was delivered, and from this device),
`ListedAreArrays` (a name may pass from a disk to a controller, or back, between the read of the type and
the row: of a device that stays the row is right, and of any other the name was a controller's at some
time since the entry was taken), `FieldsInOrder` (a row may mix two devices but
never goes back in time, neither behind the entry nor from call to call; in particular the slot, looked
up by numbers read before, is of no older device than they are), `CrashNeedsUnplug` (of `list disk` and
`list controller`, the only ones all of whose files exist), `LostIsAccounted`,
`NodeIsNotDescriptorZero`, `Ends` and the refinement `EnumeratesSteadyDevices`.

*ShowDisk.* `DetailsTrue` (the details are those of the disk asked for, complete and from one
device, if it stayed), `DetailsInOrder` (if it did not, the mixture never goes back in time, not even
from the record of one entry to the next), `AnswerFits` (the value returned against the disks that
stayed), `CrashNeedsMissingFile`, `Ends` and the refinement `EnumeratesEntries`.

*Dispatch.* `RefusedHasNoEffect`, `RecordsReleased`, `FallbackListsSix` (the six listings of
`handle_cmd_errors()`, each once, whichever fail, and nothing else; section 6 has what the manual page
promises beyond them), `SilentOneMeansDone`, `WritesOnlyToReset` (an action property: a write, even one with
the outcome of the one before, happens only for a reset and only as the first thing done) and `Ends`.

*FcPort.* `RowsTrue` (the record is filled anew for each host and each port, so nothing of the one before
may be left in it, and what lies behind a `link_state` that cannot be read must stay empty),
`CrashNeedsMissingFile`, `PortsFitList` (the ports are counted in one pass over the directory
and printed in another: of a host where nothing happens they are printed all, each once, or not at all, and
the number is never too large; both are right if an entry of another kind ends the directory, and the
violated `RPortsFound` says that they are not otherwise), `Ends` and the refinement
`EnumeratesHostsAndPorts`.

*IscsiShow.* `RowsTrue` (`NamesFit`: the chain host, session, connection belongs together although each
name was found in a stream that may be old; `ValuesFit`: each value is that of the object named
beside it), `LunsOnce` (three nested loops, the outer two over the same directories: while targets and disks come and
go, no disk is printed twice or under another session, and each that stays is printed), `CountFits` (the
number returned against the rows), `CrashNeedsLogout` and `Ends`.

*Format.* `SizesTrue` (a size that is read and is on a line of its own is printed as what it is, to the
largest unit that it fills, and so is the capacity of a disk whose logical blocks are sectors; what does
not hold is in section 6) and `CountersInOrder` (a counter that goes on counting is never printed as less than
before, also where it no longer fits `strtol()`).

Every property of a passing run has a mutant in `PROJECT.json`: an operator beside the definition it replaces,
marked *Mutant*, with a plausible bug under which the property fails.

## 5. Proofs

The proofs are for every set of names or objects, every order of the directories, every number of
hot-plug steps, every buffer size, all tables of attribute files, and in `Format` every width of a word,
every list of lines and every number in a file. They assume only what the `ASSUME`s of the modules state:

* Constants have their types; no two names share a place in the order of a directory.
* `Listing`: the program starts with some of the descriptors 0 to 2.
* `ShowDisk`: an argument that is a name begins that name; no list of files has one twice.
* `SysfsTree`: there are finitely many objects, since the properties speak of how many there are.
* `FcPort`: no file of `DetailFiles` is a gate and those of a remote port are formatted, as in the code.
* `IscsiShow`: each table names the links of the chain that its function uses, `"none"` is no object,
  and an array controller is a SCSI device like any other, with a `type`.
* `Format`: a unit is `KB` of the one before, with `KB` at least 2; no field is a size and a counter,
  and no line shows both; `size` sectors are bytes that fit a signed word, as the kernel has them.

For all but liveness, a theorem states what a passing run checks:

| module | theorem | property |
|---|---|---|
| `ListingProofs` | `TypeCorrect`, `NoDuplicates`, `RowsAreTrue`, `ControllersAreArrays`, `FieldsAreInOrder`, `NodeDescriptor`, `LossIsAccounted` | the invariants |
| | `SteadyShown`, `CrashIsUnplug`, `ImplementsEnumeration` | completeness, crashes, and the refinement |
| `ShowDiskProofs` | `TypeCorrect`, `DetailsAreTrue`, `DetailsAreInOrder`, `CrashIsMissingFile` | the details |
| | `AnswerIsTrue`, `ImplementsEnumeration` | the answer, and the refinement |
| `DispatchProofs` | `TypeCorrect`, `RefusalIsClean`, `NoLeakButFailedShow`, `FallbackComplete`, `SilentOneIsDone`, `OnlyResetWrites` | the command line, the last an action property |
| `FcPortProofs` | `TypeCorrect`, `RowsAreTrue`, `CrashHasReason` | the rows |
| `FcPortPassProofs` | `PortsFit`, `ImplementsEnumeration` | the two passes over the ports, and the refinement |
| `IscsiShowProofs` | `TypeCorrect`, `RowsAreTrue`, `CrashHasReason` | the rows |
| `IscsiPassProofs` | `DisksOnce`, `CountIsTrue` | the nested loops, and the two passes over the hosts |
| `FormatProofs` | `TypeCorrect`, `SizesAreTrue`, `CountersKeepOrder` | the conversions |

**`ListingProofs`**: `TypeCorrect`, by the type invariant together with what the program relies
on at each control point (`ControlOK`: inside a pass there is a pass, inside a record a record).
None of the safety properties is inductive, because each speaks of rows
that were printed long after the steps that decide about them. `SafetyInv` collects what has to
be carried along:

* `FdInv`: which descriptors are open, and that inside a pass descriptor 0 is one of them, be it
  standard input or the directory stream, which got the lowest free one. Hence `NodeDescriptor`.
* `OrderInv`: what has been shown, is in the record, or is buffered lies behind the cursor, and in
  this order. Hence `NoDuplicates`, although names come and go and are reused.
* `PresentInv` and `FieldInv`: the entry at hand was there when it was taken, each field got so far
  is between the generation the entry was taken at and the present one and not older than the
  field before; if nobody touched the device, it *is* the present one. A controller is printed for the type
  that was read, so
  the generation of that field is the one `ListedAreArrays` asks for. `RowInv` says the same of rows.
  Hence `RowsAreTrue`, `FieldsAreInOrder` and `ControllersAreArrays`.
* `CoverInv`: of the passes that print what they read, every steady device behind the cursor has been
  shown, is in the record, or is buffered.
* `LostInv`: descriptors lost against hot-plug steps and failed allocations. Hence `LossIsAccounted`.

The last part of the module is about particular passes. `SteadyShown` speaks of all but those of
`list enclosure`, which the violated run `list_enclosure` shows to be incomplete, and of `list cd-rom`, which
prints no row; `CrashIsUnplug` of those of `list disk` and `list controller`, because the others use
the name of a file that never exists. All theorems are about every sequence of listings.
`ImplementsEnumeration` is the step simulation under the mapping of `Listing.tla`: hot-plug steps are
`Disturb`, `PrintRow` is `Show` or a stutter, an early return, a crash or the end of a pass that is not
complete is `Abort`, and all calls between them stutter.

**`ShowDiskProofs`**: `TypeCorrect`, and from the inductive `SafetyInv` the theorems
`DetailsAreTrue`, `DetailsAreInOrder` and `CrashIsMissingFile`. The record is used for one entry after
another, so the invariant has to say for each file whether it has been read for *this* entry
(`FitsInv`, `OrderInv`, up to the position `k`), and that everything in it, however old, is no newer
than the present disk (`NewestInv`). A second invariant is about the pass itself. `PassInv` orders what
has been shown, the entry at hand, the buffer and the cursor (`BufInv`, `ShownInv`), accounts for every
steady disk behind the cursor (`CoverInv`), puts all of them behind it when the directory ends (`EndInv`),
and ties `count` to the rows (`CountInv`). Hence `AnswerIsTrue`: what is counted is exactly the steady
disks and some of those that came or went, each once, so a count of one or not one says what
`AnswerFits` says. And `ImplementsEnumeration`: the steps map to those of `Enumeration` as in `Listing`.

**`DispatchProofs`**: `Inv` says what each control point knows of the call (`ControlInv`), which
results can be on their way up (`RetInv`: `EAGAIN` and `ENOENT` only before anything was done),
where the record of a `show` or `stats` can still be alive (`InfoInv`), and that what the fall-back
has performed and what is left in its queue make up the six listings, in order, and nothing else has been
done or said (`FallbackInv`). A reset that is about to write has done nothing before, hence
`OnlyResetWrites`. The only constant
is the set of command lines.

**`FcPortProofs`**: `RecordInv` says
how far the tables have been read: of the table that stands for what has been begun of the row
(`Base`), some first `n` files are in the record and nothing else is, every gate among them was open, and
`todo` is the rest, or the next file is a gate that is closed. A port has a table of its own, of which
the same holds without gates.

**`FcPortPassProofs`**: the loops around it, with two inductive invariants.

* `PassInv`: the entries of the stream are children of its directory and behind its cursor
  (`StreamInv`); what has been shown, the entry at hand and the buffer follow each other in the order of
  the directory (`HandInv`, `ShownInv`); each steady object that is wanted is ahead, buffered, at hand or
  shown (`CoverInv`). From it the step simulation of `ImplementsEnumeration`: of the three commands, `list` shows
  hosts and `show` ports, a pass that counts shows nothing, and a command that ends early is an `Abort`.
* `CountInv`, for hosts where nothing happens while the program runs: what has been counted are the ports
  among the entries returned, and what is stored is what had been counted when an entry of another kind was
  last returned. When the directory ends all have been returned, so if such an entry comes last the number
  is the cardinality of the set of ports. Hence `PortsFit`: the rows of the second pass and the ports
  of the directory are in one-to-one correspondence, or there was no second pass.

**`IscsiShowProofs`**: `SearchInv` follows the
chain of names: the entries of a stream are children of its directory and behind its cursor; while sessions
are looked for, every steady one is still ahead, so that the one taken comes first; while connections
are, every steady one is ahead or not behind the one held; and what has been found stays until the next
host. `ValueInv` follows the values: at each control point every file of the tables begun has the value
that fits its object, or is still in the queue.

**`IscsiPassProofs`**: the loops, with two more inductive invariants.

* `PassInv`: the disks printed are or were below the session (`Met`) and lie in the order of their targets
  and, below one target, in their own
  (`DiskInv`); the three loops read with two streams, and where both stand is behind all that has been
  printed (`WalkInv`, `OrderInv`); each disk that must be printed, because it, its target and its session stayed
  and nothing on the way failed (`Due`), is printed or still to be reached (`CoverInv`). The loop over
  the targets runs inside another one over the same directory, which ends after one round, so that no
  disk has been printed when it starts (`PhaseInv`). Hence `DisksOnce`.
* `CountInv`: the number returned was counted in a pass of its own, over a directory that changes until
  the second pass. What survives the time between is that it is at least the number of hosts that stayed and
  at most the number of those ever met. `HostInv` says the same of the rows: in order, each host once, all
  that stayed and none that was never met. Hence `CountIsTrue`, with the cardinalities of finite sets.

**`FormatProofs`**: `FormatInv`. While `calculate_size()` runs, `dbl_size` is the value divided by the
unit `Unit[i + 1]` and rounded down, whatever has been cut off by the rounds before (`Calculates`); after it, the
buffer tells the value of a size of this line that has been evaluated (`CallInv`). The steps need nonlinear
arithmetic, which is isolated in lemmas about products and quotients. Hence, for lines of one size,
`SizesAreTrue`, and of the capacity because its product fits a
word; and `CountersKeepOrder`, because `strtol()` saturates.

The invariants were checked with TLC on the instances of section 3 before they were proved.

**Only model-checked**: `Ends` in all modules. Liveness under fairness needs `ENABLED`, which is beyond the
prover.

## 6. What the model shows about the code

Violated runs; each of these is a disagreement of the code with a text of the repository.

* `list enclosure` shows the first enclosure only. `validate_enclosure_type()` cuts its path off
  after 31 bytes, reads nothing, returns 0, and the loop ends on 0 (`src/scsi_disk_utils.c:328`;
  "list all the enclosure device", line 272).
* `show disk sda` on a host that also has `sdaa` prints `sda` twice and then "No Valid Device found"
  (`src/scsi_disk_utils.c:1284`, `src/scsi_test.c:795`).
* `reset adapter` reports "issued Sucessfully" for a write the kernel refused: it happens in
  `fclose()`, whose result is not looked at (`src/scsi_trigger.c:91`).
* `show fc_port` stores the number of remote ports only when it meets an entry that is none. Ports at the end
  of the directory are left out of "R-Ports Found", and if the number is 0 none is printed
  (`src/scsi_fcp_utils.c:293` and 687; "if there are any Remote Ports available, print those", line 686).
* `show disk` prints "WriteSame" and "Write Zeroes" in one `printf()`: both texts are in the one buffer of
  `calculate_size()`, so that one of the sizes is printed twice (`src/scsi_print.c:241`).
* `show fc_port` prints after "Driver Attached" the first driver of `/sys/bus/pci/drivers` whose name it
  knows, not the one the host belongs to, and reads that driver's files (`src/scsi_fcp_utils.c:101`,
  `src/scsi_print.c:350`).

Seen while modelling, without a run of its own:

* `list cd-rom` shows no drive: `list_cdrom_devs()` fills a record and frees it without a row
  (`src/scsi_disk_utils.c:499`; "List CD-ROM devices from the host", `src/scsi_test.c:63`).
* `show disk` that finds its disk exits with 1 and no message (`src/scsi_disk_utils.c:1284` returns 1;
  0 is success, `src/scsi_test.c:807`).
* `show disk sd` on a host with a single `sd` disk shows a disk `sd` without attributes and returns
  1: the argument is shown, not the entry it matched.
* A disk of one KiB is printed as 1024 bytes, one of one KiB and a byte as 1 KiB (`>` in
  `calculate_size()`).
* `reset port`, `reset issue_logo` and `reset issue_lip` are accepted and do nothing.
* A command typed with dashes (`--list`) is recognised, its sub-commands are refused:
  `validate_subcommand()` compares `argv[1]` as typed.
* `scan` always answers that it is not supported, its test being `argc < 2`; `stats iscsi`, which the
  manual page has, is refused.
* A command without a sub-command performs six listings. The README has "list of all the devices present in
  the system" (`src/README.md:114`), and the manual page of `list` says that it "will display all the
  devices in order" and names generic disks, tapes and medium changers among them
  (`src/man/scsi-cli-list.8:17` to 33): these are never listed then, nor are CD-ROM drives.
  `FallbackListsSix` is about the six. `list medium-changer` prints a title and nothing else.
* The capacity of a disk is `logical_block_size` times `size` (`src/scsi_print.c:256`), but the kernel counts
  `size` in sectors of 512 bytes: a disk with logical blocks of 4096 bytes is shown eight times as large.
* "Discard Granularity" is always 0: `get_disk_queue_data()` does not read it
  (`src/scsi_print.c:224`, `src/scsi_disk_utils.c:683` to 848). Nor is the "EH Timeout" of an NVMe disk read
  (`src/scsi_print.c:315`).
* "Soft Threshold Reached" shows `evt_capacity_change_reported`, which is printed under its own label, too
  (`src/scsi_print.c:282` and 292).
* `list multipath` and `list generic` ask for attributes at paths that never exist, so they pass a NULL
  format to `snprintf()` for every device. With a C library that takes it for an error the
  columns stay empty.

## 7. Not modelled, and why

* **Unreachable code**: `set_*_online`, `set_*_offline`, `set_*_alias`, `get_*_error_count` and
  `scsi_scan_*`. The table of sub-commands has no entries for their commands, so
  `validate_subcommand()` refuses whatever would lead there, and `cmd_scan()` returns before. `Dispatch`
  shows the refusal. `pci_bus_rescan`, `load_sysfs_path`, `validate_sysfs_path`, `get_iscsi_info` and the
  operations of `list_head` have no callers, so they have no behaviour of the program to be faithful to.
* **Layout and wording** of the output, the help texts, and the arguments of debug messages.
* **Memory**: strings made with `strdup()` are never freed; the program exits soon after.
* **The contents of attributes** other than the object they come from; `Format` has those that
  are numbers. Left out: `remove_space()`, which no caller gives a leading space; the `sscanf()` of
  `get_disk_stats()`, of which `Dispatch` has the results. `ShowDisk` has the record as a
  whole for what is printed of it, not which field comes after which label.
* **Some fields of the rows**: the version of an `lpfc` driver, which comes from `/sys/module` and from no
  object of the tree; the transport of an iSCSI host, which is one word for all; the branch for
  an "Unknown Adapter", which no driver leads to.
* **The size of the arguments**: `cmd_reset()`, `cmd_stats()` and `cmd_show()` copy the device that was typed into
  buffers of 16 or 32 bytes with the length of the argument as the bound (`src/scsi_test.c:467`, 530, 602).
  `Dispatch` takes arguments to fit.
* **Parts of `get_device_entry()`**: its `opendir()` may fail although the directory is there; `IscsiShow` lets the
  program die of the NULL then, but not go on with a C library that tolerates it. And it returns "unknown"
  when no entry begins with "sd", which the model has only for a directory that is gone. Either concerns
  the name that is printed, of which nothing is said.
* **What a dangling name reads as**: `get_device_entry()` returns a pointer into a stream that it closed.
  `IscsiShow` says when that happens, and says nothing about what is printed.
* **The steps inside `open_sysfs_stats_file()` and `get_hctl_info()`**. Opening and reading a file is one
  step: if the device goes away in between, `fgets()` returns NULL, as if the file had been sought at the
  moment it was gone, and a file that was opened never delivers the value of a later device.

## 8. Plan

1. `list iscsi` as a refinement of `Enumeration`: `HostInv` of `IscsiPassProofs` already has what the
   simulation needs.
2. `System`: `Dispatch` with two processes over one kernel, where a reset of an adapter takes the
   devices behind it away while another process lists them.
