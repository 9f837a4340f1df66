------------------------------ MODULE ShowDisk ------------------------------
(***************************************************************************)
(* `scsi-cli show disk <name>': show_disk_details() of scsi_disk_utils.c   *)
(* with what it calls, running while disks come and go.                    *)
(*                                                                         *)
(* The function goes through /sys/block.  For every entry that begins with *)
(* the name asked for it reads the attributes of the disk of that very     *)
(* name (not of the entry), file by file, and prints them; if this         *)
(* happened exactly once, it returns 1, and otherwise -ENODEV, which       *)
(* handle_cmd() reports as `No Valid Device found'.                        *)
(*                                                                         *)
(* The module is written for any lists of attribute files.  The program    *)
(* reads some forty for a disk and as many for its queue, and whether a    *)
(* disk has one of them depends on the kernel and the transport.           *)
(***************************************************************************)
EXTENDS Sysfs, Sequences

CONSTANTS
    Requests,      \* the arguments, cut off after 15 characters
    NvmeRequests,  \* those that begin with "nvme"
    BeginsWith,    \* [Requests -> SUBSET Name]: the names an argument begins
    Attributes,    \* the attribute files
    ScsiFiles,     \* those of a SCSI disk, in the order of the calls ...
    NvmeFiles,     \* ... of an NVMe disk ...
    QueueFiles,    \* ... and of the queue of either
    Supported,     \* [Name -> SUBSET Attributes]: the files a disk has
    Batch          \* bound: directory entries one getdents call returns

ASSUME RequestsAssumption ==
    /\ NvmeRequests \subseteq Requests
    /\ BeginsWith \in [Requests -> SUBSET Name]
    /\ \A r \in Requests \cap Name : r \in BeginsWith[r]
ASSUME FilesAssumption ==
    /\ ScsiFiles \in Seq(Attributes)
    /\ NvmeFiles \in Seq(Attributes)
    /\ QueueFiles \in Seq(Attributes) \ {<<>>}
    /\ Supported \in [Name -> SUBSET Attributes]
\* No file is read twice for an entry.
ASSUME DistinctAssumption ==
    \A own \in {ScsiFiles, NvmeFiles} :
        LET all == own \o QueueFiles
        IN  \A i, j \in DOMAIN all : all[i] = all[j] => i = j
ASSUME BatchAssumption == Batch \in Nat \ {0}

VARIABLES
    asked,     \* the name asked for
    pc,        \* what the process does next
    cursor,    \* the directory's position after the last entry of the buffer
    buf,       \* the entries got from the kernel and not yet taken
    entry,     \* the entry at hand
    val,       \* the record: what was read from each file last
    k,         \* the file read next, a position of Files
    count,     \* the entries shown
    details,   \* history: what was printed, with the entry that led to it
    result     \* what show_disk_details() returned

proc == <<asked, pc, cursor, buf, entry, val, k, count, details, result>>
vars == <<kernel, proc>>

Missing == 0        \* an attribute that was not obtained
NoEntry == "none"

InPass == {"getdents", "readdir", "read", "print", "closedir"}

Values == [Attributes -> Nat]

TypeOK ==
    /\ KernelTypeOK
    /\ asked \in Requests
    /\ pc \in InPass \cup {"opendir", "done", "crashed"}
    /\ cursor \in Nat
    /\ buf \subseteq Name
    /\ entry \in Name \cup {NoEntry}
    /\ val \in Values
    /\ k \in Nat
    /\ count \in Nat
    /\ details \in Seq([entry : Name, val : Values])
    /\ result \in {"none", "1", "ENODEV"}

\* alloc_scsi_dev() clears the record.
Init ==
    /\ KernelInit
    /\ asked \in Requests
    /\ pc = "opendir"
    /\ cursor = 0
    /\ buf = {}
    /\ entry = NoEntry
    /\ val = [f \in Attributes |-> Missing]
    /\ k = 1
    /\ count = 0
    /\ details = <<>>
    /\ result = "none"

-----------------------------------------------------------------------------
(* The pass over /sys/block. *)

OpenDir ==
    /\ pc = "opendir"
    /\ pc' = "getdents"
    /\ touched' = {}
    /\ UNCHANGED <<life, gen, events, asked, cursor, buf, entry, val, k, count,
                   details, result>>

OpenDirFails ==
    /\ pc = "opendir"
    /\ pc' = "done"
    /\ result' = "ENODEV"
    /\ UNCHANGED <<kernel, asked, cursor, buf, entry, val, k, count, details>>

Ahead == EntriesAfter("block", cursor)

GetdentsEmit ==
    /\ pc = "getdents"
    /\ Cardinality(buf) < Batch
    /\ \E n \in Ahead :
          /\ First(n, Ahead)
          /\ buf' = buf \cup {n}
          /\ cursor' = Hash[n]
    /\ UNCHANGED <<kernel, asked, pc, entry, val, k, count, details, result>>

GetdentsReturn ==
    /\ pc = "getdents"
    /\ buf # {} \/ Ahead = {}
    /\ pc' = IF buf = {} THEN "closedir" ELSE "readdir"
    /\ UNCHANGED <<kernel, asked, cursor, buf, entry, val, k, count, details, result>>

\* Mutant: the directory is opened anew for every buffer.
RefillRewinds ==
    /\ pc = "readdir"
    /\ buf = {}
    /\ cursor' = 0
    /\ pc' = "getdents"
    /\ UNCHANGED <<kernel, asked, buf, entry, val, k, count, details, result>>

Refill ==
    /\ pc = "readdir"
    /\ buf = {}
    /\ pc' = "getdents"
    /\ UNCHANGED <<kernel, asked, cursor, buf, entry, val, k, count, details, result>>

\* Mutant: the loop continues without a readdir().
SkipNothing ==
    /\ pc = "readdir"
    /\ \E n \in buf : First(n, buf) /\ n \notin BeginsWith[asked]
    /\ UNCHANGED vars

SkipEntry ==
    /\ pc = "readdir"
    /\ \E n \in buf :
          First(n, buf) /\ n \notin BeginsWith[asked] /\ buf' = buf \ {n}
    /\ UNCHANGED <<kernel, asked, pc, cursor, entry, val, k, count, details, result>>

\* strncmp() with the length of the argument: any name that begins with it.
TakeEntry ==
    /\ pc = "readdir"
    /\ \E n \in buf :
          /\ First(n, buf)
          /\ n \in BeginsWith[asked]
          /\ buf' = buf \ {n}
          /\ entry' = n
    /\ k' = 1
    /\ pc' = "read"
    /\ UNCHANGED <<kernel, asked, cursor, val, count, details, result>>

-----------------------------------------------------------------------------
(* The details of the disk asked for. *)

\* The argument, not the entry, decides which kind of disk this is.
Files == (IF asked \in NvmeRequests THEN NvmeFiles ELSE ScsiFiles) \o QueueFiles

\* Mutant: the files are sought by way of the disk's node in /dev.
ReadableByNode(f) ==
    /\ asked \in Entries("block")
    /\ HasNode(asked)
    /\ f \in Supported[asked]

\* There is a file /sys/block/<asked>/.../<f>.
Readable(f) == asked \in Entries("block") /\ f \in Supported[asked]

Advance ==
    /\ k' = k + 1
    /\ pc' = IF k = Len(Files) THEN "print" ELSE "read"

\* Mutant: the path is built from the entry.
ReadFileOfEntry ==
    /\ pc = "read"
    /\ val' = [val EXCEPT ![Files[k]] =
                  IF entry \in Entries("block") /\ Files[k] \in Supported[entry]
                    THEN gen[entry] ELSE Missing]
    /\ Advance
    /\ UNCHANGED <<kernel, asked, cursor, buf, entry, count, details, result>>

\* Mutant: what is in the record stays if there is no file.
ReadFileKeeps ==
    /\ pc = "read"
    /\ val' = IF Readable(Files[k])
                THEN [val EXCEPT ![Files[k]] = gen[asked]] ELSE val
    /\ Advance
    /\ UNCHANGED <<kernel, asked, cursor, buf, entry, count, details, result>>

\* The next file is read; without it the value becomes empty, whatever it was
\* for the entry before ...
ReadFile ==
    /\ pc = "read"
    /\ val' = [val EXCEPT ![Files[k]] =
                  IF Readable(Files[k]) THEN gen[asked] ELSE Missing]
    /\ Advance
    /\ UNCHANGED <<kernel, asked, cursor, buf, entry, count, details, result>>

\* ... or the NULL given to snprintf() ends the process.
ReadCrashes ==
    /\ pc = "read"
    /\ ~Readable(Files[k])
    /\ pc' = "crashed"
    /\ UNCHANGED <<kernel, asked, cursor, buf, entry, val, k, count, details, result>>

PrintDetails ==
    /\ pc = "print"
    /\ details' = Append(details, [entry |-> entry, val |-> val])
    /\ count' = count + 1
    /\ pc' = "readdir"
    /\ UNCHANGED <<kernel, asked, cursor, buf, entry, val, k, result>>

\* Mutant: any number of entries is an answer.
CloseDirAny ==
    /\ pc = "closedir"
    /\ result' = IF count # 0 THEN "1" ELSE "ENODEV"
    /\ pc' = "done"
    /\ UNCHANGED <<kernel, asked, cursor, buf, entry, val, k, count, details>>

\* Mutant: the number of entries is the answer, as in the listings.
CloseDirCount ==
    /\ pc = "closedir"
    /\ result' = IF count = 0 THEN "ENODEV" ELSE IF count = 1 THEN "1" ELSE "2"
    /\ pc' = "done"
    /\ UNCHANGED <<kernel, asked, cursor, buf, entry, val, k, count, details>>

CloseDir ==
    /\ pc = "closedir"
    /\ result' = IF count = 1 THEN "1" ELSE "ENODEV"
    /\ pc' = "done"
    /\ UNCHANGED <<kernel, asked, cursor, buf, entry, val, k, count, details>>

-----------------------------------------------------------------------------
Process ==
    \/ OpenDir \/ OpenDirFails \/ GetdentsEmit \/ GetdentsReturn
    \/ Refill \/ SkipEntry \/ TakeEntry
    \/ ReadFile \/ ReadCrashes \/ PrintDetails \/ CloseDir

Kernel == Hotplug /\ UNCHANGED proc

Finished == pc \in {"done", "crashed"} /\ UNCHANGED vars

Next == Process \/ Kernel \/ Finished

Spec == Init /\ [][Next]_vars

\* The process keeps running; disks need not come or go.
FairSpec == Spec /\ WF_vars(Process)

-----------------------------------------------------------------------------
(* Properties. *)

\* The disk was there all through the pass; its node is of no interest here.
Steady(n) == n \notin touched /\ n \in Entries("block")

\* The details of a disk nobody touched show that disk, however many entries of
\* the directory lead to it and whatever becomes of them: every file it has was
\* read, and nothing is shown for those it has not.  A name no disk bears has
\* no details.
DetailsTrue ==
    pc \in InPass \cup {"done"} =>
        \A i \in DOMAIN details, j \in DOMAIN Files :
            LET shown == details[i].val[Files[j]]
            IN  /\ asked \in Name /\ Steady(asked) =>
                      shown = IF Files[j] \in Supported[asked]
                                THEN gen[asked] ELSE Missing
                /\ asked \notin Name => shown = Missing

\* What is shown comes from disks that followed each other in the order of the
\* calls, through all entries: nothing of an earlier disk appears after
\* something of a later one, although the record is used again and again.
DetailsInOrder ==
    \A h, i \in DOMAIN details, f, g \in DOMAIN Files :
        LET earlier == details[h].val[Files[f]]
            later   == details[i].val[Files[g]]
        IN  /\ h < i \/ (h = i /\ f < g)
            /\ later # Missing
            => earlier <= later

\* The answer fits the disks nobody touched: 1 is not returned when the argument
\* begins two of them, and -ENODEV not when it begins one and no other name
\* that came or went.
AnswerFits ==
    pc = "done" /\ cursor # 0 =>
        LET steady == {n \in BeginsWith[asked] : Steady(n)}
            others == BeginsWith[asked] \cap touched
        IN  /\ result = "1" => Cardinality(steady) <= 1 /\ steady \cup others # {}
            /\ result = "ENODEV" => Cardinality(steady) # 1 \/ others # {}

\* The program dies of a missing file only if the disk asked for came or went,
\* is not there at all, or has no such file: a disk that stays and has all the
\* files is shown.
CrashNeedsMissingFile ==
    pc = "crashed" /\ asked \in Name /\ Steady(asked) =>
        Files[k] \notin Supported[asked]

\* The program ends, whatever the disks do meanwhile.
Ends == <>(pc \in {"done", "crashed"})

\* The pass as an enumeration of the entries that the argument begins.
Status ==
    CASE pc = "closedir"              -> "complete"
      [] pc \in InPass \ {"closedir"} -> "open"
      [] OTHER                        -> "idle"

SteadyWanted ==
    IF pc \in InPass THEN {n \in BeginsWith[asked] : Steady(n)} ELSE {}

ShownNames == [i \in DOMAIN details |-> details[i].entry]

Enum == INSTANCE Enumeration WITH
    Thing <- Name, status <- Status, steady <- SteadyWanted, shown <- ShownNames

\* Every entry the argument begins is counted once: none twice, and none left
\* out that stays in place, through every step of the program and the kernel.
EnumeratesEntries == Enum!Spec

-----------------------------------------------------------------------------
(* What the repository says and the code does not do. *)

\* A disk that is there all the time is found: handle_cmd() turns -ENODEV into
\* `No Valid Device found'.
ExistingDiskFound ==
    pc = "done" /\ cursor # 0 /\ asked \in Name /\ Steady(asked) =>
        result = "1"

=============================================================================
