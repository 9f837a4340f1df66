------------------------------ MODULE IscsiShow ------------------------------
(***************************************************************************)
(* The iSCSI commands: `list iscsi' and `show iscsi <host>', that is       *)
(* list_iscsi_devs() and show_iscsi_details() of scsi_iscsi_utils.c with   *)
(* what they call, running while sessions log in and out.                  *)
(*                                                                         *)
(* Both walk down from a host: to the first of its sessions, from there to *)
(* the last of its connections, and show also to the disks behind all its  *)
(* targets.  Every directory below is opened by names found above, when    *)
(* what bore them may be gone.  A file that is missing is treated as in    *)
(* FcPort: its NULL is a format, or is converted to a number.              *)
(***************************************************************************)
EXTENDS SysfsTree, Sequences

CONSTANTS
    Calls,            \* the commands, with the host asked for (Root for list)
    Attributes,       \* the attribute files
    Supported,        \* [Object -> SUBSET Attributes]: the files an object has
    SessionFiles,     \* the tables: of get_iscsi_session_info(), ...
    FillFiles,        \* ... of fill_connection_info() ...
    ConnectionFiles,  \* ... and of get_iscsi_connection_info()
    Array             \* the LUNs that are array controllers (type 12)

Read == {"session", "connection", "lun"}
Files == [of : Read, file : Attributes, how : {"format", "number"}]
Table == Seq(Files)

ASSUME CallsAssumption ==
    Calls \subseteq [op : {"list"}, host : {Root}]
                    \cup [op : {"show"}, host : {o \in Object : Kind[o] = "host"}]
ASSUME FilesAssumption ==
    /\ {"type", "state"} \subseteq Attributes
    /\ Supported \in [Object -> SUBSET Attributes]
    /\ {SessionFiles, FillFiles, ConnectionFiles} \subseteq Table
    /\ \A i \in DOMAIN SessionFiles : SessionFiles[i].of = "session"
    /\ \A i \in DOMAIN FillFiles : FillFiles[i].of # "lun"
    /\ \A i \in DOMAIN ConnectionFiles : ConnectionFiles[i].of = "connection"
ASSUME NamesAssumption ==
    /\ Array \subseteq {o \in Object : Kind[o] = "lun" /\ "type" \in Supported[o]}
    /\ "none" \notin Object \cup {Root}

VARIABLES
    call,      \* the command
    pc,        \* what the program does when todo is empty
    todo,      \* the files still to read
    name,      \* the names found so far
    val,       \* what was read from each file of each
    disk,      \* what get_device_entry() returned for a LUN
    count,     \* what get_device_count() returned
    outer,     \* the stream of the hosts or targets
    inner,     \* the stream below it
    open,      \* how many streams are open
    lost,      \* history: the directories that opendir() failed for
    rows,      \* history: what was printed
    result     \* what the function returned, or why the program died

proc == <<call, pc, todo, name, val, disk, count, outer, inner, open, lost, rows, result>>
vars == <<kernel, proc>>

Missing == 0
None == "none"

\* Mutant: malloc() without memset().
GarbageNames == [host |-> "?", session |-> "?", connection |-> "?", target |-> "?", lun |-> "?"]

NoNames == [host |-> None, session |-> None, connection |-> None,
            target |-> None, lun |-> None]

Empty == [k \in Read |-> [f \in Attributes |-> Missing]]

Ended == {"done", "crashed"}

Things == {"host", "session", "connection", "target", "lun"}
Names == [Things -> Object \cup {None}]
Values == [Read -> [Attributes -> Nat]]
Rows == [of : Things, name : Names, val : Values,
         disk : {"none", "true", "dangling", "unknown"}]

TypeOK ==
    /\ KernelTypeOK
    /\ call \in Calls
    /\ pc \in {"scan", "counting", "open", "hosts", "alloc", "device", "sessions",
               "opensession", "findtarget", "opentargets", "targets", "openluns",
               "luns", "type", "entry", "disk", "openconn", "connections",
               "info", "print"} \cup Ended
    /\ todo \in Table
    /\ name \in Names
    /\ val \in Values
    /\ disk \in {"none", "true", "dangling", "unknown"}
    /\ count \in Nat /\ open \in Nat
    /\ outer \in Streams /\ inner \in Streams
    /\ lost \subseteq Object \cup {Root}
    /\ rows \in Seq(Rows)
    /\ result \in {"none", "count", "0", "EINVAL", "ENODEV", "format", "number"}

\* cmd_show() allocates a cleared record for the host asked for.
Init ==
    /\ KernelInit
    /\ call \in Calls
    /\ pc = IF call.op = "list" THEN "scan" ELSE "alloc"
    /\ todo = <<>>
    /\ name = NoNames
    /\ val = Empty
    /\ disk = "none"
    /\ count = 0 /\ open = 0
    /\ outer = Opened(Root) /\ inner = Opened(Root)
    /\ lost = {}
    /\ rows = <<>>
    /\ result = "none"

At(p) == todo = <<>> /\ pc = p

Return(r) == pc' = "done" /\ result' = r

Die(why) == pc' = "crashed" /\ result' = why

-----------------------------------------------------------------------------
(* Attributes. *)

\* Mutant: the buffer of the path is too short for that of a session.
ReadableShortPath(o, f) == o \in present /\ f \in Supported[o] /\ Kind[o] # "session"

\* The path of a name that was not found is that of `(null)'.
Readable(o, f) == o \in present /\ f \in Supported[o]

ReadFile ==
    /\ todo # <<>> /\ pc \notin Ended
    /\ LET next == Head(todo)
           o == name[next.of]
       IN  \/ Readable(o, next.file) /\ val' = [val EXCEPT ![next.of][next.file] = gen[o]]
           \/ /\ ~Readable(o, next.file) /\ next.how = "format"
              /\ val' = [val EXCEPT ![next.of][next.file] = Missing]
    /\ todo' = Tail(todo)
    /\ UNCHANGED <<call, pc, name, disk, count, outer, inner, open, lost, rows, result>>

ReadCrashes ==
    /\ todo # <<>> /\ pc \notin Ended
    /\ ~Readable(name[Head(todo).of], Head(todo).file)
    /\ Die(Head(todo).how)
    /\ UNCHANGED <<call, todo, name, val, disk, count, outer, inner, open, lost, rows>>

-----------------------------------------------------------------------------
(* Directories. *)

OnOuter == {"counting", "hosts", "targets"}
OnInner == {"sessions", "findtarget", "luns", "connections"}

ReadAhead ==
    /\ todo = <<>>
    /\ \/ /\ pc \in OnOuter
          /\ \E o \in Ahead(outer) :
                IsFirst(o, Ahead(outer)) /\ outer' = Fetched(outer, o)
          /\ UNCHANGED inner
       \/ /\ pc \in OnInner
          /\ \E o \in Ahead(inner) :
                IsFirst(o, Ahead(inner)) /\ inner' = Fetched(inner, o)
          /\ UNCHANGED outer
    /\ UNCHANGED <<call, pc, todo, name, val, disk, count, open, lost, rows, result>>

OpenOuter(dir) ==
    /\ Exists(dir)
    /\ outer' = Opened(dir) /\ open' = open + 1 /\ UNCHANGED <<inner, lost>>

OpenInner(dir) ==
    /\ Exists(dir)
    /\ inner' = Opened(dir) /\ open' = open + 1 /\ UNCHANGED <<outer, lost>>

OpenFails(dir) == lost' = lost \cup ({dir} \ {None}) /\ UNCHANGED <<outer, inner, open>>

NextOuter(o) == IsFirst(o, outer.buf) /\ outer' = Taken(outer, o)

NextInner(o) == IsFirst(o, inner.buf) /\ inner' = Taken(inner, o)

EndOuter(p) == At(p) /\ AtEnd(outer) /\ open' = open - 1

EndInner(p) == At(p) /\ AtEnd(inner) /\ open' = open - 1

-----------------------------------------------------------------------------
(* list_iscsi_devs(): the hosts are counted, then read again. *)

\* get_device_count(): scandir()
Scan ==
    /\ At("scan")
    /\ \/ OpenOuter(Root) /\ pc' = "counting" /\ UNCHANGED result
       \/ OpenFails(Root) /\ Return("ENODEV")
    /\ UNCHANGED <<call, todo, name, val, disk, count, rows>>

CountHost ==
    /\ At("counting")
    /\ \E o \in outer.buf : NextOuter(o)
    /\ count' = count + 1
    /\ UNCHANGED <<call, pc, todo, name, val, disk, inner, open, lost, rows, result>>

\* Mutant: `.' and `..' are not subtracted.
EndScanDots ==
    /\ EndOuter("counting")
    /\ pc' = "open" /\ count' = count + 2
    /\ UNCHANGED <<call, todo, name, val, disk, outer, inner, lost, rows, result>>

EndScan ==
    /\ EndOuter("counting")
    /\ IF count = 0 THEN Return("ENODEV") ELSE pc' = "open" /\ UNCHANGED result
    /\ UNCHANGED <<call, todo, name, val, disk, count, outer, inner, lost, rows>>

OpenHosts ==
    /\ At("open")
    /\ \/ OpenOuter(Root) /\ pc' = "hosts" /\ UNCHANGED result
       \/ OpenFails(Root) /\ Return("EINVAL")
    /\ UNCHANGED <<call, todo, name, val, disk, count, rows>>

\* Mutant: the record is allocated once, before the loop.
TakeHostKeeps ==
    /\ At("hosts")
    /\ \E o \in outer.buf : NextOuter(o) /\ name' = [name EXCEPT !.host = o]
    /\ pc' = "device"
    /\ UNCHANGED <<call, todo, val, disk, count, inner, open, lost, rows, result>>

\* The transport is the same for all hosts: the first entry `tcp', if any.
TakeHost ==
    /\ At("hosts")
    /\ \E o \in outer.buf : NextOuter(o) /\ name' = [NoNames EXCEPT !.host = o]
    /\ val' = Empty
    /\ pc' = "device"
    /\ UNCHANGED <<call, todo, disk, count, inner, open, lost, rows, result>>

\* alloc_iscsi_dev() fails; the stream is left open.
AllocFails ==
    /\ At("hosts")
    /\ \E o \in outer.buf : NextOuter(o)
    /\ Return("EINVAL")
    /\ UNCHANGED <<call, todo, name, val, disk, count, inner, open, lost, rows>>

EndHosts ==
    /\ EndOuter("hosts")
    /\ Return("count")
    /\ UNCHANGED <<call, todo, name, val, disk, count, outer, inner, lost, rows>>

-----------------------------------------------------------------------------
(* show_iscsi_details() begins with the memory for a session and a         *)
(* connection; after that it returns 0 whatever becomes of its parts.      *)

Alloc ==
    /\ At("alloc")
    /\ \/ name' = [NoNames EXCEPT !.host = call.host] /\ pc' = "device" /\ UNCHANGED result
       \/ Return("ENODEV") /\ UNCHANGED name
    /\ UNCHANGED <<call, todo, val, disk, count, outer, inner, open, lost, rows>>

\* fill_session_info() returns 0 in any case.
SessionFilled ==
    IF call.op = "list" THEN pc' = "openconn" /\ UNCHANGED todo
                        ELSE pc' = "opensession" /\ todo' = SessionFiles

OpenDevice ==
    /\ At("device")
    /\ \/ OpenInner(name.host) /\ pc' = "sessions" /\ UNCHANGED todo
       \/ OpenFails(name.host) /\ SessionFilled
    /\ UNCHANGED <<call, name, val, disk, count, rows, result>>

TakeSession ==
    /\ At("sessions")
    /\ \E o \in inner.buf :
          /\ NextInner(o)
          /\ IF Kind[o] = "session"
               THEN name' = [name EXCEPT !.session = o] /\ open' = open - 1 /\ SessionFilled
               ELSE UNCHANGED <<name, open, pc, todo>>
    /\ UNCHANGED <<call, val, disk, count, outer, lost, rows, result>>

EndSessions ==
    /\ EndInner("sessions")
    /\ SessionFilled
    /\ UNCHANGED <<call, name, val, disk, count, outer, inner, lost, rows, result>>

Row(of) == [of |-> of, name |-> name, val |-> val, disk |-> disk]

\* get_iscsi_session_info() after its files.  Its error is not looked at.
OpenSession ==
    /\ At("opensession")
    /\ \/ OpenInner(name.session) /\ rows' = Append(rows, Row("session")) /\ pc' = "findtarget"
       \/ OpenFails(name.session) /\ pc' = "openconn" /\ UNCHANGED rows
    /\ UNCHANGED <<call, todo, name, val, disk, count, result>>

\* The first target starts get_session_scsi_disks(); the stream stays open.
FindTarget ==
    /\ At("findtarget")
    /\ \E o \in inner.buf :
          /\ NextInner(o)
          /\ pc' = IF Kind[o] = "target" THEN "opentargets" ELSE pc
    /\ UNCHANGED <<call, todo, name, val, disk, count, outer, open, lost, rows, result>>

NoTarget ==
    /\ At("findtarget")
    /\ AtEnd(inner)
    /\ pc' = "openconn"
    /\ UNCHANGED <<call, todo, name, val, disk, count, outer, inner, open, lost, rows, result>>

\* get_session_scsi_disks(): all targets, not only the one found.
OpenTargets ==
    /\ At("opentargets")
    /\ \/ OpenOuter(name.session) /\ pc' = "targets"
       \/ OpenFails(name.session) /\ pc' = "openconn"
    /\ UNCHANGED <<call, todo, name, val, disk, count, rows, result>>

TakeTarget ==
    /\ At("targets")
    /\ \E o \in outer.buf :
          /\ NextOuter(o)
          /\ IF Kind[o] = "target"
               THEN name' = [name EXCEPT !.target = o] /\ pc' = "openluns"
               ELSE UNCHANGED <<name, pc>>
    /\ UNCHANGED <<call, todo, val, disk, count, inner, open, lost, rows, result>>

EndTargets ==
    /\ EndOuter("targets")
    /\ pc' = "openconn"
    /\ UNCHANGED <<call, todo, name, val, disk, count, outer, inner, lost, rows, result>>

\* get_iscsi_disk_hctl(): every directory in that of a target is asked for its
\* type, `.' and `power' too.
OpenLuns ==
    /\ At("openluns")
    /\ \/ OpenInner(name.target) /\ pc' = "luns"
       \/ OpenFails(name.target) /\ pc' = "targets"
    /\ UNCHANGED <<call, todo, name, val, disk, count, rows, result>>

TakeLun ==
    /\ At("luns")
    /\ \E o \in inner.buf : NextInner(o) /\ name' = [name EXCEPT !.lun = o]
    /\ todo' = <<[of |-> "lun", file |-> "type", how |-> "format"]>>
    /\ pc' = "type"
    /\ UNCHANGED <<call, val, disk, count, outer, open, lost, rows, result>>

\* Mutant: every LUN is a disk.
IsDiskAny == Kind[name.lun] = "lun"

\* A type that could not be read is 0, that of a disk.
IsDisk ==
    /\ Kind[name.lun] = "lun"
    /\ name.lun \in Array => val["lun"]["type"] = Missing

CheckType ==
    /\ At("type")
    /\ pc' = IF IsDisk THEN "entry" ELSE "luns"
    /\ UNCHANGED <<call, todo, name, val, disk, count, outer, inner, open, lost, rows, result>>

\* get_device_entry() returns a name that lies in the stream it has closed, and
\* leaves the stream open if it finds none.  The result is a format.
GetDeviceEntry ==
    /\ At("entry")
    /\ \/ /\ Readable(name.lun, "block")
          /\ disk' \in {"true", "dangling"}
          /\ UNCHANGED open
       \/ ~Readable(name.lun, "block") /\ disk' = "none" /\ UNCHANGED open
       \/ ~Readable(name.lun, "block") /\ disk' = "unknown" /\ open' = open + 1
    /\ todo' = <<[of |-> "lun", file |-> "state", how |-> "format"]>>
    /\ pc' = "disk"
    /\ UNCHANGED <<call, name, val, count, outer, inner, lost, rows, result>>

EntryCrashes ==
    /\ At("entry")
    /\ Die("format")
    /\ UNCHANGED <<call, todo, name, val, disk, count, outer, inner, open, lost, rows>>

PrintLun ==
    /\ At("disk")
    /\ rows' = Append(rows, Row("lun"))
    /\ pc' = "luns"
    /\ UNCHANGED <<call, todo, name, val, disk, count, outer, inner, open, lost, result>>

\* The error it always returns is not looked at.
EndLuns ==
    /\ EndInner("luns")
    /\ pc' = "targets"
    /\ UNCHANGED <<call, todo, name, val, disk, count, outer, inner, lost, rows, result>>

-----------------------------------------------------------------------------
(* fill_connection_info() and get_iscsi_connection_info() *)

After == IF call.op = "list" THEN "print" ELSE "info"

OpenConnections ==
    /\ At("openconn")
    /\ \/ OpenInner(name.session) /\ pc' = "connections"
       \/ OpenFails(name.session) /\ pc' = After
    /\ UNCHANGED <<call, todo, name, val, disk, count, rows, result>>

\* Mutant: the loop goes on without readdir().
TakeConnectionStuck ==
    /\ At("connections")
    /\ \E o \in inner.buf : IsFirst(o, inner.buf)
    /\ UNCHANGED <<proc>>

\* The last one wins.
TakeConnection ==
    /\ At("connections")
    /\ \E o \in inner.buf :
          /\ NextInner(o)
          /\ name' = IF Kind[o] = "connection" THEN [name EXCEPT !.connection = o] ELSE name
    /\ UNCHANGED <<call, pc, todo, val, disk, count, outer, open, lost, rows, result>>

EndConnections ==
    /\ EndInner("connections")
    /\ todo' = FillFiles
    /\ pc' = After
    /\ UNCHANGED <<call, name, val, disk, count, outer, inner, lost, rows, result>>

GetConnectionInfo ==
    /\ At("info")
    /\ todo' = ConnectionFiles
    /\ pc' = "print"
    /\ UNCHANGED <<call, name, val, disk, count, outer, inner, open, lost, rows, result>>

\* print_list_iscsi_dev() or print_iscsi_connection_info()
PrintRow ==
    /\ At("print")
    /\ IF call.op = "list"
         THEN rows' = Append(rows, Row("host")) /\ pc' = "hosts" /\ UNCHANGED result
         ELSE rows' = Append(rows, Row("connection")) /\ Return("0")
    /\ UNCHANGED <<call, todo, name, val, disk, count, outer, inner, open, lost>>

-----------------------------------------------------------------------------
Process ==
    /\ \/ ReadFile \/ ReadCrashes \/ ReadAhead
       \/ Scan \/ CountHost \/ EndScan \/ OpenHosts \/ TakeHost \/ AllocFails \/ EndHosts
       \/ Alloc \/ OpenDevice \/ TakeSession \/ EndSessions
       \/ OpenSession \/ FindTarget \/ NoTarget
       \/ OpenTargets \/ TakeTarget \/ EndTargets
       \/ OpenLuns \/ TakeLun \/ CheckType \/ GetDeviceEntry \/ EntryCrashes \/ PrintLun
       \/ EndLuns
       \/ OpenConnections \/ TakeConnection \/ EndConnections \/ GetConnectionInfo
       \/ PrintRow
    /\ UNCHANGED kernel

Kernel == Hotplug /\ UNCHANGED proc

Finished == pc \in Ended /\ UNCHANGED vars

Next == Process \/ Kernel \/ Finished

Spec == Init /\ [][Next]_vars

\* The program keeps running; nobody need log in or out.
FairSpec == Spec /\ WF_vars(Process)

-----------------------------------------------------------------------------
(* Properties. *)

ChildrenOf(o, kind) == {c \in Children(o) : Kind[c] = kind}

\* What a row shows below a host that stays belongs to it: the session is the
\* first of those that stay, or one that comes before it, and the connection is
\* the last of the session's.  No name is one of an earlier host.
NamesFit(row) ==
    LET host == row.name.host
        session == row.name.session
        connection == row.name.connection
    IN  /\ session # None => session \in ChildrenOf(host, "session")
        /\ connection # None => session # None /\ connection \in ChildrenOf(session, "connection")
        /\ Steady(host) /\ host \notin lost =>
               \A s \in ChildrenOf(host, "session") :
                   Steady(s) => session # None /\ Hash[session] <= Hash[s]
        /\ row.of \in {"host", "connection"} /\ Steady(session) /\ session \notin lost =>
               \A c \in ChildrenOf(session, "connection") :
                   Steady(c) => connection # None /\ Hash[c] <= Hash[connection]

Script(row) ==
    CASE row.of = "host"       -> FillFiles
      [] row.of = "session"    -> SessionFiles
      [] row.of = "connection" -> FillFiles \o ConnectionFiles
      [] row.of = "lun"        -> <<[of |-> "lun", file |-> "type", how |-> "format"],
                                    [of |-> "lun", file |-> "state", how |-> "format"]>>

\* And every value of what stays is its own: a file that it has was read from
\* the very object named in the row, unless its directory could not be opened.
ValuesFit(row) ==
    \A i \in DOMAIN Script(row) :
        LET of == Script(row)[i].of
            file == Script(row)[i].file
        IN  Steady(row.name[of]) /\ row.name.session \notin lost =>
                row.val[of][file] = IF file \in Supported[row.name[of]]
                                      THEN gen[row.name[of]] ELSE Missing

\* A row is about one host, and true of all of it that stays.
RowsTrue == \A i \in DOMAIN rows : NamesFit(rows[i]) /\ ValuesFit(rows[i])

\* It is there, or something happened to it.
Met(o) == o \in present \cup touched

\* The rows of disks, and the disk of a row.
Disks == {i \in DOMAIN rows : rows[i].of = "lun"}
Disk(i) == rows[i].name.lun
HasSession == \E i \in DOMAIN rows : rows[i].of = "session"
Printed(l) == \E i \in Disks : Disk(i) = l

Below(l) == Kind[l] = "lun" /\ Parent[l] \in ChildrenOf(name.session, "target")

\* A disk that should be printed, as it, its target and its session stay, and
\* their directories could be opened.
Due(l) ==
    /\ Below(l) /\ l \notin Array
    /\ Steady(l) /\ Steady(Parent[l]) /\ Steady(name.session)
    /\ Parent[l] \notin lost /\ name.session \notin lost

\* The disks of a session are found through two nested loops, begun by a third.
\* Whoever logs in or out, whatever is scanned or removed meanwhile: no disk is
\* printed twice, every one printed is or was below the session, no array that
\* stays is among them, and when the command ends none that stays is left out.
LunsOnce ==
    /\ \A i, j \in Disks : Disk(i) = Disk(j) => i = j
    /\ \A i \in Disks :
           Below(Disk(i)) /\ Met(Disk(i)) /\ (Steady(Disk(i)) => Disk(i) \notin Array)
    /\ pc = "done" /\ HasSession => \A l \in Object : Due(l) => Printed(l)

\* The number returned was counted before the rows were printed; it is theirs
\* up to the hosts that came or went.
CountFits ==
    result = "count" =>
        LET moved == Cardinality({o \in touched : Kind[o] = "host"})
        IN  count <= Len(rows) + moved /\ Len(rows) <= count + moved

\* The program dies of a number only if there is no session or connection to
\* read it from, if that one came or went meanwhile, or has no such file.
CrashNeedsLogout ==
    pc = "crashed" /\ result = "number" =>
        LET o == name[Head(todo).of]
        IN  o # None /\ Steady(o) => Head(todo).file \notin Supported[o]

\* Every command ends, whoever logs in or out.
Ends == <>(pc \in Ended)

=============================================================================
