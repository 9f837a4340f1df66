------------------------------- MODULE FcPort -------------------------------
(***************************************************************************)
(* The Fibre Channel commands: `list fc_hba', `show fc_port <host>' and    *)
(* `stats fc_port <host>', that is list_fc_adapters(),                     *)
(* show_fc_port_details() and get_fc_dev_stats() of scsi_fcp_utils.c with  *)
(* what they call, running while hosts and remote ports come and go.       *)
(*                                                                         *)
(* All three fill the record of a host from attribute files, in the order  *)
(* of tables that are parameters here.  How a file is read decides what    *)
(* becomes of one that is not there:                                       *)
(*    format   the NULL is a format: an empty value, or the end            *)
(*    number   the NULL is converted by strtoull(): the end                *)
(*    line     the function opens the file itself and leaves the field     *)
(*    gate     likewise, and leaves all fields after it, too               *)
(***************************************************************************)
EXTENDS SysfsTree, Sequences

CONSTANTS
    Calls,         \* the commands, with the host asked for (Root for a list)
    Attributes,    \* the attribute files
    Supported,     \* [Object -> SUBSET Attributes]: the files an object has
    DetailFiles,   \* the tables: of get_adapter_details(), ...
    DriverFiles,   \* ... of get_fc_info() for each known driver, ...
    LinkFiles,     \* ... and for both of them, ...
    StatFiles,     \* ... of get_fc_dev_stats() ...
    RportFiles,    \* ... and of get_rport_info()
    Loads,         \* what may be loaded of the known drivers
    DriverOf       \* the driver that a host belongs to

Drivers == {"qla2xxx", "lpfc"}
Files == [file : Attributes, how : {"format", "number", "line", "gate"}]
Table == Seq(Files)

FilesIn(table) == {table[i].file : i \in DOMAIN table}

ASSUME CallsAssumption ==
    Calls \subseteq [op : {"list"}, host : {Root}]
                    \cup [op : {"show", "stats"}, host : {o \in Object : Kind[o] = "host"}]
ASSUME FilesAssumption ==
    /\ "symbolic_name" \in Attributes
    /\ Supported \in [Object -> SUBSET Attributes]
    /\ {DetailFiles, LinkFiles, StatFiles, RportFiles} \subseteq Table
    /\ DriverFiles \in [Drivers -> Table]
    /\ \A i \in DOMAIN RportFiles : RportFiles[i].how = "format"
    /\ \A i \in DOMAIN DetailFiles : DetailFiles[i].how # "gate"
ASSUME DriverAssumption == Loads \subseteq Seq(Drivers) /\ DriverOf \in [Object -> Drivers]

VARIABLES
    loaded,    \* the known drivers in /sys/bus/pci/drivers, in its order
    call,      \* the command
    pc,        \* what the program does when todo is empty
    todo,      \* the files still to read
    obj,       \* the object they belong to
    val,       \* the record: what was read from each file
    driver,    \* its driver_name
    ports,     \* its no_rports
    count,     \* rport_cnt of get_adapter_details(), count of list_fc_adapters()
    stream,    \* the directory stream read last
    open,      \* how many streams are open
    rows,      \* history: what was printed
    result     \* what the function returned, or why the program died

proc == <<call, pc, todo, obj, val, driver, ports, count, stream, open, rows, result>>
vars == <<kernel, loaded, proc>>

Missing == 0
None == "none"
Empty == [f \in Attributes |-> Missing]

Ended == {"done", "crashed"}

Values == [Attributes -> Nat]
Rows == [obj : Object, val : Values, driver : Drivers \cup {None}, ports : Nat]

TypeOK ==
    /\ KernelTypeOK
    /\ loaded \in Loads
    /\ call \in Calls
    /\ pc \in {"open", "hosts", "driver", "openports", "count", "info", "print",
               "openlist", "rports", "printport"} \cup Ended
    /\ todo \in Table
    /\ obj \in Object \cup {Root}
    /\ val \in Values
    /\ driver \in Drivers \cup {None}
    /\ ports \in Nat /\ count \in Nat /\ open \in 0 .. 1
    /\ stream \in Streams
    /\ rows \in Seq(Rows)
    /\ result \in {"none", "count", "0", "ENODEV", "format", "number", "driver", "memory"}

Symbolic == <<[file |-> "symbolic_name", how |-> "line"]>>

\* alloc_fc_dev() clears the record.  cmd_show() and cmd_stats() call it for
\* the host asked for, list_fc_adapters() for every entry.
Init ==
    /\ KernelInit
    /\ loaded \in Loads
    /\ call \in Calls
    /\ obj = call.host
    /\ pc = CASE call.op = "list"  -> "open"
              [] call.op = "show"  -> "driver"
              [] call.op = "stats" -> "print"
    /\ todo = CASE call.op = "list"  -> <<>>
                [] call.op = "show"  -> Symbolic
                [] call.op = "stats" -> StatFiles
    /\ val = Empty
    /\ driver = None
    /\ ports = 0 /\ count = 0 /\ open = 0
    /\ stream = Opened(Root)
    /\ rows = <<>>
    /\ result = "none"

At(p) == todo = <<>> /\ pc = p

Reading == todo # <<>> /\ pc \notin Ended

Return(r) == pc' = "done" /\ result' = r

Die(why) == pc' = "crashed" /\ result' = why

-----------------------------------------------------------------------------
(* Attributes. *)

\* Mutant: the path of a port does not fit its buffer.
ReadableShortPath(f) ==
    obj \in present /\ f \in Supported[obj] /\ Kind[obj] # "rport"

Readable(f) == obj \in present /\ f \in Supported[obj]

\* The next file: its value is kept, and a missing one treated as it is read.
ReadFile ==
    /\ Reading
    /\ LET f == Head(todo).file
           how == Head(todo).how
       IN  \/ /\ Readable(f)
              /\ val' = [val EXCEPT ![f] = gen[obj]]
              /\ todo' = Tail(todo)
           \/ /\ ~Readable(f) /\ how = "format"
              /\ val' = [val EXCEPT ![f] = Missing]
              /\ todo' = Tail(todo)
           \/ /\ ~Readable(f) /\ how \in {"line", "gate"}
              /\ todo' = IF how = "gate" THEN <<>> ELSE Tail(todo)
              /\ UNCHANGED val
    /\ UNCHANGED <<call, pc, obj, driver, ports, count, stream, open, rows, result>>

ReadCrashes ==
    /\ Reading
    /\ ~Readable(Head(todo).file)
    /\ Head(todo).how \in {"format", "number"}
    /\ Die(Head(todo).how)
    /\ UNCHANGED <<call, todo, obj, val, driver, ports, count, stream, open, rows>>

\* get_driver_info(): the first known driver there is, whoever asks.
GetDriver ==
    /\ At("driver")
    /\ driver' = IF loaded = <<>> THEN None ELSE Head(loaded)
    /\ IF call.op = "show"
         THEN pc' = "openports" /\ todo' = DetailFiles
         ELSE pc' = "info" /\ UNCHANGED todo
    /\ UNCHANGED <<call, obj, val, ports, count, stream, open, rows, result>>

\* get_fc_info() up to the files; it compares a NULL name with strncmp().
GetInfo ==
    /\ At("info")
    /\ driver # None
    /\ todo' = DriverFiles[driver] \o LinkFiles
    /\ pc' = "print"
    /\ UNCHANGED <<call, obj, val, driver, ports, count, stream, open, rows, result>>

NoDriver ==
    /\ At("info")
    /\ driver = None
    /\ Die("driver")
    /\ UNCHANGED <<call, todo, obj, val, driver, ports, count, stream, open, rows>>

\* opendir() fails, and its NULL is given to readdir().
NoMemory ==
    /\ At("driver")
    /\ Die("memory")
    /\ UNCHANGED <<call, todo, obj, val, driver, ports, count, stream, open, rows>>

-----------------------------------------------------------------------------
(* Directories. *)

InStream == {"hosts", "count", "rports"}

OpenAt(dir, p) ==
    /\ Exists(dir)
    /\ stream' = Opened(dir)
    /\ open' = open + 1
    /\ pc' = p

ReadAhead ==
    /\ todo = <<>> /\ pc \in InStream
    /\ \E o \in Ahead(stream) :
          IsFirst(o, Ahead(stream)) /\ stream' = Fetched(stream, o)
    /\ UNCHANGED <<call, pc, todo, obj, val, driver, ports, count, open, rows, result>>

Take(o) == IsFirst(o, stream.buf) /\ stream' = Taken(stream, o)

EndAt(p) ==
    /\ At(p)
    /\ AtEnd(stream)
    /\ open' = open - 1

\* list_fc_adapters(): the hosts.
OpenHosts ==
    /\ At("open")
    /\ \/ OpenAt(Root, "hosts") /\ UNCHANGED result
       \/ Return("ENODEV") /\ UNCHANGED <<stream, open>>
    /\ UNCHANGED <<call, todo, obj, val, driver, ports, count, rows>>

\* Mutant: one record for all hosts.
TakeHostKeeps ==
    /\ At("hosts")
    /\ \E o \in stream.buf : Take(o) /\ obj' = o
    /\ todo' = Symbolic
    /\ pc' = "driver"
    /\ UNCHANGED <<call, val, driver, ports, count, open, rows, result>>

TakeHost ==
    /\ At("hosts")
    /\ \E o \in stream.buf : Take(o) /\ obj' = o
    /\ val' = Empty
    /\ driver' = None
    /\ todo' = Symbolic
    /\ pc' = "driver"
    /\ UNCHANGED <<call, ports, count, open, rows, result>>

AllocFails ==
    /\ At("hosts")
    /\ \E o \in stream.buf : Take(o)
    /\ Return("ENODEV")
    /\ UNCHANGED <<call, todo, obj, val, driver, ports, count, open, rows>>

EndHosts ==
    /\ EndAt("hosts")
    /\ Return("count")
    /\ UNCHANGED <<call, todo, obj, val, driver, ports, count, stream, rows>>

\* get_adapter_details(): rport_cnt is stored by the entries that are no ports.
OpenPorts ==
    /\ At("openports")
    /\ \/ OpenAt(obj, "count") /\ UNCHANGED ports
       \/ ports' = 0 /\ pc' = "info" /\ UNCHANGED <<stream, open>>
    /\ count' = 0
    /\ UNCHANGED <<call, todo, obj, val, driver, rows, result>>

\* Mutant: the entries are counted whatever they are.
CountPortAny ==
    /\ At("count")
    /\ \E o \in stream.buf : Take(o)
    /\ count' = count + 1
    /\ ports' = count + 1
    /\ UNCHANGED <<call, pc, todo, obj, val, driver, open, rows, result>>

CountPort ==
    /\ At("count")
    /\ \E o \in stream.buf :
          /\ Take(o)
          /\ IF Kind[o] = "rport"
               THEN count' = count + 1 /\ UNCHANGED ports
               ELSE ports' = count /\ UNCHANGED count
    /\ UNCHANGED <<call, pc, todo, obj, val, driver, open, rows, result>>

\* Mutant: the stream is left open.
EndCountLeaves ==
    /\ At("count")
    /\ AtEnd(stream)
    /\ pc' = "info"
    /\ UNCHANGED <<call, todo, obj, val, driver, ports, count, stream, open, rows, result>>

EndCount ==
    /\ EndAt("count")
    /\ pc' = "info"
    /\ UNCHANGED <<call, todo, obj, val, driver, ports, count, stream, rows, result>>

\* list_rport_adapters(): a record for every entry, used for ports only, and
\* used without looking whether there is one.
OpenList ==
    /\ At("openlist")
    /\ \/ OpenAt(obj, "rports") /\ UNCHANGED <<ports, result>>
       \/ ports' = 0 /\ Return("0") /\ UNCHANGED <<stream, open>>
    /\ UNCHANGED <<call, todo, obj, val, driver, count, rows>>

\* Mutant: the ports are expected to be next to each other.
TakePortBreaks ==
    /\ At("rports")
    /\ \E o \in stream.buf :
          /\ Take(o)
          /\ IF Kind[o] = "rport"
               THEN obj' = o /\ todo' = RportFiles /\ pc' = "printport"
                    /\ UNCHANGED <<open, result>>
               ELSE Return("0") /\ open' = open - 1 /\ UNCHANGED <<obj, todo>>
    /\ UNCHANGED <<call, val, driver, ports, count, rows>>

\* Mutant: the loop goes on without readdir().
TakePortStuck ==
    /\ At("rports")
    /\ \E o \in stream.buf :
          /\ IsFirst(o, stream.buf)
          /\ IF Kind[o] = "rport"
               THEN stream' = Taken(stream, o) /\ obj' = o /\ todo' = RportFiles
                    /\ pc' = "printport"
               ELSE UNCHANGED <<stream, obj, todo, pc>>
    /\ UNCHANGED <<call, val, driver, ports, count, open, rows, result>>

TakePort ==
    /\ At("rports")
    /\ \E o \in stream.buf :
          /\ Take(o)
          /\ IF Kind[o] = "rport"
               THEN obj' = o /\ todo' = RportFiles /\ pc' = "printport"
               ELSE UNCHANGED <<obj, todo, pc>>
    /\ UNCHANGED <<call, val, driver, ports, count, open, rows, result>>

PortAllocFails ==
    /\ At("rports")
    /\ \E o \in stream.buf : Take(o) /\ Kind[o] = "rport"
    /\ Die("memory")
    /\ UNCHANGED <<call, todo, obj, val, driver, ports, count, open, rows>>

EndList ==
    /\ EndAt("rports")
    /\ Return("0")
    /\ UNCHANGED <<call, todo, obj, val, driver, ports, count, stream, rows>>

-----------------------------------------------------------------------------
(* Output. *)

Row == [obj |-> obj, val |-> val, driver |-> driver, ports |-> ports]

\* print_list_fc_dev(), print_fc_info() or print_fc_port_stats().
PrintHost ==
    /\ At("print")
    /\ rows' = Append(rows, Row)
    /\ CASE call.op = "list"  -> pc' = "hosts" /\ count' = count + 1 /\ UNCHANGED result
         [] call.op = "show" /\ ports > 0 -> pc' = "openlist" /\ UNCHANGED <<count, result>>
         [] OTHER             -> Return("0") /\ UNCHANGED count
    /\ UNCHANGED <<call, todo, obj, val, driver, ports, stream, open>>

\* print_fc_rport_info()
PrintPort ==
    /\ At("printport")
    /\ rows' = Append(rows, Row)
    /\ pc' = "rports"
    /\ UNCHANGED <<call, todo, obj, val, driver, ports, count, stream, open, result>>

-----------------------------------------------------------------------------
Process ==
    /\ \/ ReadFile \/ ReadCrashes \/ GetDriver \/ GetInfo \/ NoDriver \/ NoMemory
       \/ ReadAhead \/ OpenHosts \/ TakeHost \/ AllocFails \/ EndHosts
       \/ OpenPorts \/ CountPort \/ EndCount
       \/ OpenList \/ TakePort \/ PortAllocFails \/ EndList
       \/ PrintHost \/ PrintPort
    /\ UNCHANGED <<kernel, loaded>>

Kernel == Hotplug /\ UNCHANGED <<loaded, proc>>

Finished == pc \in Ended /\ UNCHANGED vars

Next == Process \/ Kernel \/ Finished

Spec == Init /\ [][Next]_vars

\* The program keeps running; hosts and ports need not come or go.
FairSpec == Spec /\ WF_vars(Process)

-----------------------------------------------------------------------------
(* Properties. *)

\* The files that a row is made of, in the order of the calls.
Script(row) ==
    LET info == IF row.driver = None THEN <<>>
                                     ELSE DriverFiles[row.driver] \o LinkFiles
    IN  CASE Kind[row.obj] = "rport" -> RportFiles
          [] call.op = "stats"       -> StatFiles
          [] call.op = "list"        -> Symbolic \o info
          [] OTHER                   -> Symbolic \o DetailFiles \o info

\* Those that are come to, for an object that has them or not.
Reached(table, o) ==
    {table[i].file : i \in
        {j \in DOMAIN table : \A h \in 1 .. j :
            table[h].how = "gate" => table[h].file \in Supported[o]}}

\* The row of a host or port that stays shows this very object: every file it
\* has, up to a link_state it has not, and nothing where it has none, whatever
\* was in the record of the one before.
RowsTrue ==
    \A i \in DOMAIN rows :
        LET row == rows[i]
        IN  Steady(row.obj) =>
                \A f \in FilesIn(Script(row)) :
                    row.val[f] = IF f \in Reached(Script(row), row.obj) \cap Supported[row.obj]
                                   THEN gen[row.obj] ELSE Missing

\* The program dies of a missing file only if the object came or went, is not
\* there, or has no such file; and of a missing driver if none is loaded.
CrashNeedsMissingFile ==
    pc = "crashed" =>
        /\ result \in {"format", "number"} /\ Steady(obj) =>
               Head(todo).file \notin Supported[obj]
        /\ result = "driver" => loaded = <<>>

PortsOf(host) == {o \in Children(host) \cap present : Kind[o] = "rport"}

\* Nothing has happened to the host and what is in its directory.
Quiet(host) == Steady(host) /\ Children(host) \cap touched = {}

\* An entry of another kind comes after all ports in the directory.
OtherLast(host) ==
    \E o \in Children(host) \cap present :
        Kind[o] # "rport" /\ \A p \in PortsOf(host) : Hash[p] < Hash[o]

\* The ports printed below the details of the host.
Listed == {rows[i].obj : i \in DOMAIN rows \ {1}}

\* `show fc_port' of a host where nothing happens.  The number of ports is never
\* too large, and the ports are printed all or not at all, each once.  If another
\* entry ends the directory, and it could be opened, then the number is right;
\* and all ports are printed if it could be opened once more.
PortsFitList ==
    pc = "done" /\ call.op = "show" /\ Quiet(call.host) =>
        /\ rows[1].ports <= Cardinality(PortsOf(call.host))
        /\ Listed \in {{}, PortsOf(call.host)} /\ Len(rows) = 1 + Cardinality(Listed)
        /\ OtherLast(call.host) /\ stream.dir = call.host =>
               /\ rows[1].ports = Cardinality(PortsOf(call.host))
               /\ ports = rows[1].ports => Listed = PortsOf(call.host)

\* The program ends, whatever the hosts and ports do meanwhile.
Ends == <>(pc \in Ended)

\* The list of hosts, or of the ports of a host, as an enumeration.  The second
\* list is begun only if the number of ports is not 0; what becomes of a host
\* whose ports end the directory is told by PortsFitList and RPortsFound.
Status ==
    CASE call.op = "list" /\ pc \notin Ended \cup {"open"}     -> "open"
      [] call.op = "show" /\ pc \in {"rports", "printport"}    -> "open"
      [] pc = "done" /\ result = "count"                       -> "complete"
      [] pc = "done" /\ call.op = "show" /\ ports > 0          -> "complete"
      [] OTHER                                                 -> "idle"

SteadyThings ==
    IF Status = "idle" THEN {}
    ELSE {o \in Object : /\ Kind[o] = IF call.op = "list" THEN "host" ELSE "rport"
                         /\ Parent[o] = call.host
                         /\ Steady(o)}

Shown ==
    CASE call.op = "list"  -> [i \in DOMAIN rows |-> rows[i].obj]
      [] call.op = "show"  -> [i \in 1 .. Len(rows) - 1 |-> rows[i + 1].obj]
      [] call.op = "stats" -> <<>>

Enum == INSTANCE Enumeration WITH
    Thing <- Object, status <- Status, steady <- SteadyThings, shown <- Shown

\* Every host in a list, and every port below the details of its host, is shown
\* once, and none that stays is left out, through every step of the program and
\* the kernel.
EnumeratesHostsAndPorts == Enum!Spec

-----------------------------------------------------------------------------
(* What the repository says and the code does not do. *)

\* The number printed as `R-Ports Found' is how many ports the host
\* has, and all of them are printed, if nothing happens and the directory can be
\* opened both times.
RPortsFound ==
    pc = "done" /\ call.op = "show" /\ Quiet(call.host)
            /\ stream.dir = call.host /\ ports = rows[1].ports =>
        ports = Cardinality(PortsOf(call.host)) /\ Listed = PortsOf(call.host)

\* The driver printed after `Driver Attached' is the one the host belongs to.
AttachedDriverTrue ==
    \A i \in DOMAIN rows :
        call.op = "show" /\ Steady(rows[i].obj) /\ Kind[rows[i].obj] = "host" =>
            rows[i].driver = DriverOf[rows[i].obj]

=============================================================================
