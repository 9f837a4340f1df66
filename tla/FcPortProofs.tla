---------------------------- MODULE FcPortProofs ----------------------------
(***************************************************************************)
(* Theorems about FcPort, for any hosts and ports, tables of files, loaded *)
(* drivers and bounds.                                                     *)
(*                                                                         *)
(* The argument for RowsTrue: a host is described by the files of several  *)
(* tables, one after the other (Base is what has been begun of them), and  *)
(* at every moment the record holds what a prefix of them, the part that   *)
(* has been read, says of the host (Progress).                             *)
(***************************************************************************)
EXTENDS FcPort, TLAPS, SequenceTheorems

AboutHost == {"driver", "openports", "count", "info", "print"}

\* Which command comes where, what it is about, and how many streams it has.
ControlOK ==
    /\ pc \in {"open", "hosts"} => call.op = "list"
    /\ pc \in {"openports", "count", "openlist", "rports", "printport"} => call.op = "show"
    /\ pc \in {"driver", "info"} => call.op # "stats"
    /\ pc \notin {"open", "hosts"} \cup Ended => obj \in Object
    /\ pc \in AboutHost \cup {"openlist"} => Kind[obj] = "host"
    /\ pc = "printport" => Kind[obj] = "rport"
    /\ pc \in {"openports", "count", "info"} /\ driver = None => loaded = <<>>
    /\ pc = "print" /\ call.op # "stats" => driver \in Drivers
    /\ pc \notin Ended =>
           open = IF \/ call.op = "list" /\ pc \in {"hosts", "driver", "info", "print"}
                     \/ pc \in {"count", "rports", "printport"}
                    THEN 1 ELSE 0
    /\ call.op = "list" => stream.buf \subseteq Children(Root) /\ stream.dir = Root

TypeInv == TypeOK /\ ControlOK

-----------------------------------------------------------------------------
(* The type invariant. *)

LEMMA SymbolicType ==
    /\ Symbolic \in Table
    /\ Len(Symbolic) = 1
    /\ Symbolic[1].how = "line"
<1>1. [file |-> "symbolic_name", how |-> "line"] \in Files
  BY FilesAssumption DEF Files
<1> QED BY <1>1 DEF Symbolic, Table

LEMMA TablesType ==
    /\ DetailFiles \in Table /\ LinkFiles \in Table
    /\ StatFiles \in Table /\ RportFiles \in Table
    /\ \A d \in Drivers : DriverFiles[d] \in Table
    /\ <<>> \in Table
    /\ \A s, t \in Table : s \o t \in Table
<1>1. /\ DetailFiles \in Table /\ LinkFiles \in Table
      /\ StatFiles \in Table /\ RportFiles \in Table
      /\ \A d \in Drivers : DriverFiles[d] \in Table
  BY FilesAssumption
<1>2. <<>> \in Table
  BY EmptySeq DEF Table
<1>3. \A s, t \in Table : s \o t \in Table
  BY ConcatProperties DEF Table
<1> QED BY <1>1, <1>2, <1>3

LEMMA TableElements ==
    ASSUME NEW t \in Table
    PROVE  /\ Len(t) \in Nat
           /\ DOMAIN t = 1..Len(t)
           /\ \A i \in 1..Len(t) : t[i] \in Files /\ t[i].file \in Attributes
           /\ t # <<>> => /\ Len(t) > 0 /\ Head(t) = t[1]
                          /\ Tail(t) \in Table
                          /\ Len(Tail(t)) = Len(t) - 1
                          /\ \A i \in 1..(Len(t) - 1) : Tail(t)[i] = t[i + 1]
           /\ Len(t) = 0 => t = <<>>
<1>1. t \in Seq(Files)
  BY DEF Table
<1>2. Len(t) \in Nat /\ DOMAIN t = 1..Len(t)
  BY <1>1, LenProperties
<1>3. \A i \in 1..Len(t) : t[i] \in Files /\ t[i].file \in Attributes
  <2>1. \A e \in Files : e.file \in Attributes
    BY DEF Files
  <2>2. \A i \in 1..Len(t) : t[i] \in Files
    BY <1>1, <1>2, ElementOfSeq
  <2> QED BY <2>1, <2>2
<1>4. t # <<>> => /\ Len(t) > 0 /\ Head(t) = t[1]
                  /\ Tail(t) \in Table
                  /\ Len(Tail(t)) = Len(t) - 1
                  /\ \A i \in 1..(Len(t) - 1) : Tail(t)[i] = t[i + 1]
  BY <1>1, <1>2, HeadTailProperties, EmptySeq DEF Table
<1>5. Len(t) = 0 => t = <<>>
  BY <1>1, EmptySeq
<1> QED BY <1>2, <1>3, <1>4, <1>5

LEMMA ConcatElements ==
    ASSUME NEW s \in Table, NEW t \in Table
    PROVE  /\ s \o t \in Table
           /\ Len(s \o t) = Len(s) + Len(t)
           /\ \A i \in 1..Len(s) : (s \o t)[i] = s[i]
           /\ \A i \in 1..Len(t) : (s \o t)[Len(s) + i] = t[i]
<1>1. s \in Seq(Files) /\ t \in Seq(Files)
  BY DEF Table
<1>2. Len(s) \in Nat /\ Len(t) \in Nat
  BY <1>1, LenProperties
<1>3. /\ s \o t \in Seq(Files)
      /\ Len(s \o t) = Len(s) + Len(t)
      /\ \A i \in 1..(Len(s) + Len(t)) :
             (s \o t)[i] = IF i <= Len(s) THEN s[i] ELSE t[i - Len(s)]
  BY <1>1, ConcatProperties
<1> QED BY <1>2, <1>3 DEF Table

LEMMA EmptyType == Empty \in Values
BY DEF Empty, Values, Missing

LEMMA OpenedType ==
    ASSUME KernelTypeOK, NEW dir \in Object \cup {Root}
    PROVE  Opened(dir) \in Streams
BY DEF KernelTypeOK, Opened, Streams, GenOf

LEMMA FetchedType ==
    ASSUME NEW s \in Streams, NEW o \in Object
    PROVE  /\ Fetched(s, o) \in Streams
           /\ Fetched(s, o).dir = s.dir
           /\ Fetched(s, o).buf = s.buf \cup {o}
BY HashAssumption DEF Streams, Fetched

LEMMA TakenType ==
    ASSUME NEW s \in Streams, NEW o
    PROVE  /\ Taken(s, o) \in Streams
           /\ Taken(s, o).dir = s.dir
           /\ Taken(s, o).buf \subseteq s.buf
BY DEF Streams, Taken

LEMMA CallType ==
    ASSUME call \in Calls
    PROVE  /\ call.op \in {"list", "show", "stats"}
           /\ call.host \in Object \cup {Root}
           /\ call.op # "list" => call.host \in Object /\ Kind[call.host] = "host"
BY CallsAssumption

LEMMA InitType == Init => TypeInv
<1> SUFFICES ASSUME Init PROVE TypeInv
  OBVIOUS
<1>1. KernelTypeOK
  BY DEF Init, KernelInit, KernelTypeOK
<1>2. todo \in Table
  BY SymbolicType, TablesType, CallType DEF Init
<1>3. stream \in Streams /\ stream.dir = Root /\ stream.buf = {}
  BY <1>1, OpenedType DEF Init, Opened
<1>4. rows \in Seq(Rows)
  BY EmptySeq DEF Init
<1>5. call \in Calls /\ obj \in Object \cup {Root} /\ call.op \in {"list", "show", "stats"}
      /\ (call.op # "list" => obj \in Object /\ Kind[obj] = "host")
  BY CallType DEF Init
<1>6. TypeOK
  BY <1>1, <1>2, <1>3, <1>4, <1>5, EmptyType DEF Init, TypeOK, None
<1>7. ControlOK
  BY <1>3, <1>5 DEF Init, ControlOK, AboutHost, Ended, None
<1> QED BY <1>6, <1>7 DEF TypeInv


LEMMA KernelTypeStep ==
    ASSUME KernelTypeOK, Hotplug
    PROVE  KernelTypeOK'
BY TreeAssumption
   DEF KernelTypeOK, Hotplug, Appear, Vanish, Others, Children

LEMMA ProcessTypeStep ==
    ASSUME TypeInv, Process
    PROVE  TypeInv'
<1> USE DEF TypeInv, TypeOK, ControlOK, At, AboutHost, Ended, None
<1>0. KernelTypeOK' /\ UNCHANGED <<kernel, loaded>>
  BY DEF Process, kernel, KernelTypeOK
<1>1. CASE ReadFile
  <2>1. todo \in Table /\ todo # <<>>
    BY <1>1 DEF ReadFile, Reading
  <2>2. Tail(todo) \in Table /\ Head(todo).file \in Attributes
    BY <2>1, TableElements
  <2>3. todo' \in Table
    BY <1>1, <2>2, TablesType DEF ReadFile
  <2>4. val' \in Values
    BY <1>1, <2>2 DEF ReadFile, Readable, Values, Missing, KernelTypeOK
  <2> QED BY <1>0, <1>1, <2>3, <2>4 DEF ReadFile, Reading
<1>2. CASE ReadCrashes \/ NoDriver \/ NoMemory
  BY <1>0, <1>2 DEF ReadCrashes, NoDriver, NoMemory, Die
<1>3. CASE GetDriver
  <2>1. driver' \in Drivers \cup {None} /\ (driver' = None => loaded = <<>>)
    <3>1. loaded \in Seq(Drivers)
      BY DriverAssumption
    <3>2. loaded # <<>> => Head(loaded) \in Drivers
      BY <3>1, HeadTailProperties
    <3> QED BY <1>3, <3>2 DEF GetDriver, Drivers
  <2>2. todo' \in Table
    BY <1>3, TablesType DEF GetDriver
  <2> QED BY <1>0, <1>3, <2>1, <2>2, CallType DEF GetDriver
<1>4. CASE GetInfo
  <2>1. todo' \in Table
    BY <1>4, TablesType DEF GetInfo
  <2> QED BY <1>0, <1>4, <2>1 DEF GetInfo
<1>5. CASE ReadAhead
  <2>1. stream' \in Streams /\ stream'.dir = stream.dir
        /\ stream'.buf \subseteq stream.buf \cup Children(stream.dir)
    BY <1>5, FetchedType DEF ReadAhead, Ahead, Children
  <2> QED BY <1>0, <1>5, <2>1 DEF ReadAhead
<1>6. CASE OpenHosts
  BY <1>0, <1>6, OpenedType DEF OpenHosts, OpenAt, Opened, Return
<1>7. CASE TakeHost
  <2>1. stream' \in Streams /\ stream'.dir = stream.dir /\ stream'.buf \subseteq stream.buf
    BY <1>7, TakenType DEF TakeHost, Take
  <2>2. obj' \in Object /\ Kind[obj'] = "host"
    BY <1>7, TreeAssumption DEF TakeHost, Children
  <2> QED BY <1>0, <1>7, <2>1, <2>2, SymbolicType, EmptyType DEF TakeHost
<1>8. CASE AllocFails
  <2>1. stream' \in Streams /\ stream'.dir = stream.dir /\ stream'.buf \subseteq stream.buf
    BY <1>8, TakenType DEF AllocFails, Take
  <2> QED BY <1>0, <1>8, <2>1 DEF AllocFails, Return
<1>9. CASE EndHosts \/ EndCount \/ EndList
  BY <1>0, <1>9 DEF EndHosts, EndCount, EndList, EndAt, Return
<1>10. CASE OpenPorts \/ OpenList
  BY <1>0, <1>10, OpenedType DEF OpenPorts, OpenList, OpenAt, Return
<1>11. CASE CountPort
  <2>1. stream' \in Streams
    BY <1>11, TakenType DEF CountPort, Take
  <2> QED BY <1>0, <1>11, <2>1 DEF CountPort
<1>12. CASE TakePort \/ PortAllocFails
  <2>1. stream' \in Streams /\ \A o \in stream.buf : o \in Object
    BY <1>12, TakenType DEF TakePort, PortAllocFails, Take, Streams
  <2> QED BY <1>0, <1>12, <2>1, TablesType DEF TakePort, PortAllocFails, Die
<1>13. CASE PrintHost \/ PrintPort
  <2>1. obj \in Object /\ rows' = Append(rows, Row)
    BY <1>13 DEF PrintHost, PrintPort
  <2>2. Row \in Rows
    BY <2>1 DEF Row, Rows
  <2>3. rows' \in Seq(Rows)
    BY <2>1, <2>2, AppendProperties
  <2>4. call.op \in {"list", "show", "stats"}
    BY CallType
  <2> QED BY <1>0, <1>13, <2>3, <2>4 DEF PrintHost, PrintPort, Return
<1> QED
  BY <1>1, <1>2, <1>3, <1>4, <1>5, <1>6, <1>7, <1>8, <1>9, <1>10, <1>11, <1>12, <1>13
     DEF Process

LEMMA TypeStep ==
    ASSUME TypeInv, [Next]_vars
    PROVE  TypeInv'
<1>1. CASE Process
  BY <1>1, ProcessTypeStep
<1>2. CASE Kernel
  BY <1>2, KernelTypeStep DEF Kernel, proc, TypeInv, TypeOK, ControlOK
<1>3. CASE UNCHANGED vars
  BY <1>3 DEF vars, proc, kernel, KernelTypeOK, TypeInv, TypeOK, ControlOK
<1> QED BY <1>1, <1>2, <1>3 DEF Next, Finished

THEOREM TypeInvariant == Spec => []TypeInv
BY InitType, TypeStep, PTL DEF Spec

\* Every variable of the program keeps its type, for whatever hosts, ports and
\* tables of files.
THEOREM TypeCorrect == Spec => []TypeOK
BY TypeInvariant, PTL DEF TypeInv


-----------------------------------------------------------------------------
(* The record: what has been read so far. *)

\* v holds, of the object o, the first n files of a table and nothing else ...
Holds(v, table, n, o) ==
    \A f \in Attributes :
        v[f] = IF f \in Supported[o] /\ \E i \in 1..n : table[i].file = f
                 THEN gen[o] ELSE Missing

\* ... which were come to.
GatesOpen(table, n, o) ==
    \A i \in 1..n : table[i].how = "gate" => table[i].file \in Supported[o]

\* The files still to read are the rest of the table, or there is a closed gate.
Rest(table, n) ==
    \/ /\ Len(todo) = Len(table) - n
       /\ \A i \in 1..Len(todo) : todo[i] = table[n + i]
    \/ /\ todo = <<>> /\ n < Len(table)
       /\ table[n + 1].how = "gate" /\ table[n + 1].file \notin Supported[obj]

Progress(table) ==
    \E n \in 0..Len(table) :
        GatesOpen(table, n, obj) /\ Holds(val, table, n, obj) /\ Rest(table, n)

Info == DriverFiles[driver] \o LinkFiles

\* What has been begun of the tables.
Base ==
    CASE call.op = "stats"                        -> StatFiles
      [] call.op # "stats" /\ pc = "driver"        -> Symbolic
      [] call.op = "list" /\ pc = "info"           -> Symbolic
      [] call.op = "list" /\ pc = "print"          -> Symbolic \o Info
      [] call.op = "show" /\ pc = "print"          -> (Symbolic \o DetailFiles) \o Info
      [] OTHER                                    -> Symbolic \o DetailFiles

\* The same of a port, whose only table begins and ends with it, and has no gates.
PortProgress ==
    \E n \in 0..Len(RportFiles) :
        /\ \A i \in 1..n :
               val[RportFiles[i].file] =
                   IF RportFiles[i].file \in Supported[obj] THEN gen[obj] ELSE Missing
        /\ Len(todo) = Len(RportFiles) - n
        /\ \A i \in 1..Len(todo) : todo[i] = RportFiles[n + i]

RecordInv ==
    Steady(obj) => /\ pc \in AboutHost => Progress(Base)
                   /\ pc = "printport" => PortProgress

Inv == TypeInv /\ RecordInv /\ RowsTrue /\ CrashNeedsMissingFile

\* What stays has not been touched, and bears its generation.
LEMMA SteadyKept ==
    ASSUME TypeInv, Kernel
    PROVE  \A o \in Object : Steady(o)' => Steady(o) /\ gen'[o] = gen[o]
BY DEF Kernel, Hotplug, Appear, Vanish, Steady, TypeInv, TypeOK, KernelTypeOK

\* A table that has been begun.
LEMMA StartTable ==
    ASSUME NEW t \in Table, val = Empty, todo = t
    PROVE  Progress(t)
<1>1. Len(t) \in Nat
  BY TableElements
<1>2. GatesOpen(t, 0, obj) /\ Holds(val, t, 0, obj)
  BY DEF GatesOpen, Holds, Empty
<1>3. Rest(t, 0)
  BY <1>1 DEF Rest
<1> QED BY <1>1, <1>2, <1>3 DEF Progress

LEMMA StartTableNext ==
    ASSUME NEW t \in Table, val' = Empty, todo' = t
    PROVE  Progress(t)'
<1>1. Len(t) \in Nat
  BY TableElements
<1>2. GatesOpen(t, 0, obj)' /\ Holds(val, t, 0, obj)'
  BY DEF GatesOpen, Holds, Empty
<1>3. Rest(t, 0)'
  BY <1>1 DEF Rest
<1> QED BY <1>1, <1>2, <1>3 DEF Progress

\* When a table without gates has been read, another may follow it.
LEMMA NextTable ==
    ASSUME NEW s \in Table, NEW t \in Table, todo = <<>>, Progress(s),
           \A i \in 1..Len(s) : s[i].how # "gate",
           UNCHANGED <<gen, obj, val>>, todo' = t
    PROVE  Progress(s \o t)'
<1>1. PICK n \in 0..Len(s) : GatesOpen(s, n, obj) /\ Holds(val, s, n, obj) /\ Rest(s, n)
  BY DEF Progress
<1>2. Len(s) \in Nat /\ Len(t) \in Nat /\ Len(todo) = 0
  BY TableElements, EmptySeq
<1>3. n = Len(s)
  BY <1>1, <1>2 DEF Rest
<1> DEFINE u == s \o t
<1>4. /\ Len(u) = Len(s) + Len(t)
      /\ \A i \in 1..Len(s) : u[i] = s[i]
      /\ \A i \in 1..Len(t) : u[Len(s) + i] = t[i]
  BY ConcatElements
<1> HIDE DEF u
<1>5. GatesOpen(u, n, obj)' /\ Holds(val, u, n, obj)'
  BY <1>1, <1>3, <1>4 DEF GatesOpen, Holds
<1>6. Rest(u, n)'
  BY <1>2, <1>3, <1>4 DEF Rest
<1>7. n \in 0..Len(u)
  BY <1>2, <1>3, <1>4
<1>8. Progress(u)'
  BY <1>5, <1>6, <1>7 DEF Progress
<1> QED BY <1>8 DEF u

\* One file more.
LEMMA ReadNext ==
    ASSUME TypeInv, ReadFile, obj \in Object, Steady(obj), gen' = gen,
           NEW t \in Table, Progress(t)
    PROVE  Progress(t)'
<1>1. PICK n \in 0..Len(t) : GatesOpen(t, n, obj) /\ Holds(val, t, n, obj) /\ Rest(t, n)
  BY DEF Progress
<1>2. /\ Len(todo) \in Nat \ {0} /\ Head(todo) = todo[1]
      /\ Len(Tail(todo)) = Len(todo) - 1
      /\ \A i \in 1..(Len(todo) - 1) : Tail(todo)[i] = todo[i + 1]
      /\ todo # <<>> /\ Len(t) \in Nat /\ Head(todo).file \in Attributes
  BY TableElements DEF ReadFile, Reading, TypeInv, TypeOK
<1>3. /\ Len(todo) = Len(t) - n
      /\ \A i \in 1..Len(todo) : todo[i] = t[n + i]
  BY <1>1, <1>2 DEF Rest
<1>4. Head(todo) = t[n + 1] /\ n + 1 \in 1..Len(t)
  BY <1>2, <1>3
<1>5. obj' = obj /\ (Readable(Head(todo).file) <=> Head(todo).file \in Supported[obj])
  BY DEF ReadFile, Readable, Steady
<1>6. val \in Values
  BY DEF TypeInv, TypeOK
<1> DEFINE f == Head(todo).file
<1>7. CASE todo' = Tail(todo)
           /\ val' = [val EXCEPT ![f] = IF f \in Supported[obj] THEN gen[obj] ELSE Missing]
           /\ (t[n + 1].how = "gate" => f \in Supported[obj])
  <2>1. GatesOpen(t, n + 1, obj)'
    BY <1>1, <1>4, <1>5, <1>7 DEF GatesOpen, ReadFile
  <2>2. Holds(val, t, n + 1, obj)'
    <3> SUFFICES ASSUME NEW g \in Attributes
                 PROVE  val'[g] = IF g \in Supported[obj] /\ \E i \in 1..(n + 1) : t[i].file = g
                                    THEN gen[obj] ELSE Missing
      BY DEF Holds, ReadFile
    <3>1. CASE g = f
      <4>1. val'[g] = IF g \in Supported[obj] THEN gen[obj] ELSE Missing
        BY <1>2, <1>6, <1>7, <3>1 DEF Values
      <4>2. t[n + 1].file = g /\ n + 1 \in 1..(n + 1)
        BY <1>4, <3>1
      <4> QED BY <4>1, <4>2
    <3>2. CASE g # f
      <4>1. val'[g] = val[g]
        BY <1>2, <1>6, <1>7, <3>2 DEF Values
      <4>2. (\E i \in 1..(n + 1) : t[i].file = g) <=> (\E i \in 1..n : t[i].file = g)
        BY <1>4, <3>2
      <4> QED BY <1>1, <4>1, <4>2 DEF Holds
    <3> QED BY <3>1, <3>2
  <2>3. Rest(t, n + 1)'
    <3>1. todo' = Tail(todo)
      BY <1>7
    <3>2. /\ Len(todo') = Len(t) - (n + 1)
          /\ \A i \in 1..Len(todo') : todo'[i] = t[(n + 1) + i]
      BY <1>2, <1>3, <1>4, <3>1
    <3> QED BY <3>2 DEF Rest
  <2> QED BY <1>4, <2>1, <2>2, <2>3 DEF Progress
<1>8. CASE todo' = <<>> /\ val' = val /\ t[n + 1].how = "gate" /\ f \notin Supported[obj]
  <2>1. Rest(t, n)'
    BY <1>4, <1>5, <1>8 DEF Rest, ReadFile
  <2>2. GatesOpen(t, n, obj)' /\ Holds(val, t, n, obj)'
    BY <1>1, <1>8 DEF GatesOpen, Holds, ReadFile
  <2> QED BY <2>1, <2>2 DEF Progress
<1>9. CASE todo' = Tail(todo) /\ val' = val /\ t[n + 1].how = "line" /\ f \notin Supported[obj]
  <2>1. GatesOpen(t, n + 1, obj)'
    BY <1>1, <1>4, <1>9 DEF GatesOpen, ReadFile
  <2>2. Holds(val, t, n + 1, obj)'
    BY <1>1, <1>4, <1>9 DEF Holds, ReadFile
  <2>3. Rest(t, n + 1)'
    <3>1. todo' = Tail(todo)
      BY <1>9
    <3>2. /\ Len(todo') = Len(t) - (n + 1)
          /\ \A i \in 1..Len(todo') : todo'[i] = t[(n + 1) + i]
      BY <1>2, <1>3, <1>4, <3>1
    <3> QED BY <3>2 DEF Rest
  <2> QED BY <1>4, <2>1, <2>2, <2>3 DEF Progress
<1> QED
  BY <1>2, <1>4, <1>5, <1>7, <1>8, <1>9, TableElements DEF ReadFile, Files, TypeInv, TypeOK


\* One file more of a port.
LEMMA ReadNextOfPort ==
    ASSUME TypeInv, ReadFile, obj \in Object, Steady(obj), gen' = gen, PortProgress
    PROVE  PortProgress'
<1> DEFINE t == RportFiles
<1>0. t \in Table /\ \A i \in 1..Len(t) : t[i].how = "format"
  BY TablesType, TableElements, FilesAssumption
<1>1. PICK n \in 0..Len(t) :
        /\ \A i \in 1..n :
               val[t[i].file] = IF t[i].file \in Supported[obj] THEN gen[obj] ELSE Missing
        /\ Len(todo) = Len(t) - n
        /\ \A i \in 1..Len(todo) : todo[i] = t[n + i]
  BY DEF PortProgress
<1>2. /\ Len(todo) \in Nat \ {0} /\ Head(todo) = todo[1]
      /\ Len(Tail(todo)) = Len(todo) - 1
      /\ \A i \in 1..(Len(todo) - 1) : Tail(todo)[i] = todo[i + 1]
      /\ todo # <<>> /\ Head(todo).file \in Attributes
  BY TableElements DEF ReadFile, Reading, TypeInv, TypeOK
<1>3. Len(t) \in Nat /\ \A i \in 1..Len(t) : t[i].file \in Attributes
  BY <1>0, TableElements
<1> HIDE DEF t
<1>4. Head(todo) = t[n + 1] /\ n + 1 \in 1..Len(t)
  BY <1>1, <1>2, <1>3
<1>5. obj' = obj /\ (Readable(Head(todo).file) <=> Head(todo).file \in Supported[obj])
  BY DEF ReadFile, Readable, Steady
<1>6. val \in Values
  BY DEF TypeInv, TypeOK
<1> DEFINE f == Head(todo).file
           true == IF f \in Supported[obj] THEN gen[obj] ELSE Missing
<1>7. todo' = Tail(todo) /\ val' = [val EXCEPT ![f] = true]
  BY <1>0, <1>4, <1>5 DEF ReadFile
<1>8. \A i \in 1..(n + 1) :
          val'[t[i].file] = IF t[i].file \in Supported[obj] THEN gen[obj] ELSE Missing
  <2> SUFFICES ASSUME NEW i \in 1..(n + 1)
               PROVE  val'[t[i].file] =
                          IF t[i].file \in Supported[obj] THEN gen[obj] ELSE Missing
    OBVIOUS
  <2>0. t[i].file \in Attributes
    BY <1>3, <1>4
  <2>1. CASE t[i].file = f
    BY <1>6, <1>7, <2>0, <2>1 DEF Values
  <2>2. CASE t[i].file # f
    <3>1. i \in 1..n
      BY <1>4, <2>2
    <3>2. val'[t[i].file] = val[t[i].file]
      BY <1>6, <1>7, <2>0, <2>2 DEF Values
    <3> QED BY <1>1, <3>1, <3>2
  <2> QED BY <2>1, <2>2
<1>9. /\ Len(todo') = Len(t) - (n + 1)
      /\ \A i \in 1..Len(todo') : todo'[i] = t[(n + 1) + i]
  BY <1>1, <1>2, <1>4, <1>7
<1>10. n + 1 \in 0..Len(t)
  BY <1>3, <1>4
<1> DEFINE upto(m) ==
        /\ \A i \in 1..m :
               val'[t[i].file] = IF t[i].file \in Supported[obj] THEN gen[obj] ELSE Missing
        /\ Len(todo') = Len(t) - m
        /\ \A i \in 1..Len(todo') : todo'[i] = t[m + i]
<1>11. upto(n + 1)
  BY <1>8, <1>9
<1>12. PortProgress' <=> \E m \in 0..Len(t) : upto(m)
  BY <1>5 DEF PortProgress, t
<1> HIDE DEF upto
<1> QED BY <1>10, <1>11, <1>12

LEMMA DetailTable ==
    /\ Symbolic \o DetailFiles \in Table
    /\ \A i \in 1..Len(Symbolic) : Symbolic[i].how # "gate"
    /\ \A i \in 1..Len(Symbolic \o DetailFiles) : (Symbolic \o DetailFiles)[i].how # "gate"
<1>1. Symbolic \in Table /\ DetailFiles \in Table
  BY SymbolicType, TablesType
<1>2. \A i \in 1..Len(Symbolic) : Symbolic[i].how # "gate"
  BY SymbolicType
<1>3. \A i \in 1..Len(DetailFiles) : DetailFiles[i].how # "gate"
  BY <1>1, TableElements, FilesAssumption
<1> DEFINE u == Symbolic \o DetailFiles
           m == Len(Symbolic)
<1>4. /\ u \in Table
      /\ m \in Nat /\ Len(DetailFiles) \in Nat
      /\ Len(u) = m + Len(DetailFiles)
      /\ \A i \in 1..m : u[i] = Symbolic[i]
      /\ \A i \in 1..Len(DetailFiles) : u[m + i] = DetailFiles[i]
  BY <1>1, ConcatElements, TableElements
<1>5. ASSUME NEW i \in 1..Len(u) PROVE u[i].how # "gate"
  <2> HIDE DEF u
  <2>1. CASE i <= m
    BY <1>2, <1>4, <2>1
  <2>2. CASE i > m
    <3>1. i - m \in 1..Len(DetailFiles) /\ m + (i - m) = i
      BY <1>4, <2>2
    <3> QED BY <1>3, <1>4, <3>1
  <2> QED BY <1>4, <2>1, <2>2
<1> QED BY <1>2, <1>4, <1>5

LEMMA BaseType == TypeInv => Base \in Table
BY SymbolicType, TablesType, DetailTable
   DEF Base, Info, TypeInv, TypeOK, ControlOK

LEMMA KeptProgress ==
    ASSUME Base' = Base, UNCHANGED <<todo, obj, val>>, gen' = gen, Progress(Base)
    PROVE  Progress(Base)'
BY DEF Progress, GatesOpen, Holds, Rest

LEMMA KeptRecord ==
    ASSUME UNCHANGED <<call, pc, todo, obj, val, driver>>, gen'[obj] = gen[obj], RecordInv,
           Steady(obj)' => Steady(obj)
    PROVE  RecordInv'
<1>1. Base' = Base
  BY DEF Base, Info
<1>2. Progress(Base) => Progress(Base)'
  BY <1>1 DEF Progress, GatesOpen, Holds, Rest
<1>3. PortProgress => PortProgress'
  BY DEF PortProgress
<1> QED BY <1>2, <1>3 DEF RecordInv

LEMMA InitRecord == Init => RecordInv
<1> SUFFICES ASSUME Init PROVE RecordInv
  OBVIOUS
<1>1. CASE call.op = "list"
  BY <1>1 DEF Init, RecordInv, AboutHost
<1>2. CASE call.op # "list"
  <2>1. todo = Base /\ pc # "printport"
    BY <1>2, CallType DEF Init, Base
  <2>2. Progress(Base)
    BY <2>1, StartTable, BaseType, InitType DEF Init
  <2> QED BY <2>1, <2>2 DEF RecordInv
<1> QED BY <1>1, <1>2

LEMMA RecordStep ==
    ASSUME TypeInv, RecordInv, [Next]_vars
    PROVE  RecordInv'
<1>1. CASE UNCHANGED vars
  BY <1>1, KeptRecord DEF vars, proc, kernel, Steady
<1>2. CASE Kernel
  <2>1. CASE obj \in Object
    <3>1. UNCHANGED <<call, pc, todo, obj, val, driver>>
      BY <1>2 DEF Kernel, proc
    <3>2. Steady(obj)' => Steady(obj) /\ gen'[obj] = gen[obj]
      BY <1>2, <2>1, <3>1, SteadyKept DEF Steady
    <3>3. CASE Steady(obj)'
      BY <3>1, <3>2, <3>3, KeptRecord
    <3>4. CASE ~Steady(obj)'
      BY <3>4 DEF RecordInv
    <3> QED BY <3>3, <3>4
  <2>2. CASE obj \notin Object
    <3>1. present' \subseteq Object /\ obj' = obj
      BY <1>2, KernelTypeStep DEF Kernel, proc, TypeInv, TypeOK, KernelTypeOK
    <3> QED BY <2>2, <3>1 DEF RecordInv, Steady
  <2> QED BY <2>1, <2>2
<1>3. CASE Process
  <2>0. UNCHANGED kernel /\ gen' = gen /\ (Steady(obj') <=> Steady(obj)')
    BY <1>3 DEF Process, kernel, Steady
  <2> SUFFICES ASSUME Steady(obj)', pc' \in AboutHost \cup {"printport"}
               PROVE  /\ pc' \in AboutHost => Progress(Base)'
                      /\ pc' = "printport" => PortProgress'
    BY DEF RecordInv
  <2> USE DEF AboutHost
  <2>1. CASE ReadFile
    <3>1. obj' = obj /\ pc' = pc /\ Base' = Base /\ Steady(obj)
      BY <2>0, <2>1 DEF ReadFile, Base, Info, Steady, kernel
    <3>2. obj \in Object
      BY <3>1 DEF TypeInv, ControlOK, Ended, Steady, TypeOK, KernelTypeOK
    <3>3. CASE pc \in AboutHost
      <4>1. Progress(Base)
        BY <3>1, <3>3 DEF RecordInv
      <4> DEFINE t == Base
      <4>2. t \in Table /\ Progress(t)
        BY <4>1, BaseType
      <4>3. t' = t
        BY <3>1
      <4> HIDE DEF t
      <4>4. PICK b \in Table : b = t
        BY <4>2
      <4>5. Progress(b)'
        BY <2>0, <2>1, <3>1, <3>2, <4>2, <4>4, ReadNext
      <4>6. Progress(t)'
        BY <4>3, <4>4, <4>5 DEF Progress, GatesOpen, Holds, Rest
      <4> QED BY <3>1, <3>3, <4>6 DEF t
    <3>4. CASE pc = "printport"
      BY <2>0, <2>1, <3>1, <3>2, <3>4, ReadNextOfPort DEF RecordInv
    <3> QED BY <3>1, <3>3, <3>4
  <2>2. CASE GetDriver
    <3>1. Steady(obj) /\ Base = Symbolic /\ Progress(Symbolic) /\ call.op \in {"list", "show"}
      BY <2>0, <2>2, CallType
         DEF GetDriver, At, RecordInv, Base, TypeInv, TypeOK, ControlOK
    <3>2. CASE call.op = "show"
      <4>1. pc' = "openports" /\ Base' = Symbolic \o DetailFiles
        BY <2>2, <3>2 DEF GetDriver, Base
      <4>2. Progress(Symbolic \o DetailFiles)'
        BY <2>0, <2>2, <3>1, <3>2, SymbolicType, TablesType, DetailTable, NextTable
           DEF GetDriver, At
      <4>3. Progress(Base)'
        BY <4>1, <4>2 DEF Progress, GatesOpen, Holds, Rest
      <4> QED BY <4>1, <4>3
    <3>3. CASE call.op = "list"
      <4>1. pc' = "info" /\ Base' = Base
        BY <2>2, <3>1, <3>3 DEF GetDriver, Base
      <4> QED BY <2>0, <2>2, <3>1, <3>3, <4>1, KeptProgress DEF GetDriver
    <3> QED BY <3>1, <3>2, <3>3
  <2>3. CASE GetInfo
    <3>1. /\ Steady(obj) /\ Progress(Base) /\ call.op \in {"list", "show"}
          /\ Base \in Table /\ \A i \in 1..Len(Base) : Base[i].how # "gate"
      BY <2>0, <2>3, CallType, DetailTable, BaseType
         DEF GetInfo, At, RecordInv, Base, TypeInv, TypeOK, ControlOK
    <3>2. Info \in Table /\ Info' = Info
      BY <2>3, TablesType DEF GetInfo, Info, TypeInv, TypeOK
    <3>3. pc' = "print" /\ Base' = Base \o Info
      BY <2>3, <3>1, <3>2 DEF GetInfo, At, Base
    <3>4. PICK b \in Table : b = Base
      BY <3>1
    <3>5. PICK i \in Table : i = Info
      BY <3>2
    <3>6. Progress(b \o i)'
      BY <2>0, <2>3, <3>1, <3>4, <3>5, NextTable DEF GetInfo, At, Info
    <3>7. Base' = b \o i
      BY <3>3, <3>4, <3>5
    <3>8. Progress(Base)'
      BY <3>6, <3>7 DEF Progress, GatesOpen, Holds, Rest
    <3> QED BY <3>3, <3>8
  <2>4. CASE OpenPorts \/ CountPort \/ EndCount \/ (ReadAhead /\ pc = "count")
    <3>1. /\ Steady(obj) /\ call.op = "show" /\ pc \in {"openports", "count"}
          /\ pc' \in {"count", "info"} /\ UNCHANGED <<todo, obj, val>> /\ call' = call
      BY <2>0, <2>4
         DEF OpenPorts, OpenAt, CountPort, EndCount, EndAt, ReadAhead, At, TypeInv, ControlOK
    <3>2. Base' = Base
      BY <3>1 DEF Base
    <3> QED BY <2>0, <3>1, <3>2, KeptProgress DEF RecordInv
  <2>5. CASE TakeHost
    <3>1. pc' = "driver" /\ Base' = Symbolic
      BY <2>5, CallType DEF TakeHost, At, TypeInv, TypeOK, ControlOK, Base
    <3>2. Progress(Symbolic)'
      BY <2>5, SymbolicType, StartTableNext DEF TakeHost
    <3>3. Progress(Base)'
      BY <3>1, <3>2 DEF Progress, GatesOpen, Holds, Rest
    <3> QED BY <3>1, <3>3
  <2>6. CASE TakePort
    <3>1. pc' = "printport" /\ todo' = RportFiles
      BY <2>6 DEF TakePort, At
    <3>2. Len(RportFiles) \in Nat
      BY TablesType, TableElements
    <3>3. PortProgress'
      BY <3>1, <3>2 DEF PortProgress
    <3> QED BY <3>1, <3>3
  <2>7. CASE ReadCrashes \/ NoDriver \/ NoMemory \/ OpenHosts \/ AllocFails \/ EndHosts
             \/ OpenList \/ PortAllocFails \/ EndList \/ PrintHost \/ PrintPort
             \/ (ReadAhead /\ pc # "count")
    BY <2>7 DEF ReadCrashes, NoDriver, NoMemory, OpenHosts, AllocFails, EndHosts,
                OpenList, PortAllocFails, EndList, PrintHost, PrintPort, ReadAhead,
                InStream, OpenAt, Return, Die
  <2> QED BY <1>3, <2>1, <2>2, <2>3, <2>4, <2>5, <2>6, <2>7 DEF Process
<1> QED BY <1>1, <1>2, <1>3 DEF Next, Finished


-----------------------------------------------------------------------------
(* The properties. *)

\* What a row is to say.
RowTrue(row) ==
    Steady(row.obj) =>
        \A f \in FilesIn(Script(row)) :
            row.val[f] = IF f \in Reached(Script(row), row.obj) \cap Supported[row.obj]
                           THEN gen[row.obj] ELSE Missing

LEMMA ReadTableIsTrue ==
    ASSUME NEW t \in Table, Len(todo) = 0, Progress(t), NEW f \in FilesIn(t)
    PROVE  val[f] = IF f \in Reached(t, obj) \cap Supported[obj] THEN gen[obj] ELSE Missing
<1>1. PICK n \in 0..Len(t) : GatesOpen(t, n, obj) /\ Holds(val, t, n, obj) /\ Rest(t, n)
  BY DEF Progress
<1>2. Len(t) \in Nat /\ DOMAIN t = 1..Len(t) /\ \A i \in 1..Len(t) : t[i].file \in Attributes
  BY TableElements
<1> DEFINE m == Len(t)
<1>0. m \in Nat /\ n \in 0..m
  BY <1>2
<1> HIDE DEF m
<1>3. \/ n = m
      \/ /\ n + 1 \in 1..m
         /\ t[n + 1].how = "gate" /\ t[n + 1].file \notin Supported[obj]
  <2>1. CASE n = m
    BY <1>0, <2>1
  <2>2. CASE /\ n < m
             /\ t[n + 1].how = "gate" /\ t[n + 1].file \notin Supported[obj]
    BY <1>0, <2>2
  <2>3. \/ n = m
        \/ /\ n < m
           /\ t[n + 1].how = "gate" /\ t[n + 1].file \notin Supported[obj]
    <3>1. Rest(t, n)
      BY <1>1
    <3> QED BY <1>0, <3>1 DEF Rest, m
  <2> QED BY <2>1, <2>2, <2>3
<1>4. \A j \in 1..m :
          (\A h \in 1..j : t[h].how = "gate" => t[h].file \in Supported[obj]) <=> j \in 1..n
  <2> SUFFICES ASSUME NEW j \in 1..m
               PROVE  (\A h \in 1..j : t[h].how = "gate" => t[h].file \in Supported[obj])
                          <=> j \in 1..n
    OBVIOUS
  <2>1. CASE j <= n
    <3>1. j \in 1..n /\ \A h \in 1..j : h \in 1..n
      BY <1>0, <2>1
    <3> QED BY <1>1, <3>1 DEF GatesOpen
  <2>2. CASE j > n
    <3>1. n # m /\ n + 1 \in 1..j /\ j \notin 1..n
      BY <1>0, <2>2
    <3> QED BY <1>3, <3>1
  <2> QED BY <1>0, <2>1, <2>2
<1>5. Reached(t, obj) = {t[i].file : i \in 1..n}
  BY <1>0, <1>2, <1>4 DEF Reached, m
<1>6. f \in Attributes
  BY <1>2 DEF FilesIn
<1> QED BY <1>1, <1>5, <1>6 DEF Holds

LEMMA ReadPortIsTrue ==
    ASSUME todo = <<>>, PortProgress, NEW f \in FilesIn(RportFiles)
    PROVE  val[f] = IF f \in Reached(RportFiles, obj) \cap Supported[obj]
                      THEN gen[obj] ELSE Missing
<1>1. RportFiles \in Table /\ \A i \in DOMAIN RportFiles : RportFiles[i].how = "format"
  BY FilesAssumption
<1>2. Len(RportFiles) \in Nat /\ DOMAIN RportFiles = 1..Len(RportFiles)
  BY <1>1, TableElements
<1>3. \A i \in 1..Len(RportFiles) :
          val[RportFiles[i].file] =
              IF RportFiles[i].file \in Supported[obj] THEN gen[obj] ELSE Missing
  BY <1>2, EmptySeq DEF PortProgress
<1>4. Reached(RportFiles, obj) = FilesIn(RportFiles)
  BY <1>1, <1>2 DEF Reached, FilesIn
<1> QED BY <1>2, <1>3, <1>4 DEF FilesIn

\* The row that is printed is true.
LEMMA PrintedIsTrue ==
    ASSUME TypeInv, RecordInv, PrintHost \/ PrintPort
    PROVE  RowTrue(Row)
<1> SUFFICES ASSUME Steady(obj), NEW f \in FilesIn(Script(Row))
             PROVE  val[f] = IF f \in Reached(Script(Row), obj) \cap Supported[obj]
                               THEN gen[obj] ELSE Missing
  BY DEF RowTrue, Row
<1>1. CASE PrintPort
  <2>1. Script(Row) = RportFiles
    BY <1>1 DEF PrintPort, At, TypeInv, ControlOK, Script, Row
  <2>2. todo = <<>> /\ PortProgress
    BY <1>1 DEF PrintPort, At, RecordInv
  <2> QED BY <2>1, <2>2, ReadPortIsTrue
<1>2. CASE PrintHost
  <2>1. /\ todo = <<>> /\ pc = "print" /\ Kind[obj] = "host" /\ obj \in Object
        /\ call.op # "stats" => driver \in Drivers
        /\ call.op \in {"list", "show", "stats"}
    BY <1>2, CallType DEF PrintHost, At, TypeInv, TypeOK, ControlOK, AboutHost, Ended
  <2>2. Script(Row) = Base
    BY <2>1 DEF Script, Row, Base, Info, Drivers, None
  <2>3. Base \in Table /\ Progress(Base)
    BY <2>1, BaseType DEF RecordInv, AboutHost
  <2>4. PICK b \in Table : b = Base
    BY <2>3
  <2>5. Len(todo) = 0
    BY <2>1, EmptySeq
  <2> QED BY <2>2, <2>3, <2>4, <2>5, ReadTableIsTrue
<1> QED BY <1>1, <1>2

LEMMA RowsStep ==
    ASSUME TypeInv, RecordInv, RowsTrue, [Next]_vars
    PROVE  RowsTrue'
<1>0. call' = call /\ \A row : Script(row)' = Script(row)
  <2>1. call' = call
    BY DEF Next, Finished, vars, proc, Kernel, Process, ReadFile, ReadCrashes, GetDriver,
           GetInfo, NoDriver, NoMemory, ReadAhead, OpenHosts, TakeHost, AllocFails,
           EndHosts, OpenPorts, CountPort, EndCount, OpenList, TakePort, PortAllocFails,
           EndList, PrintHost, PrintPort
  <2> QED BY <2>1 DEF Script
<1>1. rows \in Seq(Rows) /\ \A i \in DOMAIN rows : rows[i] \in Rows /\ RowTrue(rows[i])
  BY ElementOfSeq, LenProperties DEF TypeInv, TypeOK, RowsTrue, RowTrue
<1>2. \A o \in Object : Steady(o)' => Steady(o) /\ gen'[o] = gen[o]
  BY SteadyKept DEF Next, Finished, vars, Process, kernel, Steady
<1>3. ASSUME NEW row \in Rows, RowTrue(row) PROVE RowTrue(row)'
  BY <1>0, <1>2, <1>3 DEF RowTrue, Rows
<1>4. CASE PrintHost \/ PrintPort
  <2>1. rows' = Append(rows, Row) /\ Row \in Rows /\ RowTrue(Row)
    <3>1. obj \in Object
      BY <1>4 DEF PrintHost, PrintPort, At, TypeInv, ControlOK, Ended
    <3> QED BY <1>4, <3>1, PrintedIsTrue DEF PrintHost, PrintPort, Row, Rows, TypeInv, TypeOK
  <2>2. \A i \in DOMAIN rows' : rows'[i] \in Rows /\ RowTrue(rows'[i])
    <3> DEFINE r == Row
    <3>1. rows' = Append(rows, r) /\ r \in Rows /\ RowTrue(r)
      BY <2>1
    <3> HIDE DEF r
    <3> QED BY <1>1, <3>1, AppendProperties, LenProperties
  <2> QED BY <1>0, <1>2, <2>2 DEF RowTrue, RowsTrue, Rows
<1>5. CASE UNCHANGED rows
  BY <1>0, <1>1, <1>2, <1>5 DEF RowTrue, RowsTrue, Rows
<1> QED
  BY <1>4, <1>5
     DEF Next, Finished, vars, proc, Kernel, Process, ReadFile, ReadCrashes, GetDriver,
         GetInfo, NoDriver, NoMemory, ReadAhead, OpenHosts, TakeHost, AllocFails,
         EndHosts, OpenPorts, CountPort, EndCount, OpenList, TakePort, PortAllocFails,
         EndList, PrintHost, PrintPort

LEMMA CrashStep ==
    ASSUME TypeInv, CrashNeedsMissingFile, [Next]_vars
    PROVE  CrashNeedsMissingFile'
<1> USE DEF CrashNeedsMissingFile
<1>1. CASE pc = "crashed"
  <2>1. UNCHANGED <<pc, result, obj, todo, loaded>> /\ (Steady(obj)' => Steady(obj))
    <3>1. CASE Kernel
      BY <3>1, SteadyKept, KernelTypeStep
         DEF Kernel, proc, TypeInv, TypeOK, KernelTypeOK, Steady
    <3>2. CASE Finished \/ UNCHANGED vars
      BY <3>2 DEF Finished, vars, proc, kernel, Steady
    <3>3. ~Process
      BY <1>1
         DEF Process, At, Reading, Ended, ReadFile, ReadCrashes, GetDriver, GetInfo,
             NoDriver, NoMemory, ReadAhead, InStream, OpenHosts, TakeHost, AllocFails,
             EndHosts, EndAt, OpenPorts, CountPort, EndCount, OpenList, TakePort,
             PortAllocFails, EndList, PrintHost, PrintPort
    <3> QED BY <3>1, <3>2, <3>3 DEF Next
  <2> QED BY <1>1, <2>1
<1>2. CASE pc # "crashed" /\ pc' = "crashed"
  <2>1. UNCHANGED <<kernel, loaded>> /\ (ReadCrashes \/ NoDriver \/ NoMemory \/ PortAllocFails)
    BY <1>2
       DEF Next, Finished, vars, proc, Kernel, Process, ReadFile, GetDriver, GetInfo,
           ReadAhead, OpenHosts, OpenAt, Return, TakeHost, AllocFails, EndHosts, OpenPorts,
           CountPort, EndCount, OpenList, TakePort, EndList, PrintHost, PrintPort
  <2>2. CASE ReadCrashes
    BY <2>1, <2>2 DEF ReadCrashes, Die, Readable, Steady, kernel
  <2>3. CASE NoDriver
    BY <2>1, <2>3 DEF NoDriver, Die, At, TypeInv, ControlOK
  <2>4. CASE NoMemory \/ PortAllocFails
    BY <2>4 DEF NoMemory, PortAllocFails, Die
  <2> QED BY <2>1, <2>2, <2>3, <2>4
<1>3. CASE pc' # "crashed"
  BY <1>3
<1> QED BY <1>1, <1>2, <1>3

THEOREM Invariant == Spec => []Inv
<1>1. Init => Inv
  <2>1. Init => RowsTrue /\ CrashNeedsMissingFile
    BY EmptySeq DEF Init, RowsTrue, CrashNeedsMissingFile
  <2> QED BY <2>1, InitType, InitRecord DEF Inv
<1>2. Inv /\ [Next]_vars => Inv'
  BY TypeStep, RecordStep, RowsStep, CrashStep DEF Inv
<1> QED BY <1>1, <1>2, PTL DEF Spec

\* Whatever hosts and ports come and go, a row printed about one that stays holds
\* its own values, and no others, of all the files up to a gate it has not.
THEOREM RowsAreTrue == Spec => []RowsTrue
BY Invariant, PTL DEF Inv

\* A missing file ends a command only for a host or port that has no such file,
\* or that came, went, or was not there; a missing driver only if none is loaded.
THEOREM CrashHasReason == Spec => []CrashNeedsMissingFile
BY Invariant, PTL DEF Inv

=============================================================================
