-------------------------- MODULE IscsiShowProofs --------------------------
(***************************************************************************)
(* Theorems about IscsiShow, for any hosts, sessions, connections and      *)
(* disks, tables of files and bounds.                                      *)
(***************************************************************************)
EXTENDS IscsiShow, TLAPS, SequenceTheorems

\* The streams that are open: of hosts or targets, and one below.
OuterOpen ==
    \/ pc \in {"counting", "hosts", "targets", "openluns", "luns", "type", "entry", "disk"}
    \/ call.op = "list" /\ pc \in {"device", "sessions", "openconn", "connections", "print"}

InnerOpen == pc \in {"sessions", "luns", "type", "entry", "disk", "connections"}

ControlOK ==
    /\ pc \in {"opensession", "findtarget", "opentargets", "targets", "openluns", "luns",
               "type", "entry", "disk", "info"} => call.op = "show"
    /\ pc \in {"scan", "counting", "open", "hosts"} => call.op = "list"
    /\ pc = "alloc" => call.op = "show"
    /\ OuterOpen => open > 0
    /\ InnerOpen => open > IF OuterOpen THEN 1 ELSE 0

TypeInv == TypeOK /\ ControlOK

-----------------------------------------------------------------------------
(* The type invariant. *)

LEMMA TablesType ==
    /\ SessionFiles \in Table /\ FillFiles \in Table /\ ConnectionFiles \in Table
    /\ <<>> \in Table
    /\ <<[of |-> "lun", file |-> "type", how |-> "format"]>> \in Table
    /\ <<[of |-> "lun", file |-> "state", how |-> "format"]>> \in Table
<1>1. SessionFiles \in Table /\ FillFiles \in Table /\ ConnectionFiles \in Table
  BY FilesAssumption
<1>2. <<>> \in Table
  BY EmptySeq DEF Table
<1>3. \A f \in Files : <<f>> \in Table
  BY DEF Table
<1>4. /\ [of |-> "lun", file |-> "type", how |-> "format"] \in Files
      /\ [of |-> "lun", file |-> "state", how |-> "format"] \in Files
  BY FilesAssumption DEF Files, Read
<1> QED BY <1>1, <1>2, <1>3, <1>4

LEMMA TableElements ==
    ASSUME NEW t \in Table
    PROVE  /\ Len(t) \in Nat /\ DOMAIN t = 1..Len(t)
           /\ \A i \in 1..Len(t) : t[i] \in Files
           /\ t # <<>> => /\ Head(t) = t[1] /\ 1 \in 1..Len(t) /\ Head(t) \in Files
                          /\ Tail(t) \in Table
                          /\ \A i \in 2..Len(t) : Tail(t)[i - 1] = t[i] /\ i - 1 \in DOMAIN Tail(t)
<1>1. t \in Seq(Files)
  BY DEF Table
<1>2. Len(t) \in Nat /\ DOMAIN t = 1..Len(t)
  BY <1>1, LenProperties
<1>3. \A i \in 1..Len(t) : t[i] \in Files
  BY <1>1, <1>2, ElementOfSeq
<1>4. ASSUME t # <<>>
      PROVE  /\ Head(t) = t[1] /\ 1 \in 1..Len(t)
             /\ Tail(t) \in Table
             /\ \A i \in 2..Len(t) : Tail(t)[i - 1] = t[i] /\ i - 1 \in DOMAIN Tail(t)
  <2>1. /\ Len(t) \in Nat \ {0} /\ Head(t) = t[1]
        /\ Tail(t) \in Seq(Files)
        /\ Len(Tail(t)) = Len(t) - 1
        /\ \A i \in 1..(Len(t) - 1) : Tail(t)[i] = t[i + 1]
    BY <1>1, <1>2, <1>4, HeadTailProperties, EmptySeq
  <2>2. DOMAIN Tail(t) = 1..(Len(t) - 1)
    BY <2>1, LenProperties
  <2>3. ASSUME NEW i \in 2..Len(t)
        PROVE  Tail(t)[i - 1] = t[i] /\ i - 1 \in DOMAIN Tail(t)
    <3>1. i - 1 \in 1..(Len(t) - 1) /\ (i - 1) + 1 = i
      BY <2>1
    <3> QED BY <2>1, <2>2, <3>1
  <2> QED BY <2>1, <2>3 DEF Table
<1> QED BY <1>2, <1>3, <1>4

LEMMA CallType ==
    ASSUME call \in Calls
    PROVE  /\ call.op \in {"list", "show"}
           /\ call.op = "show" => call.host \in Object
BY CallsAssumption

LEMMA NamesType ==
    /\ NoNames \in Names
    /\ \A n \in Names, o \in Object :
           /\ [n EXCEPT !.host = o] \in Names /\ [n EXCEPT !.session = o] \in Names
           /\ [n EXCEPT !.connection = o] \in Names /\ [n EXCEPT !.target = o] \in Names
           /\ [n EXCEPT !.lun = o] \in Names
    /\ \A n \in Names, thing \in Things : n[thing] \in Object \cup {None}
BY DEF NoNames, Names, Things

LEMMA EmptyType == Empty \in Values
BY DEF Empty, Values, Missing

LEMMA StreamType ==
    ASSUME KernelTypeOK
    PROVE  /\ \A dir \in Object \cup {Root} : Opened(dir) \in Streams
           /\ \A s \in Streams, o \in Object :
                  Fetched(s, o) \in Streams /\ Taken(s, o) \in Streams
<1>1. \A dir \in Object \cup {Root} : Opened(dir) \in Streams
  BY DEF KernelTypeOK, Opened, Streams, GenOf
<1>2. \A s \in Streams, o \in Object : Fetched(s, o) \in Streams
  BY HashAssumption DEF Streams, Fetched
<1>3. \A s \in Streams, o \in Object : Taken(s, o) \in Streams
  BY DEF Streams, Taken
<1> QED BY <1>1, <1>2, <1>3

LEMMA InitType == Init => TypeInv
<1> SUFFICES ASSUME Init PROVE TypeInv
  OBVIOUS
<1>1. KernelTypeOK
  BY DEF Init, KernelInit, KernelTypeOK
<1>2. outer \in Streams /\ inner \in Streams /\ outer.buf = {}
  BY <1>1, StreamType DEF Init, Opened
<1>3. todo \in Table /\ name \in Names /\ val \in Values
  BY TablesType, NamesType, EmptyType DEF Init
<1>4. rows \in Seq(Rows)
  BY EmptySeq DEF Init
<1>5. call \in Calls /\ call.op \in {"list", "show"}
  BY CallType DEF Init
<1>6. TypeOK
  BY <1>1, <1>2, <1>3, <1>4, <1>5 DEF Init, TypeOK
<1>7. ControlOK
  BY <1>2, <1>5 DEF Init, ControlOK, OuterOpen, InnerOpen
<1> QED BY <1>6, <1>7 DEF TypeInv

LEMMA KernelTypeStep ==
    ASSUME KernelTypeOK, Hotplug
    PROVE  KernelTypeOK'
BY TreeAssumption
   DEF KernelTypeOK, Hotplug, Appear, Vanish, Others, Children

LEMMA RowType ==
    ASSUME TypeOK, NEW of \in Things, rows' = Append(rows, Row(of))
    PROVE  rows' \in Seq(Rows)
<1>1. Row(of) \in Rows
  BY DEF TypeOK, Row, Rows
<1> QED BY <1>1, AppendProperties DEF TypeOK

\* A name is taken from a stream, or more is read into it.
LEMMA TakeType ==
    ASSUME TypeOK
    PROVE  /\ \A o : NextOuter(o) => o \in Object /\ outer' \in Streams
           /\ \A o : NextInner(o) => o \in Object /\ inner' \in Streams
BY StreamType DEF TypeOK, NextOuter, NextInner, IsFirst, Streams

LEMMA OpenType ==
    ASSUME TypeOK, NEW dir
    PROVE  /\ OpenOuter(dir) => outer' \in Streams /\ inner' = inner /\ lost' = lost
                                /\ open' = open + 1
           /\ OpenInner(dir) => inner' \in Streams /\ outer' = outer /\ lost' = lost
                                /\ open' = open + 1
           /\ OpenFails(dir) /\ dir \in Object \cup {Root, None} =>
                  lost' \subseteq Object \cup {Root} /\ UNCHANGED <<outer, inner, open>>
BY StreamType, NamesAssumption
   DEF TypeOK, OpenOuter, OpenInner, OpenFails, Exists, KernelTypeOK, None

LEMMA ProcessTypeStep ==
    ASSUME TypeInv, Process
    PROVE  TypeInv'
<1> USE DEF TypeInv, TypeOK, ControlOK, OuterOpen, InnerOpen, At, Ended
<1>0. KernelTypeOK'
  BY DEF Process, kernel, KernelTypeOK
<1>00. call.op \in {"list", "show"} /\ (call.op = "show" => call.host \in Object)
  BY CallType
<1>000. \A thing \in Things : name[thing] \in Object \cup {None}
  BY NamesType
<1> USE <1>0, <1>00
<1>1. CASE ReadFile
  <2>1. Head(todo) \in Files /\ Tail(todo) \in Table
    BY <1>1, TableElements DEF ReadFile
  <2>2. Head(todo).of \in Read /\ Head(todo).file \in Attributes
    BY <2>1 DEF Files
  <2>3. name[Head(todo).of] \in Object \cup {None}
    BY <1>000, <2>2 DEF Read, Things
  <2>4. val' \in Values
    <3> DEFINE k == Head(todo).of
               f == Head(todo).file
    <3>1. \E v \in Nat : val' = [val EXCEPT ![k][f] = v]
      BY <1>1, <2>3 DEF ReadFile, Readable, Missing, KernelTypeOK
    <3>2. k \in Read /\ f \in Attributes
      BY <2>2
    <3> HIDE DEF k, f
    <3> QED BY <3>1, <3>2 DEF Values
  <2> QED BY <1>1, <2>1, <2>4 DEF ReadFile
<1>2. CASE ReadCrashes
  <2>1. Head(todo).how \in {"format", "number"}
    BY <1>2, TableElements DEF ReadCrashes, Files
  <2> QED BY <1>2, <2>1 DEF ReadCrashes, Die
<1>3. CASE ReadAhead
  <2>1. outer' \in Streams /\ inner' \in Streams
    BY <1>3, StreamType DEF ReadAhead, Ahead, Children
  <2> QED BY <1>3, <2>1 DEF ReadAhead
<1>4. CASE Scan \/ OpenHosts
  <2>1. \/ OpenOuter(Root)
        \/ OpenFails(Root) /\ Root \in Object \cup {Root, None}
    BY <1>4 DEF Scan, OpenHosts
  <2>2. /\ outer' \in Streams /\ inner' \in Streams /\ lost' \subseteq Object \cup {Root}
        /\ OpenOuter(Root) => open' = open + 1
        /\ OpenFails(Root) => open' = open
    BY <2>1, OpenType DEF OpenFails
  <2> QED BY <1>4, <2>2 DEF Scan, OpenHosts, Return
<1>5. CASE CountHost \/ AllocFails
  BY <1>5, TakeType DEF CountHost, AllocFails, Return
<1>6. CASE EndScan \/ EndHosts \/ EndTargets
  BY <1>6 DEF EndScan, EndHosts, EndTargets, EndOuter, Return
<1>7. CASE TakeHost
  <2>1. PICK o \in outer.buf : NextOuter(o) /\ name' = [NoNames EXCEPT !.host = o]
    BY <1>7 DEF TakeHost
  <2>2. outer' \in Streams /\ o \in Object
    BY <2>1, TakeType
  <2>3. name' \in Names
    BY <2>1, <2>2, NamesType
  <2> QED BY <1>7, <2>2, <2>3, EmptyType DEF TakeHost
<1>8. CASE Alloc
  <2>1. call.op = "show" => [NoNames EXCEPT !.host = call.host] \in Names
    BY NamesType
  <2>2. name' \in Names
    BY <1>8, <2>1 DEF Alloc
  <2> QED BY <1>8, <2>2 DEF Alloc, Return
<1>9. CASE OpenDevice
  <2>1. name.host \in Object \cup {Root, None}
    BY <1>000 DEF Things
  <2> QED BY <1>9, <2>1, OpenType, TablesType DEF OpenDevice, SessionFilled
<1>10. CASE TakeSession
  <2>1. PICK o \in inner.buf :
            NextInner(o) /\ (name' = [name EXCEPT !.session = o] \/ name' = name)
    BY <1>10 DEF TakeSession
  <2>2. inner' \in Streams /\ o \in Object
    BY <2>1, TakeType
  <2>3. name' \in Names
    <3>1. name \in Names /\ [name EXCEPT !.session = o] \in Names
      BY <2>2, NamesType
    <3> QED BY <2>1, <3>1
  <2> QED BY <1>10, <2>2, <2>3, TablesType DEF TakeSession, SessionFilled
<1>11. CASE EndSessions
  BY <1>11, TablesType DEF EndSessions, EndInner, SessionFilled
<1>12. CASE OpenSession
  <2>1. name.session \in Object \cup {Root, None} /\ "session" \in Things
    BY <1>000 DEF Things
  <2> QED BY <1>12, <2>1, OpenType, RowType DEF OpenSession
<1>13. CASE FindTarget \/ NoTarget
  BY <1>13, TakeType DEF FindTarget, NoTarget
<1>14. CASE OpenTargets \/ OpenLuns
  <2>1. name.session \in Object \cup {Root, None} /\ name.target \in Object \cup {Root, None}
    BY <1>000 DEF Things
  <2> QED BY <1>14, <2>1, OpenType DEF OpenTargets, OpenLuns
<1>15. CASE TakeTarget
  <2>1. PICK o \in outer.buf :
            NextOuter(o) /\ (name' = [name EXCEPT !.target = o] \/ name' = name)
    BY <1>15 DEF TakeTarget
  <2>2. outer' \in Streams /\ o \in Object
    BY <2>1, TakeType
  <2>3. name' \in Names
    <3>1. name \in Names /\ [name EXCEPT !.target = o] \in Names
      BY <2>2, NamesType
    <3> QED BY <2>1, <3>1
  <2> QED BY <1>15, <2>2, <2>3 DEF TakeTarget
<1>16. CASE TakeLun
  <2>1. PICK o \in inner.buf : NextInner(o) /\ name' = [name EXCEPT !.lun = o]
    BY <1>16 DEF TakeLun
  <2>2. inner' \in Streams /\ o \in Object
    BY <2>1, TakeType
  <2>3. name' \in Names
    BY <2>1, <2>2, NamesType
  <2> QED BY <1>16, <2>2, <2>3, TablesType DEF TakeLun
<1>17. CASE CheckType
  BY <1>17 DEF CheckType
<1>18. CASE GetDeviceEntry
  BY <1>18, TablesType DEF GetDeviceEntry
<1>19. CASE EntryCrashes
  BY <1>19 DEF EntryCrashes, Die
<1>20. CASE PrintLun
  <2>1. rows' \in Seq(Rows)
    BY <1>20, RowType DEF PrintLun, Things
  <2> QED BY <1>20, <2>1 DEF PrintLun
<1>21. CASE EndLuns
  BY <1>21 DEF EndLuns, EndInner
<1>22. CASE OpenConnections
  <2>1. name.session \in Object \cup {Root, None}
    BY <1>000 DEF Things
  <2> QED BY <1>22, <2>1, OpenType DEF OpenConnections, After
<1>23. CASE TakeConnection
  <2>1. PICK o \in inner.buf :
            NextInner(o) /\ (name' = [name EXCEPT !.connection = o] \/ name' = name)
    BY <1>23 DEF TakeConnection
  <2>2. inner' \in Streams /\ o \in Object
    BY <2>1, TakeType
  <2>3. name' \in Names
    <3>1. name \in Names /\ [name EXCEPT !.connection = o] \in Names
      BY <2>2, NamesType
    <3> QED BY <2>1, <3>1
  <2> QED BY <1>23, <2>2, <2>3 DEF TakeConnection
<1>24. CASE EndConnections
  BY <1>24, TablesType DEF EndConnections, EndInner, After
<1>25. CASE GetConnectionInfo
  BY <1>25, TablesType DEF GetConnectionInfo
<1>26. CASE PrintRow
  <2>1. rows' \in Seq(Rows)
    BY <1>26, RowType DEF PrintRow, Things
  <2> QED BY <1>26, <2>1 DEF PrintRow, Return
<1> QED
  BY <1>1, <1>2, <1>3, <1>4, <1>5, <1>6, <1>7, <1>8, <1>9, <1>10, <1>11, <1>12, <1>13,
     <1>14, <1>15, <1>16, <1>17, <1>18, <1>19, <1>20, <1>21, <1>22, <1>23, <1>24,
     <1>25, <1>26
     DEF Process

LEMMA TypeStep ==
    ASSUME TypeInv, [Next]_vars
    PROVE  TypeInv'
<1>1. CASE Process
  BY <1>1, ProcessTypeStep
<1>2. CASE Kernel
  BY <1>2, KernelTypeStep DEF Kernel, proc, TypeInv, TypeOK, ControlOK, OuterOpen, InnerOpen
<1>3. CASE UNCHANGED vars
  BY <1>3 DEF vars, proc, kernel, KernelTypeOK, TypeInv, TypeOK, ControlOK, OuterOpen,
              InnerOpen
<1> QED BY <1>1, <1>2, <1>3 DEF Next, Finished

THEOREM TypeInvariant == Spec => []TypeInv
BY InitType, TypeStep, PTL DEF Spec

\* Every variable of the program keeps its type; no stream is closed twice.
THEOREM TypeCorrect == Spec => []TypeOK
BY TypeInvariant, PTL DEF TypeInv

-----------------------------------------------------------------------------
(* The strengthening, for the names found below a host. *)

\* What is in a stream is before its cursor; a stream of a directory that stays
\* is of this very directory.
StreamOK(s) ==
    /\ s.buf \subseteq Children(s.dir)
    /\ \A o \in s.buf : Hash[o] <= s.cursor
    /\ Steady(s.dir) => s.gen = gen[s.dir]

\* An entry that readdir() is still to return.
Ahead1(s, o) == o \in s.buf \/ Hash[o] > s.cursor

\* Where the session has been looked for, and where the connection has.
SessionKnown ==
    {"opensession", "findtarget", "opentargets", "targets", "openluns", "luns", "type",
     "entry", "disk", "openconn", "connections", "info", "print"}
ConnectionKnown == {"info", "print"}
ConnectionUnknown == {"device", "sessions"} \cup (SessionKnown \ {"connections", "info", "print"})

\* The names hang together.
Chain ==
    /\ name.session # None => name.session \in ChildrenOf(name.host, "session")
    /\ name.connection # None => /\ name.session # None
                                 /\ name.connection \in ChildrenOf(name.session, "connection")

\* The session is the first of those that stay ...
FirstSession(n) ==
    Steady(n.host) /\ n.host \notin lost =>
        \A s \in ChildrenOf(n.host, "session") :
            Steady(s) => n.session # None /\ Hash[n.session] <= Hash[s]

\* ... and the connection the last of those that stay.
LastConnection(n) ==
    Steady(n.session) /\ n.session \notin lost =>
        \A c \in ChildrenOf(n.session, "connection") :
            Steady(c) => n.connection # None /\ Hash[c] <= Hash[n.connection]

SearchInv ==
    /\ StreamOK(outer) /\ StreamOK(inner)
    /\ Chain
    /\ pc \in {"device", "sessions"} => name.session = None
    /\ pc \in ConnectionUnknown => name.connection = None
    /\ pc = "sessions" =>
           /\ inner.dir = name.host
           /\ Steady(name.host) =>
                  \A s \in ChildrenOf(name.host, "session") : Steady(s) => Ahead1(inner, s)
    /\ pc \in SessionKnown => FirstSession(name)
    /\ pc = "connections" =>
           /\ inner.dir = name.session /\ name.session # None
           /\ name.connection # None =>
                  /\ Hash[name.connection] <= inner.cursor
                  /\ \A o \in inner.buf : Hash[name.connection] <= Hash[o]
           /\ Steady(name.session) =>
                  \A c \in ChildrenOf(name.session, "connection") :
                      Steady(c) => \/ Ahead1(inner, c)
                                   \/ name.connection # None /\ Hash[c] <= Hash[name.connection]
    /\ pc \in ConnectionKnown => LastConnection(name)

-----------------------------------------------------------------------------
(* The strengthening, for the values. *)

\* The value of a file is that of the object found, if it stays ...
Good(of, file) ==
    Steady(name[of]) =>
        val[of][file] = IF file \in Supported[name[of]] THEN gen[name[of]] ELSE Missing

\* ... for all files of a table but those that are still to be read.
GoodBut(table) ==
    \A i \in DOMAIN table :
        \/ Good(table[i].of, table[i].file)
        \/ \E j \in DOMAIN todo : todo[j] = table[i]

TypeFile == <<[of |-> "lun", file |-> "type", how |-> "format"]>>
StateFile == <<[of |-> "lun", file |-> "state", how |-> "format"]>>

ValueInv ==
    /\ pc = "opensession" => GoodBut(SessionFiles)
    /\ pc = "type" => GoodBut(TypeFile)
    /\ pc \in {"entry", "disk"} => Good("lun", "type")
    /\ pc = "disk" => GoodBut(StateFile)
    /\ pc \in {"info", "print"} /\ name.session \notin lost => GoodBut(FillFiles)
    /\ pc = "print" /\ call.op = "show" => GoodBut(ConnectionFiles)

Inv == TypeInv /\ SearchInv /\ ValueInv /\ RowsTrue /\ CrashNeedsLogout

-----------------------------------------------------------------------------
(* Streams. *)

\* What stays has not been touched, and bears its generation.
LEMMA SteadyKept ==
    ASSUME KernelTypeOK, Hotplug \/ UNCHANGED kernel
    PROVE  \A o : Steady(o)' => Steady(o) /\ o \in Object /\ gen'[o] = gen[o]
BY DEF Hotplug, Appear, Vanish, Steady, KernelTypeOK, kernel

LEMMA StreamKept ==
    ASSUME KernelTypeOK, Hotplug \/ UNCHANGED kernel
    PROVE  \A s : StreamOK(s) => StreamOK(s)'
BY SteadyKept DEF StreamOK

LEMMA OpenedOK ==
    ASSUME KernelTypeOK, NEW dir, Exists(dir)
    PROVE  /\ StreamOK(Opened(dir)) /\ Opened(dir).dir = dir /\ Opened(dir).buf = {}
           /\ \A c \in Object : Ahead1(Opened(dir), c)
<1>1. Opened(dir).dir = dir /\ Opened(dir).buf = {} /\ Opened(dir).cursor = 0
      /\ Opened(dir).gen = GenOf(dir)
  BY DEF Opened
<1>2. Steady(dir) => GenOf(dir) = gen[dir]
  BY TreeAssumption DEF Steady, GenOf, KernelTypeOK
<1>3. \A c \in Object : Hash[c] > 0
  BY HashAssumption
<1> QED BY <1>1, <1>2, <1>3 DEF StreamOK, Ahead1

LEMMA FetchedOK ==
    ASSUME KernelTypeOK, NEW s \in Streams, StreamOK(s), NEW o, IsFirst(o, Ahead(s))
    PROVE  /\ o \in Object /\ StreamOK(Fetched(s, o)) /\ Fetched(s, o).dir = s.dir
           /\ Fetched(s, o).buf = s.buf \cup {o}
           /\ Fetched(s, o).cursor = Hash[o] /\ Hash[o] > s.cursor
           /\ \A c \in Children(s.dir) :
                  Steady(s.dir) /\ Steady(c) /\ Ahead1(s, c) => Ahead1(Fetched(s, o), c)
<1>1. /\ Fetched(s, o).dir = s.dir /\ Fetched(s, o).buf = s.buf \cup {o}
      /\ Fetched(s, o).cursor = Hash[o] /\ Fetched(s, o).gen = s.gen
  BY DEF Fetched, Streams
<1>2. /\ o \in Children(s.dir) /\ o \in Object /\ Hash[o] > s.cursor
      /\ \A p \in Ahead(s) : Hash[o] <= Hash[p]
  BY DEF IsFirst, Ahead, Children
<1>3. \A p \in Object : Hash[p] \in Nat
  BY HashAssumption
<1>4. s.cursor \in Nat /\ s.buf \subseteq Object
  BY DEF Streams
<1>5. StreamOK(Fetched(s, o))
  BY <1>1, <1>2, <1>3, <1>4 DEF StreamOK
<1>6. ASSUME NEW c \in Children(s.dir), Steady(s.dir), Steady(c), Ahead1(s, c)
      PROVE  Ahead1(Fetched(s, o), c)
  <2>1. CASE c \in s.buf
    BY <1>1, <2>1 DEF Ahead1
  <2>2. CASE c \notin s.buf
    <3>1. c \in Object /\ c \in present /\ Hash[c] > s.cursor
      BY <1>6, <2>2 DEF Ahead1, Steady, Children
    <3>2. Exists(s.dir) /\ GenOf(s.dir) = s.gen
      BY <1>6, TreeAssumption DEF Exists, GenOf, StreamOK, Steady, KernelTypeOK
    <3>3. c \in Ahead(s)
      BY <3>1, <3>2 DEF Ahead
    <3>4. Hash[o] <= Hash[c] /\ (Hash[o] = Hash[c] => o = c)
      BY <1>2, <3>1, <3>3, HashAssumption
    <3> QED BY <1>1, <1>2, <1>3, <3>1, <3>4 DEF Ahead1
  <2> QED BY <2>1, <2>2
<1> QED BY <1>1, <1>2, <1>5, <1>6

LEMMA TakenOK ==
    ASSUME NEW s \in Streams, StreamOK(s), NEW o, IsFirst(o, s.buf)
    PROVE  /\ o \in Children(s.dir) /\ o \in Object
           /\ StreamOK(Taken(s, o)) /\ Taken(s, o).dir = s.dir
           /\ Taken(s, o).buf = s.buf \ {o} /\ Taken(s, o).cursor = s.cursor
           /\ Hash[o] <= s.cursor
           /\ \A p \in s.buf : Hash[o] <= Hash[p]
           /\ \A c \in Object : Ahead1(s, c) => /\ Hash[o] <= Hash[c]
                                                /\ c # o => Ahead1(Taken(s, o), c)
<1>1. /\ Taken(s, o).dir = s.dir /\ Taken(s, o).buf = s.buf \ {o}
      /\ Taken(s, o).cursor = s.cursor /\ Taken(s, o).gen = s.gen
  BY DEF Taken, Streams
<1>2. /\ o \in Children(s.dir) /\ o \in Object /\ Hash[o] <= s.cursor
      /\ \A p \in s.buf : Hash[o] <= Hash[p]
  BY DEF IsFirst, StreamOK, Children
<1>3. \A p \in Object : Hash[p] \in Nat
  BY HashAssumption
<1>4. s.cursor \in Nat
  BY DEF Streams
<1>5. StreamOK(Taken(s, o))
  BY <1>1 DEF StreamOK
<1>6. \A c \in Object : Ahead1(s, c) => /\ Hash[o] <= Hash[c]
                                        /\ c # o => Ahead1(Taken(s, o), c)
  BY <1>1, <1>2, <1>3, <1>4 DEF Ahead1
<1> QED BY <1>1, <1>2, <1>5, <1>6

LEMMA AtEndNothing ==
    ASSUME KernelTypeOK, NEW s \in Streams, StreamOK(s), AtEnd(s), Steady(s.dir),
           NEW c \in Children(s.dir), Steady(c)
    PROVE  ~Ahead1(s, c)
<1>1. c \in Object /\ c \in present
  BY DEF Children, Steady
<1>2. Exists(s.dir) /\ GenOf(s.dir) = s.gen
  BY TreeAssumption DEF Exists, GenOf, StreamOK, Steady, KernelTypeOK
<1>3. s.buf = {} /\ Ahead(s) = {}
  BY DEF AtEnd
<1> QED BY <1>1, <1>2, <1>3 DEF Ahead, Ahead1

\* The steps that leave the search as it is.
LEMMA KeptSearch ==
    ASSUME SearchInv, lost \subseteq lost', StreamOK(outer)', StreamOK(inner)',
           name'.host = name.host, name'.session = name.session,
           name'.connection = name.connection,
           \A o : Steady(o)' => Steady(o),
           pc' \in {"device", "sessions"} => pc \in {"device", "sessions"},
           pc' = "sessions" => pc = "sessions" /\ inner' = inner,
           pc' = "connections" => pc = "connections" /\ inner' = inner,
           pc' \in ConnectionUnknown => pc \in ConnectionUnknown,
           pc' \in SessionKnown => pc \in SessionKnown,
           pc' \in ConnectionKnown => pc \in ConnectionKnown
    PROVE  SearchInv'
<1> USE DEF SearchInv
<1>1. Chain'
  BY DEF Chain
<1>2. pc' \in SessionKnown => FirstSession(name)'
  BY DEF FirstSession
<1>3. pc' \in ConnectionKnown => LastConnection(name)'
  BY DEF LastConnection
<1>4. pc' = "sessions" =>
          /\ inner'.dir = name'.host
          /\ Steady(name.host)' =>
                 \A s \in ChildrenOf(name'.host, "session") : Steady(s)' => Ahead1(inner', s)
  OBVIOUS
<1>5. pc' = "connections" =>
          /\ inner'.dir = name'.session /\ name'.session # None
          /\ name'.connection # None =>
                 /\ Hash[name'.connection] <= inner'.cursor
                 /\ \A o \in inner'.buf : Hash[name'.connection] <= Hash[o]
          /\ Steady(name.session)' =>
                 \A c \in ChildrenOf(name'.session, "connection") :
                     Steady(c)' => \/ Ahead1(inner', c)
                                   \/ /\ name'.connection # None
                                      /\ Hash[c] <= Hash[name'.connection]
  OBVIOUS
<1>6. \A s, c : Ahead1(s, c)' <=> Ahead1(s, c)
  BY DEF Ahead1
<1> QED BY <1>1, <1>2, <1>3, <1>4, <1>5, <1>6

LEMMA SearchKernelStep ==
    ASSUME TypeInv, SearchInv, Kernel \/ UNCHANGED vars
    PROVE  SearchInv'
<1>1. KernelTypeOK /\ (Hotplug \/ UNCHANGED kernel) /\ UNCHANGED proc
  BY DEF TypeInv, TypeOK, Kernel, vars
<1>2. \A o : Steady(o)' => Steady(o)
  BY <1>1, SteadyKept
<1>3. StreamOK(outer)' /\ StreamOK(inner)'
  BY <1>1, StreamKept DEF SearchInv, proc, StreamOK
<1> QED BY <1>1, <1>2, <1>3, KeptSearch DEF proc

\* The streams stay in order.
LEMMA ProcessStreams ==
    ASSUME TypeInv, SearchInv, Process
    PROVE  StreamOK(outer)' /\ StreamOK(inner)' /\ lost \subseteq lost'
<1>0. UNCHANGED kernel /\ KernelTypeOK /\ outer \in Streams /\ inner \in Streams
  BY DEF Process, TypeInv, TypeOK
<1>1. \A s : StreamOK(s) => StreamOK(s)'
  BY <1>0, StreamKept
<1>2. /\ \/ outer' = outer
         \/ \E dir : Exists(dir) /\ outer' = Opened(dir)
         \/ \E o : IsFirst(o, outer.buf) /\ outer' = Taken(outer, o)
         \/ \E o : IsFirst(o, Ahead(outer)) /\ outer' = Fetched(outer, o)
      /\ \/ inner' = inner
         \/ \E dir : Exists(dir) /\ inner' = Opened(dir)
         \/ \E o : IsFirst(o, inner.buf) /\ inner' = Taken(inner, o)
         \/ \E o : IsFirst(o, Ahead(inner)) /\ inner' = Fetched(inner, o)
      /\ lost \subseteq lost'
  BY DEF Process, ReadFile, ReadCrashes, ReadAhead, Scan, CountHost, EndScan, OpenHosts,
         TakeHost, AllocFails, EndHosts, Alloc, OpenDevice, TakeSession, EndSessions,
         OpenSession, FindTarget, NoTarget, OpenTargets, TakeTarget, EndTargets, OpenLuns,
         TakeLun, CheckType, GetDeviceEntry, EntryCrashes, PrintLun, EndLuns,
         OpenConnections, TakeConnection, EndConnections, GetConnectionInfo, PrintRow,
         OpenOuter, OpenInner, OpenFails, NextOuter, NextInner, EndOuter, EndInner
<1>3. StreamOK(outer')
  BY <1>0, <1>2, OpenedOK, TakenOK, FetchedOK DEF SearchInv
<1>4. StreamOK(inner')
  BY <1>0, <1>2, OpenedOK, TakenOK, FetchedOK DEF SearchInv
<1>5. StreamOK(outer)' /\ StreamOK(inner)'
  BY <1>0, <1>3, <1>4 DEF StreamOK, Steady, kernel
<1> QED BY <1>2, <1>5

LEMMA NamesKept ==
    ASSUME name \in Names, NEW o
    PROVE  /\ name' = [name EXCEPT !.session = o] =>
                  /\ name'.session = o /\ name'.host = name.host
                  /\ name'.connection = name.connection
           /\ name' = [name EXCEPT !.connection = o] =>
                  /\ name'.connection = o /\ name'.host = name.host
                  /\ name'.session = name.session
           /\ (name' = [name EXCEPT !.target = o] \/ name' = [name EXCEPT !.lun = o]) =>
                  /\ name'.connection = name.connection /\ name'.host = name.host
                  /\ name'.session = name.session
           /\ name' = [NoNames EXCEPT !.host = o] =>
                  /\ name'.session = None /\ name'.connection = None /\ name'.host = o
BY DEF Names, Things, NoNames

LEMMA QuietSearchStep ==
    ASSUME TypeInv, SearchInv, Process,
           \/ ReadFile \/ ReadCrashes
           \/ (ReadAhead /\ pc \notin {"sessions", "connections"})
           \/ Scan \/ CountHost \/ EndScan \/ OpenHosts \/ AllocFails \/ EndHosts
           \/ OpenSession \/ FindTarget \/ NoTarget
           \/ OpenTargets \/ TakeTarget \/ EndTargets
           \/ OpenLuns \/ TakeLun \/ CheckType \/ GetDeviceEntry \/ EntryCrashes \/ PrintLun
           \/ EndLuns \/ GetConnectionInfo \/ PrintRow
    PROVE  SearchInv'
<1>1. StreamOK(outer)' /\ StreamOK(inner)' /\ lost \subseteq lost'
  BY ProcessStreams
<1>2. \A o : Steady(o)' => Steady(o)
  BY DEF Process, kernel, Steady
<1>3. /\ name'.host = name.host /\ name'.session = name.session
      /\ name'.connection = name.connection
  <2>1. CASE TakeTarget \/ TakeLun
    BY <2>1, NamesKept DEF TakeTarget, TakeLun, TypeInv, TypeOK
  <2>2. CASE ~(TakeTarget \/ TakeLun)
    BY <2>2 DEF ReadFile, ReadCrashes, ReadAhead, Scan, CountHost, EndScan, OpenHosts,
           AllocFails, EndHosts, OpenSession, FindTarget, NoTarget, OpenTargets,
           EndTargets, OpenLuns, CheckType, GetDeviceEntry, EntryCrashes, PrintLun,
           EndLuns, GetConnectionInfo, PrintRow
  <2> QED BY <2>1, <2>2
<1>4. /\ pc' \in {"device", "sessions"} => pc \in {"device", "sessions"}
      /\ pc' = "sessions" => pc = "sessions" /\ inner' = inner
      /\ pc' = "connections" => pc = "connections" /\ inner' = inner
      /\ pc' \in ConnectionUnknown => pc \in ConnectionUnknown
      /\ pc' \in SessionKnown => pc \in SessionKnown
      /\ pc' \in ConnectionKnown => pc \in ConnectionKnown
  BY DEF ReadFile, ReadCrashes, ReadAhead, Scan, CountHost, EndScan, OpenHosts,
         AllocFails, EndHosts, OpenSession, FindTarget, NoTarget, OpenTargets, TakeTarget,
         EndTargets, OpenLuns, TakeLun, CheckType, GetDeviceEntry, EntryCrashes, PrintLun,
         EndLuns, GetConnectionInfo, PrintRow, At, Return, Die, EndOuter, EndInner,
         ConnectionUnknown, SessionKnown, ConnectionKnown, OnOuter, OnInner
<1> QED BY <1>1, <1>2, <1>3, <1>4, KeptSearch

LEMMA SearchStep ==
    ASSUME TypeInv, SearchInv, Process
    PROVE  SearchInv'
<1>0. /\ UNCHANGED kernel /\ KernelTypeOK /\ name \in Names
      /\ outer \in Streams /\ inner \in Streams
      /\ StreamOK(outer)' /\ StreamOK(inner)' /\ lost \subseteq lost'
      /\ \A o : Steady(o)' <=> Steady(o)
  BY ProcessStreams DEF Process, TypeInv, TypeOK, Steady, kernel
<1>1. CASE TakeHost \/ Alloc
  <2>1. pc' \in {"device", "done"}
    BY <1>1 DEF TakeHost, Alloc, Return
  <2>2. CASE name' = name /\ pc' = "done"
    BY <1>0, <2>2, KeptSearch DEF ConnectionUnknown, SessionKnown, ConnectionKnown
  <2>3. CASE \E o : name' = [NoNames EXCEPT !.host = o]
    <3>1. name'.session = None /\ name'.connection = None
      BY <1>0, <2>3, NamesKept
    <3> QED BY <1>0, <2>1, <3>1
       DEF SearchInv, Chain, ConnectionUnknown, SessionKnown, ConnectionKnown
  <2> QED BY <1>1, <2>1, <2>2, <2>3 DEF TakeHost, Alloc, Return
<1>2. ASSUME pc' = pc, pc \in {"sessions", "connections"}, name' = name,
             inner'.dir = inner.dir,
             \A c \in Children(inner.dir) :
                 (/\ Kind[c] = (IF pc = "sessions" THEN "session" ELSE "connection")
                  /\ Steady(inner.dir) /\ Steady(c) /\ Ahead1(inner, c))
                 => Ahead1(inner', c),
             inner'.cursor >= inner.cursor,
             \A o \in inner'.buf : o \in inner.buf \/ Hash[o] >= inner.cursor
      PROVE  SearchInv'
  <2> USE <1>0, <1>2 DEF SearchInv, Chain, ChildrenOf
  <2>1. pc \in SessionKnown => FirstSession(name)'
    BY DEF FirstSession
  <2>2. \A s, c : Ahead1(s, c)' <=> Ahead1(s, c)
    BY DEF Ahead1
  <2>3. pc = "sessions" =>
            /\ inner'.dir = name'.host
            /\ Steady(name.host)' =>
                   \A s \in ChildrenOf(name'.host, "session") :
                       Steady(s)' => Ahead1(inner', s)
    OBVIOUS
  <2>4. pc = "connections" =>
            /\ inner'.dir = name'.session /\ name'.session # None
            /\ name'.connection # None =>
                   /\ Hash[name'.connection] <= inner'.cursor
                   /\ \A o \in inner'.buf : Hash[name'.connection] <= Hash[o]
            /\ Steady(name.session)' =>
                   \A c \in ChildrenOf(name'.session, "connection") :
                       Steady(c)' => \/ Ahead1(inner', c)
                                     \/ /\ name'.connection # None
                                        /\ Hash[c] <= Hash[name'.connection]
    <3> SUFFICES ASSUME pc = "connections"
                 PROVE  name'.connection # None =>
                            /\ Hash[name'.connection] <= inner'.cursor
                            /\ \A o \in inner'.buf : Hash[name'.connection] <= Hash[o]
      OBVIOUS
    <3>1. /\ inner.cursor \in Nat /\ inner'.cursor \in Nat
          /\ inner.buf \subseteq Object /\ inner'.buf \subseteq Object
      BY TypeStep DEF TypeInv, TypeOK, Next, Streams
    <3>2. name.connection # None => Hash[name.connection] \in Nat
      BY HashAssumption DEF Children
    <3> QED BY <3>1, <3>2, HashAssumption
  <2> QED BY <2>1, <2>2, <2>3, <2>4 DEF ConnectionKnown, SessionKnown, ConnectionUnknown
<1>3. CASE ReadAhead
  <2>1. CASE pc \notin {"sessions", "connections"}
    BY <1>3, <2>1, QuietSearchStep
  <2>2. CASE pc \in {"sessions", "connections"}
    <3>1. PICK o : IsFirst(o, Ahead(inner)) /\ inner' = Fetched(inner, o)
      BY <1>3, <2>2 DEF ReadAhead, OnOuter
    <3>2. inner.cursor \in Nat /\ Hash[o] \in Nat /\ o \in Object
      BY <1>0, <3>1, FetchedOK, HashAssumption DEF Streams, SearchInv
    <3>3. /\ inner'.dir = inner.dir
          /\ inner'.cursor >= inner.cursor
          /\ \A p \in inner'.buf : p \in inner.buf \/ Hash[p] >= inner.cursor
          /\ \A c \in Children(inner.dir) :
                 Steady(inner.dir) /\ Steady(c) /\ Ahead1(inner, c) => Ahead1(inner', c)
      BY <1>0, <3>1, <3>2, FetchedOK DEF SearchInv
    <3> QED BY <1>2, <1>3, <2>2, <3>3 DEF ReadAhead
  <2> QED BY <2>1, <2>2
<1>4. CASE OpenDevice
  <2>0. name' = name /\ pc = "device" /\ name.session = None /\ name.connection = None
    BY <1>4 DEF OpenDevice, At, SearchInv, ConnectionUnknown
  <2>1. CASE OpenInner(name.host) /\ pc' = "sessions"
    <3>1. inner' = Opened(name.host) /\ Exists(name.host)
      BY <2>1 DEF OpenInner
    <3>2. inner'.dir = name.host /\ \A c \in Object : Ahead1(inner', c)
      BY <1>0, <3>1, OpenedOK
    <3> QED BY <1>0, <2>0, <2>1, <3>2
       DEF SearchInv, Chain, ConnectionUnknown, SessionKnown, ConnectionKnown,
           ChildrenOf, Children
  <2>2. CASE OpenFails(name.host) /\ SessionFilled
    <3>1. pc' \in {"openconn", "opensession"}
      BY <2>2 DEF SessionFilled
    <3>2. ~Steady(name.host) \/ name.host \in lost'
      BY <1>0, <2>2, NamesAssumption DEF OpenFails, Steady, KernelTypeOK, None
    <3>3. FirstSession(name)'
      BY <1>0, <2>0, <3>2 DEF FirstSession
    <3> QED BY <1>0, <2>0, <3>1, <3>3
       DEF SearchInv, Chain, ConnectionUnknown, SessionKnown, ConnectionKnown
  <2> QED BY <1>4, <2>1, <2>2 DEF OpenDevice
<1>5. CASE TakeSession
  <2>0. PICK o \in inner.buf :
           /\ NextInner(o)
           /\ IF Kind[o] = "session"
                THEN name' = [name EXCEPT !.session = o] /\ SessionFilled
                ELSE name' = name /\ pc' = pc
    BY <1>5 DEF TakeSession
  <2>1. /\ pc = "sessions" /\ lost' = lost /\ inner.dir = name.host
        /\ name.session = None /\ name.connection = None
    BY <1>5 DEF TakeSession, At, SearchInv, ConnectionUnknown
  <2>2. /\ o \in Children(inner.dir) /\ o \in Object /\ inner' = Taken(inner, o)
        /\ inner'.dir = inner.dir /\ inner'.buf = inner.buf \ {o}
        /\ inner'.cursor = inner.cursor
        /\ \A c \in Object : Ahead1(inner, c) => /\ Hash[o] <= Hash[c]
                                                /\ (c # o => Ahead1(inner', c))
    BY <1>0, <2>0, TakenOK DEF NextInner, SearchInv
  <2>3. CASE Kind[o] = "session"
    <3>1. /\ name'.session = o /\ name'.host = name.host /\ name'.connection = None
          /\ pc' \in {"openconn", "opensession"}
      BY <1>0, <2>0, <2>1, <2>3, NamesKept DEF SessionFilled
    <3>2. FirstSession(name')
      BY <2>1, <2>2, <3>1, NamesAssumption
         DEF FirstSession, SearchInv, ChildrenOf, Children, None
    <3>3. FirstSession(name)'
      BY <1>0, <2>1, <3>2 DEF FirstSession
    <3>4. Chain'
      BY <2>1, <2>2, <2>3, <3>1 DEF Chain, ChildrenOf
    <3> QED BY <1>0, <3>1, <3>3, <3>4
       DEF SearchInv, ConnectionUnknown, SessionKnown, ConnectionKnown
  <2>4. CASE Kind[o] # "session"
    <3>1. \A c \in Children(inner.dir) : Kind[c] = "session" /\ Ahead1(inner, c) => Ahead1(inner', c)
      BY <2>2, <2>4 DEF Children
    <3>2. inner'.cursor >= inner.cursor
      BY <1>0, <2>2 DEF Streams
    <3> QED BY <1>2, <2>0, <2>1, <2>2, <2>4, <3>1, <3>2
  <2> QED BY <2>3, <2>4
<1>6. CASE EndSessions
  <2>1. /\ pc = "sessions" /\ lost' = lost /\ inner' = inner /\ name' = name
        /\ AtEnd(inner) /\ pc' \in {"openconn", "opensession"}
    BY <1>6 DEF EndSessions, EndInner, At, SessionFilled
  <2>2. FirstSession(name)'
    BY <1>0, <2>1, AtEndNothing DEF FirstSession, SearchInv, ChildrenOf
  <2> QED BY <1>0, <2>1, <2>2
     DEF SearchInv, Chain, ConnectionUnknown, SessionKnown, ConnectionKnown
<1>7. CASE OpenConnections
  <2>0. /\ name' = name /\ pc = "openconn" /\ name.connection = None
        /\ FirstSession(name)
    BY <1>7 DEF OpenConnections, At, SearchInv, ConnectionUnknown, SessionKnown
  <2>00. FirstSession(name)'
    BY <1>0, <2>0 DEF FirstSession
  <2>1. CASE OpenInner(name.session) /\ pc' = "connections"
    <3>1. inner' = Opened(name.session) /\ Exists(name.session)
      BY <2>1 DEF OpenInner
    <3>2. inner'.dir = name.session /\ \A c \in Object : Ahead1(inner', c)
      BY <1>0, <3>1, OpenedOK
    <3>3. name.session # None
      BY <1>0, <3>1, NamesAssumption DEF Exists, KernelTypeOK, None
    <3> QED BY <1>0, <2>0, <2>00, <2>1, <3>2, <3>3
       DEF SearchInv, Chain, ConnectionUnknown, SessionKnown, ConnectionKnown,
           ChildrenOf, Children
  <2>2. CASE OpenFails(name.session) /\ pc' = After
    <3>1. pc' \in {"info", "print"}
      BY <2>2 DEF After
    <3>2. ~Steady(name.session) \/ name.session \in lost'
      BY <1>0, <2>2, NamesAssumption DEF OpenFails, Steady, KernelTypeOK, None
    <3>3. LastConnection(name)'
      BY <1>0, <2>0, <3>2 DEF LastConnection
    <3> QED BY <1>0, <2>0, <2>00, <3>1, <3>3
       DEF SearchInv, Chain, ConnectionUnknown, SessionKnown, ConnectionKnown
  <2> QED BY <1>7, <2>1, <2>2 DEF OpenConnections
<1>8. CASE TakeConnection
  <2>0. PICK o \in inner.buf :
           /\ NextInner(o)
           /\ name' = IF Kind[o] = "connection" THEN [name EXCEPT !.connection = o] ELSE name
    BY <1>8 DEF TakeConnection
  <2>1. /\ pc = "connections" /\ pc' = pc /\ lost' = lost
        /\ inner.dir = name.session /\ name.session # None /\ FirstSession(name)
    BY <1>8 DEF TakeConnection, At, SearchInv, SessionKnown
  <2>2. /\ o \in Children(inner.dir) /\ o \in Object /\ inner' = Taken(inner, o)
        /\ inner'.dir = inner.dir /\ inner'.buf = inner.buf \ {o}
        /\ inner'.cursor = inner.cursor /\ Hash[o] <= inner.cursor
        /\ \A p \in inner.buf : Hash[o] <= Hash[p]
        /\ \A c \in Object : Ahead1(inner, c) => /\ Hash[o] <= Hash[c]
                                                /\ (c # o => Ahead1(inner', c))
    BY <1>0, <2>0, TakenOK DEF NextInner, SearchInv
  <2>3. CASE Kind[o] = "connection"
    <3>1. /\ name'.connection = o /\ name'.host = name.host /\ name'.session = name.session
          /\ o # None
      BY <1>0, <2>0, <2>2, <2>3, NamesKept, NamesAssumption DEF None
    <3>2. FirstSession(name)'
      BY <1>0, <2>1, <3>1 DEF FirstSession
    <3>3. Chain'
      BY <2>1, <2>2, <2>3, <3>1 DEF Chain, ChildrenOf, SearchInv
    <3>4. ASSUME Steady(name.session), NEW c \in ChildrenOf(name.session, "connection"),
                 Steady(c)
          PROVE  Ahead1(inner', c) \/ Hash[c] <= Hash[o]
      <4>0. c \in Object /\ Hash[c] \in Nat /\ Hash[o] \in Nat
        BY <2>2, HashAssumption DEF ChildrenOf, Children
      <4>1. CASE Ahead1(inner, c)
        BY <2>2, <4>0, <4>1
      <4>2. CASE name.connection # None /\ Hash[c] <= Hash[name.connection]
        <5>1. Hash[name.connection] <= Hash[o]
          BY <2>1, <4>2 DEF SearchInv
        <5>2. Hash[name.connection] \in Nat
          BY <4>2, HashAssumption DEF SearchInv, Chain, ChildrenOf, Children
        <5> QED BY <4>0, <4>2, <5>1, <5>2
      <4> QED BY <2>1, <3>4, <4>1, <4>2 DEF SearchInv
    <3>5. \A c : Ahead1(inner, c)' <=> Ahead1(inner', c)
      BY DEF Ahead1
    <3> QED BY <1>0, <2>1, <2>2, <3>1, <3>2, <3>3, <3>4, <3>5
       DEF SearchInv, ConnectionUnknown, SessionKnown, ConnectionKnown
  <2>4. CASE Kind[o] # "connection"
    <3>1. \A c \in Children(inner.dir) :
              Kind[c] = "connection" /\ Ahead1(inner, c) => Ahead1(inner', c)
      BY <2>2, <2>4 DEF Children
    <3>2. inner'.cursor >= inner.cursor
      BY <1>0, <2>2 DEF Streams
    <3> QED BY <1>2, <2>0, <2>1, <2>2, <2>4, <3>1, <3>2
  <2> QED BY <2>3, <2>4
<1>9. CASE EndConnections
  <2>1. /\ pc = "connections" /\ lost' = lost /\ inner' = inner /\ name' = name
        /\ AtEnd(inner) /\ pc' \in {"info", "print"}
    BY <1>9 DEF EndConnections, EndInner, At, After
  <2>2. LastConnection(name)'
    BY <1>0, <2>1, AtEndNothing DEF LastConnection, SearchInv, ChildrenOf
  <2>3. FirstSession(name)'
    BY <1>0, <2>1 DEF FirstSession, SearchInv, SessionKnown
  <2> QED BY <1>0, <2>1, <2>2, <2>3
     DEF SearchInv, Chain, ConnectionUnknown, SessionKnown, ConnectionKnown
<1> QED
  BY <1>1, <1>3, <1>4, <1>5, <1>6, <1>7, <1>8, <1>9, QuietSearchStep DEF Process

-----------------------------------------------------------------------------
(* The values. *)

LEMMA GoodKept ==
    ASSUME \A o : Steady(o)' => Steady(o) /\ gen'[o] = gen[o]
    PROVE  \A of, file :
               Good(of, file) /\ name'[of] = name[of] /\ val'[of][file] = val[of][file]
               => Good(of, file)'
BY DEF Good

\* A file that has just been read is no longer to be read, and good.
LEMMA ReadFileGood ==
    ASSUME TypeInv, ReadFile, UNCHANGED kernel,
           NEW k, NEW f, k = Head(todo).of, f = Head(todo).file
    PROVE  /\ \A k1 \in Read, g \in Attributes : Good(k1, g) => Good(k1, g)'
           /\ Good(k, f)'
<1>1. Head(todo) \in Files
  BY TableElements DEF ReadFile, TypeInv, TypeOK
<1>2. k \in Read /\ f \in Attributes
  BY <1>1 DEF Files
<1>3. val \in Values /\ name' = name /\ gen' = gen
  BY DEF ReadFile, TypeInv, TypeOK, kernel
<1> DEFINE v == IF Readable(name[k], f) THEN gen[name[k]] ELSE Missing
<1>4. val' = [val EXCEPT ![k][f] = v]
  BY DEF ReadFile
<1>5. \A o : Steady(o)' <=> Steady(o)
  BY DEF Steady, kernel
<1>6. v = IF Readable(name[k], f) THEN gen[name[k]] ELSE Missing
  OBVIOUS
<1> HIDE DEF v
<1>7. \A k1 \in Read, g \in Attributes : k1 # k \/ g # f => val'[k1][g] = val[k1][g]
  BY <1>2, <1>3, <1>4 DEF Values
<1>8. val'[k][f] = v
  BY <1>2, <1>3, <1>4 DEF Values
<1>9. Good(k, f)'
  BY <1>3, <1>5, <1>6, <1>8 DEF Good, Readable, Steady
<1>10. ASSUME NEW k1 \in Read, NEW g \in Attributes, Good(k1, g)
       PROVE  Good(k1, g)'
  <2>1. CASE k1 = k /\ g = f
    BY <1>9, <2>1
  <2>2. CASE k1 # k \/ g # f
    BY <1>3, <1>5, <1>7, <1>10, <2>2 DEF Good
  <2> QED BY <2>1, <2>2
<1> QED BY <1>9, <1>10

LEMMA ReadFileTable ==
    ASSUME TypeInv, ReadFile, UNCHANGED kernel, NEW t \in Table, GoodBut(t)
    PROVE  GoodBut(t)'
<1>1. /\ todo \in Table /\ todo # <<>> /\ todo' = Tail(todo)
  BY DEF TypeInv, TypeOK, ReadFile
<1> SUFFICES ASSUME NEW i \in DOMAIN t
             PROVE  \/ Good(t[i].of, t[i].file)'
                    \/ \E j \in DOMAIN todo' : todo'[j] = t[i]
  BY DEF GoodBut
<1>2. t[i].of \in Read /\ t[i].file \in Attributes
  BY TableElements DEF Files
<1>3. CASE Good(t[i].of, t[i].file)
  BY <1>2, <1>3, ReadFileGood
<1>4. CASE \E j \in DOMAIN todo : todo[j] = t[i]
  <2>1. PICK j \in DOMAIN todo : todo[j] = t[i]
    BY <1>4
  <2>2. CASE j = 1
    <3>1. Head(todo) = t[i]
      BY <1>1, <2>1, <2>2, TableElements
    <3> QED BY <3>1, ReadFileGood
  <2>3. CASE j # 1
    <3>1. j \in 2..Len(todo)
      BY <1>1, <2>1, <2>3, TableElements
    <3>2. todo'[j - 1] = t[i] /\ j - 1 \in DOMAIN todo'
      BY <1>1, <2>1, <3>1, TableElements
    <3> QED BY <3>2
  <2> QED BY <2>2, <2>3
<1> QED BY <1>3, <1>4 DEF GoodBut

\* The steps after which none of the tables matters.
LEMMA NoValues ==
    ASSUME pc' \notin {"opensession", "type", "entry", "disk", "info", "print"}
    PROVE  ValueInv'
BY DEF ValueInv

LEMMA TableStarted ==
    \A t : todo' = t => GoodBut(t)'
BY DEF GoodBut

LEMMA TableRead ==
    ASSUME todo = <<>>, NEW t, GoodBut(t)
    PROVE  \A i \in DOMAIN t : Good(t[i].of, t[i].file)
<1>1. DOMAIN todo = {}
  OBVIOUS
<1> QED BY <1>1 DEF GoodBut

LEMMA ValueKernelStep ==
    ASSUME TypeInv, ValueInv, Kernel \/ UNCHANGED vars
    PROVE  ValueInv'
<1>1. KernelTypeOK /\ (Hotplug \/ UNCHANGED kernel) /\ UNCHANGED proc
  BY DEF TypeInv, TypeOK, Kernel, vars
<1>2. \A of, file : Good(of, file) => Good(of, file)'
  BY <1>1, SteadyKept, GoodKept DEF proc
<1>3. \A t : GoodBut(t) => GoodBut(t)'
  BY <1>1, <1>2 DEF GoodBut, proc
<1> QED BY <1>1, <1>2, <1>3 DEF ValueInv, proc

LEMMA ValueStep ==
    ASSUME TypeInv, SearchInv, ValueInv, Process
    PROVE  ValueInv'
<1>0. UNCHANGED kernel /\ KernelTypeOK /\ name \in Names /\ val \in Values
      /\ call.op \in {"list", "show"}
  BY CallType DEF Process, TypeInv, TypeOK
<1>00. \A of, file :
           Good(of, file) /\ name'[of] = name[of] /\ val' = val => Good(of, file)'
  BY <1>0, GoodKept DEF Steady, kernel
<1>1. CASE ReadFile
  <2>1. \A t \in Table : GoodBut(t) => GoodBut(t)'
    BY <1>0, <1>1, ReadFileTable
  <2>2. "lun" \in Read /\ "type" \in Attributes
    BY FilesAssumption DEF Read
  <2>3. Good("lun", "type") => Good("lun", "type")'
    BY <1>0, <1>1, <2>2, ReadFileGood
  <2>4. name' = name /\ pc' = pc /\ lost' = lost /\ call' = call
    BY <1>1 DEF ReadFile
  <2> QED BY <2>1, <2>3, <2>4, TablesType DEF ValueInv, TypeFile, StateFile
<1>2. CASE OpenDevice \/ TakeSession \/ EndSessions
  <2>1. CASE SessionFilled
    <3>1. call' = call
      BY <1>2 DEF OpenDevice, TakeSession, EndSessions
    <3> QED BY <1>0, <2>1, <3>1, TableStarted DEF SessionFilled, ValueInv
  <2>2. CASE pc' = "sessions"
    BY <2>2, NoValues
  <2> QED BY <1>2, <2>1, <2>2 DEF OpenDevice, TakeSession, EndSessions, At
<1>3. CASE TakeLun
  <2>1. pc' = "type" /\ todo' = TypeFile
    BY <1>3 DEF TakeLun, TypeFile
  <2> QED BY <2>1, TableStarted DEF ValueInv
<1>4. CASE CheckType
  <2>1. pc = "type" /\ todo = <<>> /\ pc' \in {"entry", "luns"} /\ name' = name /\ val' = val
    BY <1>4 DEF CheckType, At
  <2>2. Good("lun", "type")
    <3>1. \A i \in DOMAIN TypeFile : Good(TypeFile[i].of, TypeFile[i].file)
      BY <2>1, TableRead DEF ValueInv
    <3> QED BY <3>1 DEF TypeFile
  <2> QED BY <1>00, <2>1, <2>2 DEF ValueInv
<1>5. CASE GetDeviceEntry
  <2>1. pc = "entry" /\ pc' = "disk" /\ todo' = StateFile /\ name' = name /\ val' = val
    BY <1>5 DEF GetDeviceEntry, At, StateFile
  <2> QED BY <1>00, <2>1, TableStarted DEF ValueInv
<1>6. CASE OpenConnections
  <2>0. name' = name /\ call' = call /\ pc = "openconn"
    BY <1>6 DEF OpenConnections, At
  <2>1. CASE pc' = "connections"
    BY <2>1, NoValues
  <2>2. CASE OpenFails(name.session) /\ pc' = After
    <3>1. name.connection = None
      BY <2>0 DEF SearchInv, ConnectionUnknown, SessionKnown
    <3>2. name.session \notin lost' => name.session = None
      BY <2>2 DEF OpenFails
    <3>3. \A file : name'.session \notin lost' =>
              Good("connection", file)' /\ Good("session", file)'
      BY <1>0, <2>0, <3>1, <3>2, NamesAssumption DEF Good, Steady, None, KernelTypeOK, kernel
    <3>4. \A i \in DOMAIN FillFiles : FillFiles[i].of \in {"session", "connection"}
      BY FilesAssumption, TableElements DEF Files, Read
    <3>5. name'.session \notin lost' => GoodBut(FillFiles)'
      BY <3>3, <3>4 DEF GoodBut
    <3>6. pc' = IF call.op = "list" THEN "print" ELSE "info"
      BY <2>2 DEF After
    <3> QED BY <1>0, <2>0, <3>5, <3>6 DEF ValueInv
  <2> QED BY <1>6, <2>1, <2>2 DEF OpenConnections
<1>7. CASE EndConnections
  <2>1. call' = call /\ todo' = FillFiles /\ pc' = IF call.op = "list" THEN "print" ELSE "info"
    BY <1>7 DEF EndConnections, After
  <2> QED BY <1>0, <2>1, TableStarted DEF ValueInv
<1>8. CASE GetConnectionInfo
  <2>1. /\ pc = "info" /\ todo = <<>> /\ pc' = "print" /\ todo' = ConnectionFiles
        /\ name' = name /\ val' = val /\ lost' = lost /\ call' = call
    BY <1>8 DEF GetConnectionInfo, At
  <2>2. name.session \notin lost => \A i \in DOMAIN FillFiles : Good(FillFiles[i].of, FillFiles[i].file)
    BY <2>1, TableRead DEF ValueInv
  <2>3. name'.session \notin lost' => GoodBut(FillFiles)'
    BY <1>00, <2>1, <2>2 DEF GoodBut
  <2> QED BY <2>1, <2>3, TableStarted DEF ValueInv
<1>9. CASE ReadCrashes \/ EntryCrashes
  BY <1>9, NoValues DEF ReadCrashes, EntryCrashes, Die
<1>10. CASE ReadAhead
  BY <1>10, NoValues DEF ReadAhead, OnOuter, OnInner
<1>11. CASE Scan \/ CountHost \/ EndScan \/ OpenHosts \/ TakeHost \/ AllocFails \/ EndHosts \/ Alloc
  BY <1>11, NoValues
     DEF Scan, CountHost, EndScan, OpenHosts, TakeHost, AllocFails, EndHosts, Alloc, At,
         EndOuter, Return
<1>12. CASE OpenSession \/ FindTarget \/ NoTarget \/ OpenTargets \/ TakeTarget \/ EndTargets \/ OpenLuns
  BY <1>12, NoValues
     DEF OpenSession, FindTarget, NoTarget, OpenTargets, TakeTarget, EndTargets, OpenLuns,
         At, EndOuter
<1>13. CASE PrintLun \/ EndLuns \/ TakeConnection \/ PrintRow
  BY <1>13, NoValues DEF PrintLun, EndLuns, TakeConnection, PrintRow, At, EndInner, Return
<1> QED
  BY <1>1, <1>2, <1>3, <1>4, <1>5, <1>6, <1>7, <1>8, <1>9, <1>10, <1>11, <1>12, <1>13
     DEF Process

-----------------------------------------------------------------------------
(* The rows. *)

Fits(row) == NamesFit(row) /\ ValuesFit(row)

LEMMA RowKept ==
    ASSUME \A o : Steady(o)' => Steady(o) /\ gen'[o] = gen[o], lost \subseteq lost'
    PROVE  \A row : Fits(row) => Fits(row)'
<1>1. \A row : NamesFit(row) => NamesFit(row)'
  BY DEF NamesFit
<1>2. ASSUME NEW row, ValuesFit(row)
      PROVE  ValuesFit(row)'
  <2>1. ASSUME NEW of, Steady(row.name[of])', row.name.session \notin lost'
        PROVE  /\ Steady(row.name[of]) /\ row.name.session \notin lost
               /\ gen'[row.name[of]] = gen[row.name[of]]
    BY <2>1
  <2> QED BY <1>2, <2>1 DEF ValuesFit
<1> QED BY <1>1, <1>2 DEF Fits

LEMMA RowsKept ==
    ASSUME \A o : Steady(o)' => Steady(o) /\ gen'[o] = gen[o], lost \subseteq lost',
           RowsTrue, rows' = rows
    PROVE  RowsTrue'
<1>1. \A i \in DOMAIN rows : Fits(rows[i])
  BY DEF RowsTrue, Fits
<1>2. ASSUME NEW i \in DOMAIN rows', NEW row, row = rows'[i]
      PROVE  Fits(row)'
  BY <1>1, <1>2, RowKept
<1>3. ASSUME NEW i \in DOMAIN rows'
      PROVE  NamesFit(rows[i])' /\ ValuesFit(rows[i])'
  <2>1. PICK row : row = rows'[i] /\ NamesFit(row)' /\ ValuesFit(row)'
    BY <1>2 DEF Fits
  <2>2. NamesFit(rows[i])'
    BY <2>1 DEF NamesFit
  <2>3. ValuesFit(rows[i])'
    BY <2>1 DEF ValuesFit
  <2> QED BY <2>2, <2>3
<1> QED BY <1>3 DEF RowsTrue

LEMMA RowAdded ==
    ASSUME \A o : Steady(o)' => Steady(o) /\ gen'[o] = gen[o], lost \subseteq lost',
           RowsTrue, rows \in Seq(Rows), NEW r \in Rows, Fits(r), rows' = Append(rows, r)
    PROVE  RowsTrue'
<1>1. \A i \in DOMAIN rows : Fits(rows[i])
  BY DEF RowsTrue, Fits
<1>2. ASSUME NEW i \in DOMAIN rows', NEW row, row = rows'[i]
      PROVE  Fits(row)'
  <2>1. /\ DOMAIN rows' = 1..(Len(rows) + 1) /\ DOMAIN rows = 1..Len(rows)
        /\ Len(rows) \in Nat
        /\ \A j \in 1..Len(rows) : rows'[j] = rows[j]
        /\ rows'[Len(rows) + 1] = r
    BY AppendProperties, LenProperties
  <2>2. Fits(row)
    BY <1>1, <1>2, <2>1
  <2> QED BY <2>2, RowKept
<1>3. ASSUME NEW i \in DOMAIN rows'
      PROVE  NamesFit(rows[i])' /\ ValuesFit(rows[i])'
  <2>1. PICK row : row = rows'[i] /\ NamesFit(row)' /\ ValuesFit(row)'
    BY <1>2 DEF Fits
  <2>2. NamesFit(rows[i])'
    BY <2>1 DEF NamesFit
  <2>3. ValuesFit(rows[i])'
    BY <2>1 DEF ValuesFit
  <2> QED BY <2>2, <2>3
<1> QED BY <1>3 DEF RowsTrue

\* The files of a row have been read, all of them.
LEMMA ScriptGood ==
    ASSUME NEW of \in Things, NEW r, r = Row(of),
           name.session \notin lost =>
               \A i \in DOMAIN Script(r) : Good(Script(r)[i].of, Script(r)[i].file)
    PROVE  ValuesFit(r)
BY DEF ValuesFit, Good, Row

LEMMA NewRowFits ==
    ASSUME TypeInv, SearchInv, ValueInv, todo = <<>>, NEW of, NEW r, r = Row(of),
           \/ of = "lun" /\ pc = "disk"
           \/ of = "session" /\ pc = "opensession"
           \/ of = "host" /\ pc = "print"
           \/ of = "connection" /\ pc = "print" /\ call.op = "show"
    PROVE  r \in Rows /\ Fits(r)
<1>1. of \in Things /\ r.of = of /\ r.name = name
  BY DEF Things, Row
<1>2. r \in Rows
  BY <1>1 DEF Row, Rows, TypeInv, TypeOK
<1>3. NamesFit(r)
  <2>1. Chain /\ FirstSession(name)
    BY DEF SearchInv, SessionKnown
  <2>2. of \in {"host", "connection"} => LastConnection(name)
    BY DEF SearchInv, ConnectionKnown
  <2> QED BY <1>1, <2>1, <2>2 DEF NamesFit, Chain, FirstSession, LastConnection
<1>4. CASE of = "lun"
  <2>1. Script(r) = <<[of |-> "lun", file |-> "type", how |-> "format"],
                      [of |-> "lun", file |-> "state", how |-> "format"]>>
    BY <1>1, <1>4 DEF Script
  <2>2. Good("lun", "type") /\ GoodBut(StateFile)
    BY <1>4 DEF ValueInv
  <2>3. \A i \in DOMAIN StateFile : Good(StateFile[i].of, StateFile[i].file)
    BY <2>2, TableRead
  <2>4. Good("lun", "state")
    BY <2>3 DEF StateFile
  <2>5. \A i \in DOMAIN Script(r) : Good(Script(r)[i].of, Script(r)[i].file)
    BY <2>1, <2>2, <2>4
  <2> QED BY <1>1, <1>2, <1>3, <2>5, ScriptGood DEF Fits
<1>5. CASE of = "session"
  <2>1. Script(r) = SessionFiles
    BY <1>1, <1>5 DEF Script
  <2>2. \A i \in DOMAIN SessionFiles : Good(SessionFiles[i].of, SessionFiles[i].file)
    BY <1>5, TableRead DEF ValueInv
  <2> QED BY <1>1, <1>2, <1>3, <2>1, <2>2, ScriptGood DEF Fits
<1>6. pc = "print" /\ name.session \notin lost =>
          \A i \in DOMAIN FillFiles : Good(FillFiles[i].of, FillFiles[i].file)
  BY TableRead DEF ValueInv
<1>7. CASE of = "host"
  <2>1. Script(r) = FillFiles
    BY <1>1, <1>7 DEF Script
  <2> QED BY <1>1, <1>2, <1>3, <1>6, <1>7, <2>1, ScriptGood DEF Fits
<1>8. CASE of = "connection"
  <2>1. Script(r) = FillFiles \o ConnectionFiles
    BY <1>1, <1>8 DEF Script
  <2>2. \A i \in DOMAIN ConnectionFiles :
            Good(ConnectionFiles[i].of, ConnectionFiles[i].file)
    BY <1>8, TableRead DEF ValueInv
  <2>3. ASSUME NEW i \in DOMAIN Script(r)
        PROVE  \/ \E j \in DOMAIN FillFiles : Script(r)[i] = FillFiles[j]
               \/ \E j \in DOMAIN ConnectionFiles : Script(r)[i] = ConnectionFiles[j]
    <3>1. FillFiles \in Seq(Files) /\ ConnectionFiles \in Seq(Files)
      BY TablesType DEF Table
    <3>2. /\ Len(FillFiles) \in Nat /\ DOMAIN FillFiles = 1..Len(FillFiles)
          /\ Len(ConnectionFiles) \in Nat /\ DOMAIN ConnectionFiles = 1..Len(ConnectionFiles)
      BY <3>1, LenProperties
    <3>3. /\ Script(r) \in Seq(Files)
          /\ Len(Script(r)) = Len(FillFiles) + Len(ConnectionFiles)
          /\ \A k \in 1..(Len(FillFiles) + Len(ConnectionFiles)) :
                 Script(r)[k] = IF k <= Len(FillFiles) THEN FillFiles[k]
                                ELSE ConnectionFiles[k - Len(FillFiles)]
      BY <2>1, <3>1, ConcatProperties
    <3>4. DOMAIN Script(r) = 1..(Len(FillFiles) + Len(ConnectionFiles))
      BY <3>3, LenProperties
    <3>5. CASE i <= Len(FillFiles)
      <4>1. i \in DOMAIN FillFiles /\ Script(r)[i] = FillFiles[i]
        BY <3>2, <3>3, <3>4, <3>5
      <4> QED BY <4>1
    <3>6. CASE ~(i <= Len(FillFiles))
      <4>1. /\ i - Len(FillFiles) \in DOMAIN ConnectionFiles
            /\ Script(r)[i] = ConnectionFiles[i - Len(FillFiles)]
        BY <3>2, <3>3, <3>4, <3>6
      <4> QED BY <4>1
    <3> QED BY <3>5, <3>6
  <2>4. name.session \notin lost =>
            \A i \in DOMAIN Script(r) : Good(Script(r)[i].of, Script(r)[i].file)
    BY <1>6, <1>8, <2>2, <2>3
  <2> QED BY <1>1, <1>2, <1>3, <2>4, ScriptGood DEF Fits
<1> QED BY <1>4, <1>5, <1>7, <1>8

LEMMA RowStep ==
    ASSUME TypeInv, SearchInv, ValueInv, RowsTrue, Process
    PROVE  RowsTrue'
<1>1. /\ \A o : Steady(o)' => Steady(o) /\ gen'[o] = gen[o]
      /\ lost \subseteq lost' /\ rows \in Seq(Rows)
  BY ProcessStreams DEF Process, kernel, Steady, TypeInv, TypeOK
<1>2. CASE PrintLun
  <2>1. rows' = Append(rows, Row("lun")) /\ todo = <<>> /\ pc = "disk"
    BY <1>2 DEF PrintLun, At
  <2> QED BY <1>1, <2>1, NewRowFits, RowAdded
<1>3. CASE OpenSession
  <2>1. \/ rows' = rows
        \/ rows' = Append(rows, Row("session")) /\ todo = <<>> /\ pc = "opensession"
    BY <1>3 DEF OpenSession, At
  <2> QED BY <1>1, <2>1, NewRowFits, RowAdded, RowsKept
<1>4. CASE PrintRow
  <2>1. /\ todo = <<>> /\ pc = "print" /\ call.op \in {"list", "show"}
        /\ \/ rows' = Append(rows, Row("host"))
           \/ rows' = Append(rows, Row("connection")) /\ call.op = "show"
    BY <1>4, CallType DEF PrintRow, At, TypeInv, TypeOK
  <2> QED BY <1>1, <2>1, NewRowFits, RowAdded
<1>5. CASE ~(PrintLun \/ OpenSession \/ PrintRow)
  <2>1. rows' = rows
    BY <1>5 DEF Process, ReadFile, ReadCrashes, ReadAhead, Scan, CountHost, EndScan,
         OpenHosts, TakeHost, AllocFails, EndHosts, Alloc, OpenDevice, TakeSession,
         EndSessions, FindTarget, NoTarget, OpenTargets, TakeTarget, EndTargets, OpenLuns,
         TakeLun, CheckType, GetDeviceEntry, EntryCrashes, EndLuns,
         OpenConnections, TakeConnection, EndConnections, GetConnectionInfo
  <2> QED BY <1>1, <2>1, RowsKept
<1> QED BY <1>2, <1>3, <1>4, <1>5

-----------------------------------------------------------------------------
(* The crashes. *)

LEMMA CrashStep ==
    ASSUME TypeInv, CrashNeedsLogout, Process
    PROVE  CrashNeedsLogout'
<1>1. UNCHANGED kernel
  BY DEF Process
<1>2. CASE ReadCrashes
  BY <1>1, <1>2 DEF ReadCrashes, Die, Readable, Steady, kernel, CrashNeedsLogout
<1>3. CASE EntryCrashes
  BY <1>3 DEF EntryCrashes, Die, CrashNeedsLogout
<1>4. CASE ~(ReadCrashes \/ EntryCrashes)
  <2>1. pc' # "crashed"
    BY <1>4 DEF Process, ReadFile, ReadAhead, Scan, CountHost, EndScan,
         OpenHosts, TakeHost, AllocFails, EndHosts, Alloc, OpenDevice, TakeSession,
         EndSessions, OpenSession, FindTarget, NoTarget, OpenTargets, TakeTarget,
         EndTargets, OpenLuns, TakeLun, CheckType, GetDeviceEntry, PrintLun, EndLuns,
         OpenConnections, TakeConnection, EndConnections, GetConnectionInfo, PrintRow,
         At, EndOuter, EndInner, Return, SessionFilled, After, Ended, OnOuter, OnInner
  <2> QED BY <2>1 DEF CrashNeedsLogout
<1> QED BY <1>2, <1>3, <1>4

-----------------------------------------------------------------------------
(* Put together. *)

LEMMA InitInv == Init => Inv
<1> SUFFICES ASSUME Init PROVE Inv
  OBVIOUS
<1>1. TypeInv
  BY InitType
<1>2. KernelTypeOK /\ Exists(Root) /\ outer = Opened(Root) /\ inner = Opened(Root)
  BY <1>1 DEF Init, TypeInv, TypeOK, Exists
<1>3. pc \in {"scan", "alloc"} /\ name.session = None /\ name.connection = None
  BY DEF Init, NoNames
<1>4. SearchInv
  BY <1>2, <1>3, OpenedOK
     DEF SearchInv, Chain, ConnectionUnknown, SessionKnown, ConnectionKnown
<1>5. ValueInv /\ CrashNeedsLogout
  BY <1>3 DEF ValueInv, CrashNeedsLogout
<1>6. RowsTrue
  BY DEF Init, RowsTrue
<1> QED BY <1>1, <1>4, <1>5, <1>6 DEF Inv

LEMMA InvStep == Inv /\ [Next]_vars => Inv'
<1> SUFFICES ASSUME Inv, [Next]_vars PROVE Inv'
  OBVIOUS
<1> USE DEF Inv
<1>1. TypeInv'
  BY TypeStep
<1>2. CASE Process
  BY <1>1, <1>2, SearchStep, ValueStep, RowStep, CrashStep
<1>3. CASE Kernel \/ UNCHANGED vars
  <2>1. /\ KernelTypeOK /\ (Hotplug \/ UNCHANGED kernel) /\ UNCHANGED proc
    BY <1>3 DEF TypeInv, TypeOK, Kernel, vars
  <2>2. \A o : Steady(o)' => Steady(o) /\ gen'[o] = gen[o]
    BY <2>1, SteadyKept
  <2>3. RowsTrue'
    BY <2>1, <2>2, RowsKept DEF proc
  <2>4. CrashNeedsLogout'
    BY <2>1, <2>2 DEF proc, CrashNeedsLogout
  <2> QED BY <1>1, <1>3, <2>3, <2>4, SearchKernelStep, ValueKernelStep
<1> QED BY <1>2, <1>3 DEF Next, Finished

THEOREM Invariant == Spec => []Inv
BY InitInv, InvStep, PTL DEF Spec

\* `show iscsi' and `list iscsi' never put together what does not belong
\* together: below what stays, the session is the first, the connection the last
\* of that session, and every value is that of the object named.
THEOREM RowsAreTrue == Spec => []RowsTrue
BY Invariant, PTL DEF Inv

\* strtol() and strtoull() are given NULL only for what logged out meanwhile,
\* was never there, or has no such file.
THEOREM CrashHasReason == Spec => []CrashNeedsLogout
BY Invariant, PTL DEF Inv

=============================================================================
