--------------------------- MODULE FcPortPassProofs ---------------------------
(***************************************************************************)
(* Theorems about the passes of FcPort over its directories: the hosts of  *)
(* a list and the ports of a host are enumerated, and the number of ports  *)
(* that is printed fits them.                                              *)
(*                                                                         *)
(* The argument: what has been printed, the object at hand, what readdir() *)
(* is still to return and what getdents() is still to find follow one      *)
(* another in the order of the directory, and nothing that stays is        *)
(* between them.  An object that stays keeps its parent, so a stream on    *)
(* the parent goes on finding it.                                          *)
(***************************************************************************)
EXTENDS FcPortProofs, FiniteSetTheorems

\* The pass over the hosts, or the second one over the ports, ...
InPass ==
    \/ call.op = "list" /\ pc \notin Ended \cup {"open"}
    \/ call.op = "show" /\ pc \in {"rports", "printport"}

\* ... with an object that has been returned and is not printed yet, ...
AtHand ==
    \/ call.op = "list" /\ pc \in {"driver", "info", "print"}
    \/ call.op = "show" /\ pc = "printport"

\* ... and when it has come to its end.
Complete ==
    /\ pc = "done"
    /\ result = "count" \/ (call.op = "show" /\ ports > 0)

WantedKind == IF call.op = "list" THEN "host" ELSE "rport"

Wanted(o) == o \in Children(call.host) /\ Kind[o] = WantedKind

\* It is there, or something happened to it.
Met(o) == o \in present \cup touched

\* A port is below a host that is there, and one that stays below one that stays.
TreeInv ==
    \A o \in Object :
        Parent[o] \in Object /\ Kind[Parent[o]] = "host" =>
            /\ o \in present => Parent[o] \in present
            /\ Steady(o) => Steady(Parent[o])

\* What a command has printed, and whom it is about.
PlaceInv ==
    /\ pc = "open" => rows = <<>>
    /\ call.op = "show" =>
           /\ pc \in {"driver", "openports"} => ports = 0
           /\ pc \in AboutHost => rows = <<>>
           /\ pc \notin Ended \cup {"rports", "printport"} => obj = call.host
           /\ pc = "openlist" => Len(rows) = 1
           /\ pc \in {"openlist", "rports", "printport"} => ports > 0
           /\ pc \in {"openlist", "rports", "printport"} \/ Complete =>
                  Len(rows) > 0 /\ rows[1].ports = ports
           /\ pc = "done" => Len(rows) > 0 /\ (ports = 0 => Len(rows) = 1)

\* The stream is one on the directory, and still the same directory if that stays.
StreamInv ==
    InPass \/ pc = "count" =>
        /\ stream.dir = call.host
        /\ \A o \in stream.buf :
               o \in Children(call.host) /\ Met(o) /\ Hash[o] <= stream.cursor
        /\ call.host = Root \/ Steady(call.host) => stream.gen = GenOf(call.host)

\* What is at hand comes before what is buffered, ...
HandInv ==
    AtHand =>
        /\ Wanted(obj) /\ Met(obj)
        /\ Hash[obj] <= stream.cursor
        /\ \A b \in stream.buf : Hash[obj] < Hash[b]

\* ... and what has been shown before both, in order.
ShownInv ==
    /\ \A i \in DOMAIN Shown :
           /\ Wanted(Shown[i]) /\ Met(Shown[i])
           /\ InPass => /\ Hash[Shown[i]] <= stream.cursor
                        /\ \A b \in stream.buf : Hash[Shown[i]] < Hash[b]
           /\ AtHand => Hash[Shown[i]] < Hash[obj]
    /\ \A i, j \in DOMAIN Shown : i < j => Hash[Shown[i]] < Hash[Shown[j]]

IsShown(o) == \E i \in DOMAIN Shown : Shown[i] = o

\* What stays is ahead of the stream, in it, at hand or shown; and in the end shown.
CoverInv ==
    \A o \in Object :
        Wanted(o) /\ Steady(o) =>
            /\ InPass => \/ Hash[o] > stream.cursor
                         \/ o \in stream.buf
                         \/ AtHand /\ o = obj
                         \/ IsShown(o)
            /\ Complete => IsShown(o)

PassInv == TreeInv /\ PlaceInv /\ StreamInv /\ HandInv /\ ShownInv /\ CoverInv

-----------------------------------------------------------------------------
(* What the definitions say. *)

LEMMA Orders ==
    ASSUME TypeInv
    PROVE  /\ \A o \in Object : Hash[o] \in Nat \ {0}
           /\ \A o, p \in Object : Hash[o] = Hash[p] => o = p
           /\ stream \in Streams /\ stream.cursor \in Nat /\ stream.buf \subseteq Object
           /\ Len(rows) \in Nat /\ DOMAIN rows = 1 .. Len(rows)
           /\ \A i \in 1 .. Len(rows) : rows[i].obj \in Object /\ rows[i].ports \in Nat
           /\ Len(rows) = 0 <=> rows = <<>>
           /\ call.op \in {"list", "show", "stats"} /\ call.host \in Object \cup {Root}
<1>1. rows \in Seq(Rows) /\ stream \in Streams
  BY DEF TypeInv, TypeOK
<1>2. Len(rows) \in Nat /\ DOMAIN rows = 1 .. Len(rows) /\ (Len(rows) = 0 <=> rows = <<>>)
  BY <1>1, LenProperties, EmptySeq
<1>3. \A i \in 1 .. Len(rows) : rows[i] \in Rows
  BY <1>1, <1>2, ElementOfSeq
<1>4. \A r \in Rows : r.obj \in Object /\ r.ports \in Nat
  BY DEF Rows
<1>5. stream.cursor \in Nat /\ stream.buf \subseteq Object
  BY <1>1 DEF Streams
<1> QED BY <1>1, <1>2, <1>3, <1>4, <1>5, HashAssumption, CallType DEF TypeInv, TypeOK

LEMMA OpenedIs ==
    ASSUME NEW dir
    PROVE  /\ Opened(dir).dir = dir /\ Opened(dir).gen = GenOf(dir)
           /\ Opened(dir).cursor = 0 /\ Opened(dir).buf = {}
BY DEF Opened

LEMMA FetchedIs ==
    ASSUME NEW s \in Streams, NEW o
    PROVE  /\ Fetched(s, o).dir = s.dir /\ Fetched(s, o).gen = s.gen
           /\ Fetched(s, o).cursor = Hash[o] /\ Fetched(s, o).buf = s.buf \cup {o}
BY DEF Streams, Fetched

LEMMA TakenIs ==
    ASSUME NEW s \in Streams, NEW o
    PROVE  /\ Taken(s, o).dir = s.dir /\ Taken(s, o).gen = s.gen
           /\ Taken(s, o).cursor = s.cursor /\ Taken(s, o).buf = s.buf \ {o}
BY DEF Streams, Taken

\* The row that an element of Shown comes from.
LEMMA ShownIs ==
    ASSUME TypeInv
    PROVE  /\ call.op = "list" =>
                  /\ DOMAIN Shown = 1 .. Len(rows)
                  /\ \A i \in DOMAIN Shown : Shown[i] = rows[i].obj
           /\ call.op = "show" =>
                  /\ DOMAIN Shown = 1 .. (Len(rows) - 1)
                  /\ \A i \in DOMAIN Shown : Shown[i] = rows[i + 1].obj
           /\ call.op = "stats" => Shown = <<>>
           /\ \A i \in DOMAIN Shown : Shown[i] \in Object /\ i \in Nat
<1>1. CASE call.op = "list"
  BY <1>1, Orders DEF Shown
<1>2. CASE call.op = "show"
  BY <1>2, Orders DEF Shown
<1>3. CASE call.op = "stats"
  BY <1>3 DEF Shown
<1> QED BY <1>1, <1>2, <1>3, Orders

LEMMA ShownKept ==
    ASSUME UNCHANGED <<rows, call>>
    PROVE  Shown' = Shown
BY DEF Shown

LEMMA StatusIs ==
    /\ InPass <=> Status = "open"
    /\ ~InPass => (Complete <=> Status = "complete")
    /\ ~InPass /\ ~Complete <=> Status = "idle"
    /\ AtHand => InPass
    /\ Complete => ~InPass
BY DEF InPass, Complete, AtHand, Status, Ended

\* Nothing is ahead of a stream but what has a larger hash, and of what stays
\* below a directory that stays everything is.
LEMMA AheadIs ==
    ASSUME TypeInv, TreeInv, StreamInv, InPass \/ pc = "count"
    PROVE  /\ \A o \in Ahead(stream) : /\ o \in Children(call.host) /\ o \in present
                                       /\ Hash[o] > stream.cursor
           /\ \A o \in Children(call.host) :
                  Steady(o) /\ Hash[o] > stream.cursor => o \in Ahead(stream)
<1>1. stream.dir = call.host /\ call.host \in Object \cup {Root}
  BY Orders DEF StreamInv
<1>2. ASSUME NEW o \in Children(call.host), Steady(o), Hash[o] > stream.cursor
      PROVE  o \in Ahead(stream)
  <2>1. call.host = Root \/ Steady(call.host)
    BY <1>2, CallType, CallsAssumption DEF TreeInv, Children, TypeInv, TypeOK
  <2>2. Exists(call.host) /\ GenOf(call.host) = stream.gen
    BY <2>1 DEF StreamInv, Exists, Steady
  <2> QED BY <1>1, <1>2, <2>2 DEF Ahead, Steady
<1> QED BY <1>1, <1>2 DEF Ahead

-----------------------------------------------------------------------------
(* The kernel. *)

LEMMA TreeStep ==
    ASSUME TypeInv, TreeInv, Kernel
    PROVE  /\ TreeInv'
           /\ \A o \in Object : Met(o) => Met(o)'
           /\ \A o \in Object : Steady(o)' => Steady(o) /\ gen'[o] = gen[o]
<1>1. \A o \in Object : Steady(o)' => Steady(o) /\ gen'[o] = gen[o]
  BY SteadyKept
<1>2. PICK x \in Object : Appear(x) \/ Vanish(x)
  BY DEF Kernel, Hotplug
<1>3. CASE Appear(x)
  <2>1. /\ x \notin present /\ Parent[x] \in present \cup {Root}
        /\ present' = present \cup {x} \cup Others(x)
        /\ touched' = touched \cup {x} \cup Others(x)
    BY <1>3 DEF Appear
  <2>2. Others(x) \subseteq Object /\ \A o \in Others(x) : Parent[o] = x /\ Kind[o] = "other"
    BY DEF Others, Children
  <2>3. \A o \in Object : Met(o) => Met(o)'
    BY <2>1 DEF Met
  <2>4. ASSUME NEW o \in Object, Parent[o] \in Object, Kind[Parent[o]] = "host"
        PROVE  /\ o \in present' => Parent[o] \in present'
               /\ Steady(o)' => Steady(Parent[o])'
    <3>1. Parent[o] \notin Others(x)
      BY <2>2, <2>4
    <3>2. CASE Parent[o] = x
      BY <2>1, <2>4, <3>2 DEF TreeInv, Steady
    <3>3. CASE Parent[o] # x
      BY <2>1, <2>2, <2>4, <3>1, <3>3, TreeAssumption DEF TreeInv, Steady
    <3> QED BY <3>2, <3>3
  <2>5. TreeInv'
    BY <2>4 DEF TreeInv
  <2> QED BY <1>1, <2>3, <2>5
<1>4. CASE Vanish(x)
  <2>1. /\ x \in present /\ Children(x) \cap present \subseteq Others(x)
        /\ present' = present \ ({x} \cup Others(x))
        /\ touched' = touched \cup {x} \cup Others(x)
    BY <1>4 DEF Vanish
  <2>2. Others(x) \subseteq Object /\ \A o \in Others(x) : Parent[o] = x /\ Kind[o] = "other"
    BY DEF Others, Children
  <2>3. \A o \in Object : Met(o) => Met(o)'
    BY <2>1 DEF Met
  <2>4. ASSUME NEW o \in Object, Parent[o] \in Object, Kind[Parent[o]] = "host"
        PROVE  /\ o \in present' => Parent[o] \in present'
               /\ Steady(o)' => Steady(Parent[o])'
    <3>1. Parent[o] \notin Others(x)
      BY <2>2, <2>4
    <3>2. CASE Parent[o] = x
      BY <2>1, <2>4, <3>2 DEF Children, Steady
    <3>3. CASE Parent[o] # x
      BY <2>1, <2>4, <3>1, <3>3 DEF TreeInv, Steady
    <3> QED BY <3>2, <3>3
  <2>5. TreeInv'
    BY <2>4 DEF TreeInv
  <2> QED BY <1>1, <2>3, <2>5
<1> QED BY <1>2, <1>3, <1>4

LEMMA KernelPassStep ==
    ASSUME TypeInv, PassInv, Kernel
    PROVE  PassInv'
<1>0. UNCHANGED <<call, pc, obj, ports, stream, rows, result>>
  BY DEF Kernel, proc
<1>1. /\ TreeInv' /\ \A o \in Object : Met(o) => Met(o)'
      /\ \A o \in Object : Steady(o)' => Steady(o) /\ gen'[o] = gen[o]
  BY TreeStep DEF PassInv
<1>2. /\ InPass' = InPass /\ AtHand' = AtHand /\ Complete' = Complete
      /\ \A o : Wanted(o)' = Wanted(o)
  BY <1>0 DEF InPass, AtHand, Complete, Wanted, WantedKind
<1>3. Shown' = Shown
  BY <1>0, ShownKept
<1>4. PlaceInv'
  BY <1>0, <1>2 DEF PassInv, PlaceInv
<1>5. StreamInv'
  BY <1>0, <1>1, <1>2, Orders DEF PassInv, StreamInv, GenOf
<1>6. HandInv'
  BY <1>0, <1>1, <1>2 DEF PassInv, HandInv, Wanted, Children
<1>7. ShownInv'
  BY <1>0, <1>1, <1>2, <1>3, ShownIs DEF PassInv, ShownInv
<1>8. CoverInv'
  BY <1>0, <1>1, <1>2, <1>3 DEF PassInv, CoverInv, IsShown
<1> QED BY <1>1, <1>4, <1>5, <1>6, <1>7, <1>8 DEF PassInv

-----------------------------------------------------------------------------
(* The program. *)

LEMMA PlaceStep ==
    ASSUME TypeInv, PlaceInv, Process
    PROVE  PlaceInv'
<1> USE DEF PlaceInv, Complete, AboutHost, Ended, At, Return, Die
<1>0. call.op \in {"list", "show", "stats"} /\ Len(rows) \in Nat
  BY Orders
<1>1. CASE ReadFile \/ ReadCrashes \/ ReadAhead
  BY <1>1 DEF ReadFile, ReadCrashes, ReadAhead
<1>2. CASE GetDriver \/ GetInfo \/ NoDriver \/ NoMemory
  BY <1>2 DEF GetDriver, GetInfo, NoDriver, NoMemory
<1>3. CASE OpenHosts \/ TakeHost \/ AllocFails \/ EndHosts
  <2>1. call'.op = "list" /\ pc' # "open"
    BY <1>3 DEF OpenHosts, OpenAt, TakeHost, AllocFails, EndHosts, EndAt, TypeInv, ControlOK
  <2> QED BY <2>1
<1>4. CASE OpenPorts \/ CountPort \/ EndCount
  BY <1>4 DEF OpenPorts, OpenAt, CountPort, EndCount, EndAt, TypeInv, ControlOK
<1>5. CASE OpenList
  BY <1>5 DEF OpenList, OpenAt
<1>6. CASE TakePort \/ PortAllocFails \/ EndList
  BY <1>6 DEF TakePort, PortAllocFails, EndList, EndAt, TypeInv, ControlOK
<1>7. CASE PrintHost \/ PrintPort
  <2>1. rows \in Seq(Rows) /\ rows' = Append(rows, Row) /\ obj \in Object
    BY <1>7 DEF PrintHost, PrintPort, TypeInv, TypeOK, ControlOK
  <2>2. Row \in Rows /\ Row.ports = ports
    BY <2>1 DEF Row, Rows, TypeInv, TypeOK
  <2>3. /\ Len(rows') = Len(rows) + 1
        /\ rows' [Len(rows) + 1] = Row
        /\ \A i \in 1 .. Len(rows) : rows'[i] = rows[i]
    BY <2>1, <2>2, AppendProperties
  <2>4. rows = <<>> => Len(rows) = 0
    BY Orders
  <2>5. Len(rows') > 0 /\ (Len(rows) > 0 => rows'[1] = rows[1])
        /\ (Len(rows) = 0 => rows'[1].ports = ports /\ Len(rows') = 1)
    BY <1>0, <2>2, <2>3
  <2>6. CASE PrintHost
    BY <1>0, <2>4, <2>5, <2>6 DEF PrintHost, TypeInv, TypeOK, ControlOK
  <2>7. CASE PrintPort
    BY <1>0, <2>5, <2>7 DEF PrintPort, TypeInv, ControlOK
  <2> QED BY <1>7, <2>6, <2>7
<1> QED BY <1>1, <1>2, <1>3, <1>4, <1>5, <1>6, <1>7 DEF Process

\* A step after which nothing is being listed.
LEMMA Left ==
    ASSUME TypeInv, PassInv, UNCHANGED <<kernel, call>>, ~InPass', ~Complete', Shown' = Shown
    PROVE  HandInv' /\ ShownInv' /\ CoverInv'
<1>1. ~AtHand'
  BY DEF InPass, AtHand, Ended
<1>2. \A o : Wanted(o)' = Wanted(o) /\ Met(o)' = Met(o)
  BY DEF Wanted, WantedKind, Met, kernel
<1>3. HandInv'
  BY <1>1 DEF HandInv
<1>4. ShownInv'
  BY <1>1, <1>2 DEF PassInv, ShownInv
<1>5. CoverInv'
  BY DEF CoverInv
<1> QED BY <1>3, <1>4, <1>5

\* A step of a pass that leaves its stream as it is.
LEMMA Kept ==
    ASSUME TypeInv, PassInv, UNCHANGED <<kernel, call, obj, stream, rows>>,
           InPass, InPass', AtHand' = AtHand
    PROVE  HandInv' /\ ShownInv' /\ CoverInv'
<1>1. Shown' = Shown /\ \A o : Wanted(o)' = Wanted(o) /\ Met(o)' = Met(o) /\ Steady(o)' = Steady(o)
  BY ShownKept DEF Wanted, WantedKind, Met, Steady, kernel
<1>2. ~Complete'
  BY DEF InPass, Complete, Ended
<1>3. HandInv'
  BY <1>1 DEF PassInv, HandInv
<1>4. ShownInv'
  BY <1>1 DEF PassInv, ShownInv
<1>5. CoverInv'
  BY <1>1, <1>2 DEF PassInv, CoverInv, IsShown
<1> QED BY <1>3, <1>4, <1>5

LEMMA ReadAheadStep ==
    ASSUME TypeInv, PassInv, ReadAhead, UNCHANGED kernel
    PROVE  StreamInv' /\ HandInv' /\ ShownInv' /\ CoverInv'
<1>1. InPass \/ pc = "count"
  BY DEF ReadAhead, InStream, InPass, TypeInv, ControlOK, Ended
<1>2. PICK x \in Ahead(stream) : IsFirst(x, Ahead(stream)) /\ stream' = Fetched(stream, x)
  BY DEF ReadAhead
<1>3. /\ x \in Children(call.host) /\ x \in present /\ Hash[x] > stream.cursor
      /\ \A o \in Children(call.host) :
             Steady(o) /\ Hash[o] > stream.cursor => Hash[x] <= Hash[o]
  BY <1>1, <1>2, AheadIs DEF PassInv, IsFirst
<1>4. /\ stream'.dir = stream.dir /\ stream'.gen = stream.gen
      /\ stream'.cursor = Hash[x] /\ stream'.buf = stream.buf \cup {x}
  BY <1>2, FetchedIs, Orders
<1>5. UNCHANGED <<call, pc, obj, rows, result, ports>> /\ ~AtHand /\ ~Complete
  BY DEF ReadAhead, AtHand, InStream, Complete
<1>6. /\ InPass' = InPass /\ ~AtHand' /\ ~Complete' /\ Shown' = Shown
      /\ \A o : Wanted(o)' = Wanted(o) /\ Met(o)' = Met(o) /\ Steady(o)' = Steady(o)
  BY <1>5, ShownKept DEF InPass, AtHand, Complete, Wanted, WantedKind, Met, Steady, kernel
<1>7. StreamInv'
  BY <1>1, <1>3, <1>4, <1>5, <1>6, Orders DEF PassInv, StreamInv, Met, GenOf, kernel, Children
<1>8. HandInv'
  BY <1>6 DEF HandInv
<1>9. ShownInv'
  BY <1>3, <1>4, <1>5, <1>6, Orders, ShownIs DEF PassInv, ShownInv, Children
<1>10. CoverInv'
  <2> SUFFICES ASSUME NEW o \in Object, Wanted(o), Steady(o), InPass
               PROVE  Hash[o] > Hash[x] \/ o \in stream.buf \cup {x} \/ IsShown(o)
    BY <1>4, <1>6 DEF CoverInv, IsShown
  <2>1. Hash[o] > stream.cursor \/ o \in stream.buf \/ IsShown(o)
    BY <1>5 DEF PassInv, CoverInv
  <2>2. Hash[o] > stream.cursor => Hash[o] > Hash[x] \/ o = x
    BY <1>3, Orders DEF Wanted, Children
  <2> QED BY <2>1, <2>2
<1> QED BY <1>7, <1>8, <1>9, <1>10

\* readdir() returns the next name: to be printed, or to be passed over.
LEMMA TakeStep ==
    ASSUME TypeInv, PassInv, UNCHANGED <<kernel, call, rows>>, InPass, ~AtHand, InPass',
           NEW x \in stream.buf, Take(x),
           IF Wanted(x) THEN AtHand' /\ obj' = x ELSE ~AtHand'
    PROVE  StreamInv' /\ HandInv' /\ ShownInv' /\ CoverInv'
<1>1. /\ stream'.dir = stream.dir /\ stream'.gen = stream.gen
      /\ stream'.cursor = stream.cursor /\ stream'.buf = stream.buf \ {x}
      /\ \A b \in stream.buf : Hash[x] <= Hash[b]
  BY TakenIs, Orders DEF Take, IsFirst
<1>2. x \in Object /\ Met(x) /\ Hash[x] <= stream.cursor
      /\ \A b \in stream'.buf : Hash[x] < Hash[b]
  BY <1>1, Orders DEF PassInv, StreamInv
<1>3. /\ Shown' = Shown /\ ~Complete'
      /\ \A o : Wanted(o)' = Wanted(o) /\ Met(o)' = Met(o) /\ Steady(o)' = Steady(o)
  BY ShownKept DEF Wanted, WantedKind, Met, Steady, kernel, InPass, Complete, Ended
<1>4. StreamInv'
  BY <1>1, <1>3 DEF PassInv, StreamInv, GenOf, kernel
<1>5. HandInv'
  BY <1>1, <1>2, <1>3 DEF HandInv
<1>6. ShownInv'
  BY <1>1, <1>2, <1>3 DEF PassInv, ShownInv
<1>7. CoverInv'
  BY <1>1, <1>3 DEF PassInv, CoverInv, IsShown
<1> QED BY <1>4, <1>5, <1>6, <1>7

\* The row of what is at hand.
LEMMA PrintStep ==
    ASSUME TypeInv, PassInv, UNCHANGED <<kernel, call, stream>>, AtHand, InPass', ~AtHand',
           NEW n \in Nat, DOMAIN Shown = 1 .. n, DOMAIN Shown' = 1 .. (n + 1),
           \A i \in 1 .. n : Shown'[i] = Shown[i], Shown'[n + 1] = obj
    PROVE  StreamInv' /\ HandInv' /\ ShownInv' /\ CoverInv'
<1>1. InPass /\ ~Complete'
  BY DEF InPass, AtHand, Complete, Ended
<1>2. \A o : Wanted(o)' = Wanted(o) /\ Met(o)' = Met(o) /\ Steady(o)' = Steady(o)
  BY DEF Wanted, WantedKind, Met, Steady, kernel
<1>3. StreamInv'
  BY <1>1, <1>2 DEF PassInv, StreamInv, GenOf, kernel
<1>4. HandInv'
  BY DEF HandInv
<1>5. ShownInv'
  <2>1. \A i \in 1 .. (n + 1) :
           /\ Wanted(Shown'[i]) /\ Met(Shown'[i]) /\ Hash[Shown'[i]] <= stream.cursor
           /\ \A b \in stream.buf : Hash[Shown'[i]] < Hash[b]
    <3> SUFFICES ASSUME NEW i \in 1 .. (n + 1)
                 PROVE  /\ Wanted(Shown'[i]) /\ Met(Shown'[i]) /\ Hash[Shown'[i]] <= stream.cursor
                        /\ \A b \in stream.buf : Hash[Shown'[i]] < Hash[b]
      OBVIOUS
    <3>1. CASE i = n + 1
      BY <3>1 DEF PassInv, HandInv
    <3>2. CASE i \in 1 .. n
      BY <1>1, <3>2 DEF PassInv, ShownInv
    <3> QED BY <3>1, <3>2
  <2>2. ASSUME NEW i \in 1 .. (n + 1), NEW j \in 1 .. (n + 1), i < j
        PROVE  Hash[Shown'[i]] < Hash[Shown'[j]]
    <3>1. i \in 1 .. n
      BY <2>2
    <3>2. CASE j = n + 1
      BY <3>1, <3>2 DEF PassInv, ShownInv
    <3>3. CASE j \in 1 .. n
      BY <2>2, <3>1, <3>3 DEF PassInv, ShownInv
    <3> QED BY <3>2, <3>3
  <2> QED BY <1>2, <2>1, <2>2 DEF ShownInv
<1>6. CoverInv'
  <2>1. \A o : IsShown(o) \/ o = obj => \E i \in DOMAIN Shown' : Shown'[i] = o
    BY DEF IsShown
  <2> QED BY <1>1, <1>2, <2>1 DEF PassInv, CoverInv, IsShown
<1> QED BY <1>3, <1>4, <1>5, <1>6

\* A new stream, and nothing shown.
LEMMA OpenStep ==
    ASSUME TypeInv, PassInv, UNCHANGED <<kernel, call, rows>>, InPass', ~AtHand',
           stream' = Opened(call.host), Exists(call.host), DOMAIN Shown = {}
    PROVE  StreamInv' /\ HandInv' /\ ShownInv' /\ CoverInv'
<1>1. /\ stream'.dir = call.host /\ stream'.gen = GenOf(call.host)
      /\ stream'.cursor = 0 /\ stream'.buf = {}
  BY OpenedIs
<1>2. Shown' = Shown /\ ~Complete'
  BY ShownKept DEF InPass, Complete, Ended
<1>3. StreamInv'
  BY <1>1 DEF StreamInv, GenOf, kernel
<1>4. HandInv' /\ ShownInv'
  BY <1>2 DEF HandInv, ShownInv
<1>5. CoverInv'
  <2>1. \A o \in Object : Hash[o] > 0
    BY Orders
  <2> QED BY <1>1, <1>2, <2>1 DEF CoverInv
<1> QED BY <1>3, <1>4, <1>5

\* The end of the directory: what stays has been shown.
LEMMA EndStep ==
    ASSUME TypeInv, PassInv, UNCHANGED <<kernel, call, rows, stream>>, InPass, ~AtHand, ~InPass',
           AtEnd(stream)
    PROVE  HandInv' /\ ShownInv' /\ CoverInv'
<1>1. ~AtHand'
  BY DEF InPass, AtHand, Ended
<1>2. /\ Shown' = Shown
      /\ \A o : Wanted(o)' = Wanted(o) /\ Met(o)' = Met(o) /\ Steady(o)' = Steady(o)
  BY ShownKept DEF Wanted, WantedKind, Met, Steady, kernel
<1>3. HandInv' /\ ShownInv'
  BY <1>1, <1>2 DEF PassInv, HandInv, ShownInv
<1>4. ASSUME NEW o \in Object, Wanted(o), Steady(o)
      PROVE  IsShown(o)
  <2>1. o \notin stream.buf /\ ~(Hash[o] > stream.cursor)
    BY <1>4, AheadIs DEF PassInv, AtEnd, Wanted
  <2> QED BY <1>4, <2>1 DEF PassInv, CoverInv
<1>5. CoverInv'
  BY <1>2, <1>4 DEF CoverInv, IsShown
<1> QED BY <1>3, <1>5

\* What PrintHost and PrintPort make of Shown.
LEMMA ShownAppended ==
    ASSUME TypeInv, call' = call, obj \in Object, rows' = Append(rows, Row)
    PROVE  /\ call.op = "list" =>
                  /\ DOMAIN Shown = 1 .. Len(rows) /\ DOMAIN Shown' = 1 .. (Len(rows) + 1)
                  /\ \A i \in 1 .. Len(rows) : Shown'[i] = Shown[i]
                  /\ Shown'[Len(rows) + 1] = obj
           /\ call.op = "show" /\ Len(rows) > 0 =>
                  /\ DOMAIN Shown = 1 .. (Len(rows) - 1) /\ DOMAIN Shown' = 1 .. Len(rows)
                  /\ \A i \in 1 .. (Len(rows) - 1) : Shown'[i] = Shown[i]
                  /\ Shown'[Len(rows)] = obj
           /\ call.op = "show" /\ rows = <<>> => Shown' = Shown
           /\ call.op = "stats" => Shown' = Shown
<1>1. rows \in Seq(Rows) /\ Row \in Rows /\ Row.obj = obj
  BY DEF Row, Rows, TypeInv, TypeOK
<1>2. /\ rows' \in Seq(Rows)
      /\ Len(rows') = Len(rows) + 1
      /\ rows'[Len(rows) + 1] = Row
      /\ \A i \in 1 .. Len(rows) : rows'[i] = rows[i]
  BY <1>1, AppendProperties
<1>3. DOMAIN rows' = 1 .. (Len(rows) + 1) /\ Len(rows) \in Nat /\ DOMAIN rows = 1 .. Len(rows)
  BY <1>1, <1>2, LenProperties
<1>4. CASE call.op = "list"
  BY <1>1, <1>2, <1>3, <1>4 DEF Shown
<1>5. CASE call.op = "show" /\ Len(rows) > 0
  <2>1. /\ DOMAIN Shown = 1 .. (Len(rows) - 1)
        /\ \A i \in 1 .. (Len(rows) - 1) : Shown[i] = rows[i + 1].obj
    BY <1>5 DEF Shown
  <2>2. /\ DOMAIN Shown' = 1 .. Len(rows)
        /\ \A i \in 1 .. Len(rows) : Shown'[i] = rows'[i + 1].obj
    BY <1>2, <1>3, <1>5 DEF Shown
  <2>3. \A i \in 1 .. (Len(rows) - 1) : i + 1 \in 1 .. Len(rows) /\ i \in 1 .. Len(rows)
    BY <1>3
  <2>4. \A i \in 1 .. (Len(rows) - 1) : Shown'[i] = Shown[i]
    BY <1>2, <2>1, <2>2, <2>3
  <2>5. Shown'[Len(rows)] = obj
    BY <1>1, <1>2, <1>3, <1>5, <2>2
  <2> QED BY <1>5, <2>1, <2>2, <2>4, <2>5
<1>6. CASE call.op = "show" /\ rows = <<>>
  <2>1. Len(rows) = 0 /\ Len(rows') = 1
    BY <1>2, <1>6
  <2>2. Shown = [i \in {} |-> rows[i + 1].obj] /\ Shown' = [i \in {} |-> rows'[i + 1].obj]
    BY <1>6, <2>1 DEF Shown
  <2> QED BY <1>6, <2>1, <2>2
<1>7. CASE call.op = "stats"
  BY <1>7 DEF Shown
<1> QED BY <1>3, <1>4, <1>5, <1>6, <1>7

LEMMA ProcessPassStep ==
    ASSUME TypeInv, PassInv, Process
    PROVE  PassInv'
<1>0. UNCHANGED kernel /\ PlaceInv' /\ TreeInv'
  BY PlaceStep DEF Process, PassInv, TreeInv, Steady, kernel
<1> SUFFICES StreamInv' /\ HandInv' /\ ShownInv' /\ CoverInv'
  BY <1>0 DEF PassInv
<1> USE DEF InPass, AtHand, Complete, Ended, At, Return, Die
<1>1. CASE ReadFile \/ GetDriver \/ GetInfo
  <2>1. UNCHANGED <<kernel, call, stream, rows, obj, result, ports>>
        /\ InPass' = InPass /\ AtHand' = AtHand /\ Complete' = Complete
        /\ (pc' = "count" => pc = "count")
    BY <1>0, <1>1 DEF ReadFile, Reading, GetDriver, GetInfo, TypeInv, ControlOK
  <2>2. StreamInv'
    BY <2>1 DEF PassInv, StreamInv, Met, GenOf, Steady, kernel
  <2>3. CASE InPass
    BY <2>1, <2>2, <2>3, Kept
  <2>4. CASE ~InPass
    <3>1. ~Complete
      BY <1>1 DEF ReadFile, Reading, GetDriver, GetInfo
    <3> QED BY <2>1, <2>2, <2>4, <3>1, Left, ShownKept
  <2> QED BY <2>3, <2>4
<1>2. CASE ReadCrashes \/ NoDriver \/ NoMemory \/ AllocFails \/ PortAllocFails
  <2>1. UNCHANGED <<call, rows>> /\ ~InPass' /\ ~Complete' /\ pc' # "count"
    BY <1>2 DEF ReadCrashes, NoDriver, NoMemory, AllocFails, PortAllocFails, TypeInv, ControlOK
  <2>2. StreamInv'
    BY <2>1 DEF StreamInv
  <2> QED BY <1>0, <2>1, <2>2, Left, ShownKept
<1>3. CASE ReadAhead
  BY <1>0, <1>3, ReadAheadStep
<1>4. CASE OpenHosts
  <2>1. UNCHANGED <<call, rows>> /\ call.op = "list" /\ call.host = Root /\ rows = <<>>
    BY <1>4, CallsAssumption DEF OpenHosts, TypeInv, TypeOK, ControlOK, PassInv, PlaceInv
  <2>2. DOMAIN Shown = {}
    BY <2>1, ShownIs, Orders
  <2>3. CASE OpenAt(Root, "hosts")
    BY <1>0, <2>1, <2>2, <2>3, OpenStep DEF OpenAt
  <2>4. CASE pc' = "done" /\ result' = "ENODEV"
    <3>1. ~InPass' /\ ~Complete' /\ StreamInv'
      BY <2>1, <2>4 DEF StreamInv
    <3> QED BY <1>0, <2>1, <3>1, Left, ShownKept
  <2> QED BY <1>4, <2>3, <2>4 DEF OpenHosts
<1>5. CASE TakeHost
  <2>1. PICK x \in stream.buf : Take(x) /\ obj' = x
    BY <1>5 DEF TakeHost
  <2>2. /\ UNCHANGED <<call, rows>> /\ call.op = "list" /\ InPass /\ ~AtHand /\ InPass' /\ AtHand'
    BY <1>5 DEF TakeHost, TypeInv, ControlOK
  <2>3. call.host = Root
    BY <2>2, CallsAssumption DEF TypeInv, TypeOK
  <2>4. Wanted(x)
    BY <2>2, <2>3, TreeAssumption DEF PassInv, StreamInv, Wanted, WantedKind, Children
  <2> QED BY <1>0, <2>1, <2>2, <2>4, TakeStep
<1>6. CASE EndHosts \/ EndList
  BY <1>0, <1>6, EndStep DEF EndHosts, EndList, EndAt, TypeInv, ControlOK, StreamInv
<1>7. CASE OpenPorts
  <2>1. UNCHANGED <<call, rows>> /\ ~InPass' /\ ~Complete' /\ call.op = "show" /\ obj = call.host
    BY <1>7 DEF OpenPorts, OpenAt, TypeInv, ControlOK, PassInv, PlaceInv
  <2>2. StreamInv'
    BY <1>0, <1>7, <2>1, OpenedIs DEF OpenPorts, OpenAt, StreamInv, GenOf, kernel
  <2> QED BY <1>0, <2>1, <2>2, Left, ShownKept
<1>8. CASE CountPort
  <2>1. PICK x \in stream.buf : Take(x)
    BY <1>8 DEF CountPort
  <2>2. /\ stream'.dir = stream.dir /\ stream'.gen = stream.gen
        /\ stream'.cursor = stream.cursor /\ stream'.buf \subseteq stream.buf
    BY <2>1, TakenIs, Orders DEF Take
  <2>3. UNCHANGED <<call, rows>> /\ call.op = "show" /\ pc = "count" /\ pc' = "count"
    BY <1>8 DEF CountPort, TypeInv, ControlOK
  <2>4. StreamInv'
    BY <1>0, <2>2, <2>3 DEF PassInv, StreamInv, Met, Steady, GenOf, kernel
  <2> QED BY <1>0, <2>3, <2>4, Left, ShownKept
<1>9. CASE EndCount
  <2>1. UNCHANGED <<call, rows>> /\ call.op = "show" /\ pc' = "info"
    BY <1>9 DEF EndCount, EndAt, TypeInv, ControlOK
  <2>2. StreamInv'
    BY <2>1 DEF StreamInv
  <2> QED BY <1>0, <2>1, <2>2, Left, ShownKept
<1>10. CASE OpenList
  <2>1. /\ UNCHANGED <<call, rows>> /\ call.op = "show" /\ obj = call.host /\ Len(rows) = 1
    BY <1>10 DEF OpenList, TypeInv, ControlOK, PassInv, PlaceInv
  <2>2. DOMAIN Shown = {}
    BY <2>1, ShownIs
  <2>3. CASE OpenAt(obj, "rports")
    BY <1>0, <2>1, <2>2, <2>3, OpenStep DEF OpenAt
  <2>4. CASE pc' = "done" /\ result' = "0" /\ ports' = 0
    <3>1. ~InPass' /\ ~Complete' /\ StreamInv'
      BY <2>1, <2>4 DEF StreamInv
    <3> QED BY <1>0, <2>1, <3>1, Left, ShownKept
  <2> QED BY <1>10, <2>3, <2>4 DEF OpenList
<1>11. CASE TakePort
  <2>1. PICK x \in stream.buf :
           /\ Take(x)
           /\ IF Kind[x] = "rport" THEN obj' = x /\ pc' = "printport" ELSE pc' = pc
    BY <1>11 DEF TakePort
  <2>2. /\ UNCHANGED <<call, rows>> /\ call.op = "show" /\ pc = "rports"
    BY <1>11 DEF TakePort, TypeInv, ControlOK
  <2>3. x \in Children(call.host)
    BY <2>2 DEF PassInv, StreamInv
  <2>4. Wanted(x) <=> Kind[x] = "rport"
    BY <2>2, <2>3 DEF Wanted, WantedKind
  <2> QED BY <1>0, <2>1, <2>2, <2>4, TakeStep
<1>12. CASE PrintHost
  <2>1. call' = call /\ stream' = stream /\ rows' = Append(rows, Row) /\ obj \in Object
    BY <1>12 DEF PrintHost, TypeInv, ControlOK, AboutHost
  <2>2. CASE call.op = "list"
    <3>1. InPass' /\ AtHand /\ ~AtHand'
      BY <1>12, <2>1, <2>2 DEF PrintHost
    <3>2. Len(rows) \in Nat
      BY Orders
    <3> QED BY <1>0, <2>1, <2>2, <3>1, <3>2, PrintStep, ShownAppended
  <2>3. CASE call.op # "list"
    <3>1. ~InPass' /\ ~Complete' /\ pc' # "count"
      BY <1>12, <2>1, <2>3 DEF PrintHost, TypeInv, TypeOK
    <3>2. Shown' = Shown
      <4>1. call.op \in {"show", "stats"} /\ (call.op = "show" => rows = <<>>)
        BY <1>12, <2>3, Orders DEF PrintHost, PassInv, PlaceInv, AboutHost
      <4> QED BY <2>1, <4>1, ShownAppended
    <3>3. StreamInv'
      BY <3>1 DEF StreamInv
    <3> QED BY <1>0, <2>1, <3>1, <3>2, <3>3, Left
  <2> QED BY <2>2, <2>3
<1>13. CASE PrintPort
  <2>1. /\ call' = call /\ stream' = stream /\ rows' = Append(rows, Row) /\ obj \in Object
        /\ call.op = "show" /\ InPass' /\ AtHand /\ ~AtHand' /\ Len(rows) > 0
    BY <1>13 DEF PrintPort, TypeInv, ControlOK, PassInv, PlaceInv
  <2> DEFINE n == Len(rows) - 1
  <2>2. n \in Nat /\ n + 1 = Len(rows)
    BY <2>1, Orders
  <2>3. /\ DOMAIN Shown = 1 .. n /\ DOMAIN Shown' = 1 .. (n + 1)
        /\ \A i \in 1 .. n : Shown'[i] = Shown[i]
        /\ Shown'[n + 1] = obj
    BY <2>1, <2>2, ShownAppended
  <2> HIDE DEF n
  <2> QED BY <1>0, <2>1, <2>2, <2>3, PrintStep
<1> QED
  BY <1>1, <1>2, <1>3, <1>4, <1>5, <1>6, <1>7, <1>8, <1>9, <1>10, <1>11, <1>12, <1>13
     DEF Process

LEMMA PassInit == Init => PassInv
<1> SUFFICES ASSUME Init PROVE PassInv
  OBVIOUS
<1>1. TypeInv
  BY InitType
<1>2. TreeInv
  BY TreeAssumption DEF Init, KernelInit, WellFormed, TreeInv, Steady
<1>3. /\ pc \in {"open", "driver", "print"} /\ rows = <<>> /\ ports = 0
      /\ obj = call.host /\ call.op \in {"list", "show", "stats"}
      /\ (call.op = "list" => pc = "open") /\ (call.op = "stats" => pc = "print")
  BY <1>1, Orders DEF Init
<1>4. ~InPass /\ ~AtHand /\ ~Complete
  BY <1>3 DEF InPass, AtHand, Complete, Ended
<1>5. PlaceInv
  BY <1>3, <1>4 DEF PlaceInv, AboutHost, Ended
<1>6. DOMAIN Shown = {}
  BY <1>1, <1>3, ShownIs
<1> QED
  BY <1>2, <1>3, <1>4, <1>5, <1>6 DEF PassInv, StreamInv, HandInv, ShownInv, CoverInv

LEMMA PassStep ==
    ASSUME TypeInv, PassInv, [Next]_vars
    PROVE  PassInv'
<1>1. CASE Process
  BY <1>1, ProcessPassStep
<1>2. CASE Kernel
  BY <1>2, KernelPassStep
<1>3. CASE UNCHANGED vars
  <2>1. /\ Shown' = Shown /\ InPass' = InPass /\ AtHand' = AtHand /\ Complete' = Complete
        /\ \A o : Wanted(o)' = Wanted(o) /\ Met(o)' = Met(o) /\ Steady(o)' = Steady(o)
    BY <1>3, ShownKept
       DEF vars, proc, kernel, InPass, AtHand, Complete, Wanted, WantedKind, Met, Steady
  <2>2. UNCHANGED <<stream, obj, rows, pc, call, ports, gen, present, touched>>
    BY <1>3 DEF vars, proc, kernel
  <2>3. TreeInv' /\ PlaceInv'
    BY <2>1, <2>2 DEF PassInv, TreeInv, PlaceInv
  <2>4. StreamInv' /\ HandInv'
    BY <2>1, <2>2 DEF PassInv, StreamInv, HandInv, GenOf
  <2>5. ShownInv' /\ CoverInv'
    BY <2>1, <2>2 DEF PassInv, ShownInv, CoverInv, IsShown
  <2> QED BY <2>3, <2>4, <2>5 DEF PassInv
<1> QED BY <1>1, <1>2, <1>3 DEF Next, Finished

THEOREM PassInvariant == Spec => [](TypeInv /\ PassInv)
BY InitType, TypeStep, PassInit, PassStep, PTL DEF Spec

-----------------------------------------------------------------------------
(* FcPort implements Enumeration. *)

LEMMA SteadyThingsIs ==
    SteadyThings = IF Status = "idle" THEN {} ELSE {o \in Object : Wanted(o) /\ Steady(o)}
BY DEF SteadyThings, Wanted, WantedKind, Children

LEMMA SteadyThingsKept ==
    ASSUME UNCHANGED <<kernel, call>>, Status' # "idle", Status # "idle"
    PROVE  SteadyThings' = SteadyThings
BY DEF SteadyThings, Steady, kernel

LEMMA MembersAre ==
    ASSUME NEW o
    PROVE  o \in Enum!Members(Shown) <=> IsShown(o)
BY DEF Enum!Members, IsShown

LEMMA EnumInit == Init => Enum!Init
<1> SUFFICES ASSUME Init PROVE Enum!Init
  OBVIOUS
<1>1. TypeInv /\ PassInv
  BY InitType, PassInit
<1>2. rows = <<>> /\ ports = 0 /\ call.op \in {"list", "show", "stats"}
      /\ pc \in {"open", "driver", "print"} /\ (call.op = "list" => pc = "open")
  BY <1>1, Orders DEF Init
<1>3. Status = "idle"
  BY <1>2, StatusIs DEF InPass, Complete, Ended
<1>4. SteadyThings = {}
  BY <1>3, SteadyThingsIs
<1>5. Shown = <<>>
  <2>1. Len(rows) = 0
    BY <1>1, <1>2, Orders
  <2>2. CASE call.op = "show"
    <3>1. Shown = [i \in {} |-> rows[i + 1].obj]
      BY <2>1, <2>2 DEF Shown
    <3> QED BY <3>1
  <2>3. CASE call.op = "list"
    <3>1. DOMAIN rows = {}
      BY <1>1, <2>1, Orders
    <3>2. Shown = [i \in {} |-> rows[i].obj]
      BY <2>3, <3>1 DEF Shown
    <3> QED BY <3>2
  <2>4. CASE call.op = "stats"
    BY <2>4 DEF Shown
  <2> QED BY <1>2, <2>2, <2>3, <2>4
<1> QED BY <1>3, <1>4, <1>5 DEF Enum!Init

\* Steps that are none of the enumeration.
LEMMA EnumStutter ==
    ASSUME UNCHANGED <<kernel, call>>, Shown' = Shown, Status' = Status
    PROVE  UNCHANGED Enum!vars
<1>1. SteadyThings' = SteadyThings
  BY DEF SteadyThings, Steady, kernel
<1> QED BY <1>1 DEF Enum!vars

\* A pass that gives up.
LEMMA EnumAbort ==
    ASSUME Shown' = Shown, Status = "open", Status' = "idle"
    PROVE  Enum!Abort
<1>1. SteadyThings' = {}
  BY DEF SteadyThings
<1> QED BY <1>1 DEF Enum!Abort

\* A pass that begins.
LEMMA EnumBegin ==
    ASSUME TypeInv, call' = call, rows' = rows, Status = "idle", Status' = "open", Shown = <<>>
    PROVE  Enum!Begin
<1>1. SteadyThings' \in SUBSET Object
  BY DEF SteadyThings
<1>2. Shown' = <<>>
  BY ShownKept
<1> QED BY <1>1, <1>2 DEF Enum!Begin

\* A pass that comes to its end.
LEMMA EnumComplete ==
    ASSUME TypeInv, PassInv, PassInv', UNCHANGED <<kernel, call, rows>>,
           Status = "open", Status' = "complete"
    PROVE  Enum!Complete
<1>1. SteadyThings' = SteadyThings /\ Shown' = Shown
  BY SteadyThingsKept, ShownKept
<1>2. Complete'
  BY StatusIs DEF InPass, Complete, Status, Ended
<1>3. ASSUME NEW o \in SteadyThings
      PROVE  o \in Enum!Members(Shown)
  <2>1. o \in Object /\ Wanted(o)' /\ Steady(o)'
    BY SteadyThingsIs DEF Wanted, WantedKind, Steady, kernel
  <2>2. IsShown(o)'
    BY <1>2, <2>1 DEF PassInv, CoverInv
  <2>3. IsShown(o)
    BY <1>1, <2>2 DEF IsShown
  <2> QED BY <2>3, MembersAre
<1> QED BY <1>1, <1>3 DEF Enum!Complete

\* Another one is shown.
LEMMA EnumShow ==
    ASSUME TypeInv, PassInv, UNCHANGED <<kernel, call>>, AtHand, Status' = "open",
           NEW n \in Nat, DOMAIN Shown = 1 .. n, DOMAIN Shown' = 1 .. (n + 1),
           \A i \in 1 .. n : Shown'[i] = Shown[i], Shown'[n + 1] = obj
    PROVE  Enum!Show(obj) /\ obj \in Object
<1>1. InPass /\ Status = "open" /\ SteadyThings' = SteadyThings
  BY StatusIs, SteadyThingsKept
<1>2. Wanted(obj) /\ obj \in Object
  BY DEF PassInv, HandInv, Wanted, Children
<1>3. obj \notin Enum!Members(Shown)
  BY <1>1, <1>2, MembersAre, ShownIs, Orders DEF PassInv, ShownInv, IsShown
<1>4. Shown \in Seq(Object) /\ Len(Shown) = n
  <2>1. Shown \in [1 .. n -> Object]
    <3>1. /\ call.op = "list" => Shown = [i \in DOMAIN rows |-> rows[i].obj]
          /\ call.op = "show" => Shown = [i \in 1 .. Len(rows) - 1 |-> rows[i + 1].obj]
          /\ call.op = "list" \/ call.op = "show"
      BY DEF Shown, AtHand
    <3>2. \A i \in DOMAIN Shown : Shown[i] \in Object
      BY ShownIs
    <3> QED BY <3>1, <3>2
  <2>2. Shown \in Seq(Object)
    BY <2>1, SeqDef
  <2>3. DOMAIN Shown = 1 .. Len(Shown) /\ Len(Shown) \in Nat
    BY <2>2, LenProperties
  <2> QED BY <2>2, <2>3
<1>5. Shown' \in Seq(Object) /\ Len(Shown') = n + 1
  <2>1. Shown' \in [1 .. (n + 1) -> Object]
    <3>1. /\ call.op = "list" => Shown' = [i \in DOMAIN rows' |-> rows'[i].obj]
          /\ call.op = "show" => Shown' = [i \in 1 .. Len(rows') - 1 |-> rows'[i + 1].obj]
          /\ call.op = "list" \/ call.op = "show"
      BY DEF Shown, AtHand
    <3>2. \A i \in 1 .. (n + 1) : Shown'[i] \in Object
      BY <1>2, ShownIs
    <3> QED BY <3>1, <3>2
  <2>2. Shown' \in Seq(Object)
    BY <2>1, SeqDef
  <2>3. DOMAIN Shown' = 1 .. Len(Shown') /\ Len(Shown') \in Nat
    BY <2>2, LenProperties
  <2> QED BY <2>2, <2>3
<1>6. Shown' = Append(Shown, obj)
  <2>1. /\ Append(Shown, obj) \in Seq(Object)
        /\ Len(Append(Shown, obj)) = n + 1
        /\ \A i \in 1 .. n : Append(Shown, obj)[i] = Shown[i]
        /\ Append(Shown, obj)[n + 1] = obj
    BY <1>2, <1>4, AppendProperties
  <2>2. \A i \in 1 .. (n + 1) : Shown'[i] = Append(Shown, obj)[i]
    BY <2>1
  <2> QED BY <1>5, <2>1, <2>2, SeqEqual
<1> QED BY <1>1, <1>2, <1>3, <1>6 DEF Enum!Show

LEMMA EnumProcess ==
    ASSUME TypeInv, PassInv, PassInv', Process
    PROVE  [Enum!Next]_Enum!vars
<1> USE DEF Status, Ended, At, Return, Die
<1>0. UNCHANGED kernel
  BY DEF Process
<1>1. CASE ReadFile \/ GetDriver \/ GetInfo \/ ReadAhead \/ OpenPorts \/ CountPort \/ EndCount
  <2>1. UNCHANGED <<call, rows>>
    BY <1>1 DEF ReadFile, GetDriver, GetInfo, ReadAhead, OpenPorts, CountPort, EndCount
  <2>2. Status' = Status
    <3>1. CASE ReadFile \/ ReadAhead
      BY <3>1 DEF ReadFile, ReadAhead
    <3>2. CASE GetDriver \/ GetInfo
      BY <3>2 DEF GetDriver, GetInfo
    <3>3. CASE OpenPorts \/ CountPort \/ EndCount
      <4>1. /\ call.op = "show" /\ call' = call
            /\ pc \in {"openports", "count"} /\ pc' \in {"count", "info"}
        BY <3>3
           DEF OpenPorts, OpenAt, CountPort, EndCount, EndAt, TypeInv, ControlOK
      <4>2. Status = "idle" /\ Status' = "idle"
        BY <4>1
      <4> QED BY <4>2
    <3> QED BY <1>1, <3>1, <3>2, <3>3
  <2> QED BY <1>0, <2>1, <2>2, EnumStutter, ShownKept
<1>2. CASE ReadCrashes \/ NoDriver \/ NoMemory \/ AllocFails \/ PortAllocFails
  <2>1. UNCHANGED <<call, rows>> /\ Status' = "idle" /\ Status # "complete"
    BY <1>2 DEF ReadCrashes, Reading, NoDriver, NoMemory, AllocFails, PortAllocFails, TypeInv, ControlOK
  <2>2. Status \in {"idle", "open"} /\ Shown' = Shown
    BY <2>1, ShownKept
  <2> QED BY <1>0, <2>1, <2>2, EnumStutter, EnumAbort DEF Enum!Next
<1>3. CASE OpenHosts \/ OpenList
  <2>1. UNCHANGED <<call, rows>> /\ Status = "idle" /\ Status' \in {"idle", "open"}
    BY <1>3 DEF OpenHosts, OpenList, OpenAt, TypeInv, ControlOK
  <2>2. Shown = <<>>
    <3>1. CASE OpenHosts
      <4>1. call.op = "list" /\ rows = <<>>
        BY <3>1 DEF OpenHosts, TypeInv, ControlOK, PassInv, PlaceInv
      <4>2. Shown = [i \in {} |-> rows[i].obj]
        BY <4>1 DEF Shown
      <4> QED BY <4>2
    <3>2. CASE OpenList
      <4>1. call.op = "show" /\ Len(rows) = 1
        BY <3>2 DEF OpenList, TypeInv, ControlOK, PassInv, PlaceInv
      <4>2. Shown = [i \in {} |-> rows[i + 1].obj]
        BY <4>1 DEF Shown
      <4> QED BY <4>2
    <3> QED BY <1>3, <3>1, <3>2
  <2> QED BY <1>0, <2>1, <2>2, EnumStutter, EnumBegin, ShownKept DEF Enum!Next
<1>4. CASE TakeHost \/ TakePort
  <2>1. UNCHANGED <<call, rows>> /\ Status = "open" /\ Status' = "open"
    BY <1>4 DEF TakeHost, TakePort, TypeInv, ControlOK
  <2> QED BY <1>0, <2>1, EnumStutter, ShownKept
<1>5. CASE EndHosts \/ EndList
  <2>1. UNCHANGED <<call, rows>> /\ Status = "open" /\ Status' = "complete"
    BY <1>5 DEF EndHosts, EndList, EndAt, TypeInv, ControlOK, PassInv, PlaceInv
  <2> QED BY <1>0, <2>1, EnumComplete DEF Enum!Next
<1>6. CASE PrintHost /\ call.op # "list"
  <2>1. call' = call /\ rows' = Append(rows, Row) /\ obj \in Object
    BY <1>6 DEF PrintHost, TypeInv, ControlOK, AboutHost
  <2>2. Status = "idle" /\ Status' = "idle"
    <3>1. call.op \in {"show", "stats"} /\ pc = "print" /\ UNCHANGED <<call, ports>>
      BY <1>6, Orders DEF PrintHost
    <3>2. \/ call.op = "show" /\ ports > 0 /\ pc' = "openlist"
          \/ ~(call.op = "show" /\ ports > 0) /\ pc' = "done" /\ result' = "0"
      BY <1>6 DEF PrintHost
    <3>3. Status = "idle"
      BY <3>1
    <3>4. Status' = "idle"
      BY <3>1, <3>2
    <3> QED BY <3>3, <3>4
  <2>3. Shown' = Shown
    BY <1>6, <2>1, ShownAppended, Orders DEF PrintHost, PassInv, PlaceInv, AboutHost
  <2> QED BY <1>0, <2>1, <2>2, <2>3, EnumStutter
<1>7. CASE PrintHost /\ call.op = "list"
  <2>1. call' = call /\ rows' = Append(rows, Row) /\ obj \in Object /\ AtHand /\ Status' = "open"
    BY <1>7 DEF PrintHost, AtHand, TypeInv, ControlOK, AboutHost
  <2>2. Len(rows) \in Nat
    BY Orders
  <2> QED BY <1>0, <1>7, <2>1, <2>2, EnumShow, ShownAppended DEF Enum!Next
<1>8. CASE PrintPort
  <2>1. /\ call' = call /\ rows' = Append(rows, Row) /\ obj \in Object
        /\ call.op = "show" /\ AtHand /\ Status' = "open" /\ Len(rows) > 0
    BY <1>8 DEF PrintPort, AtHand, TypeInv, ControlOK, PassInv, PlaceInv
  <2> DEFINE n == Len(rows) - 1
  <2>2. n \in Nat /\ n + 1 = Len(rows)
    BY <2>1, Orders
  <2>3. /\ DOMAIN Shown = 1 .. n /\ DOMAIN Shown' = 1 .. (n + 1)
        /\ \A i \in 1 .. n : Shown'[i] = Shown[i]
        /\ Shown'[n + 1] = obj
    BY <2>1, <2>2, ShownAppended
  <2> HIDE DEF n
  <2> QED BY <1>0, <2>1, <2>2, <2>3, EnumShow DEF Enum!Next
<1> QED
  BY <1>1, <1>2, <1>3, <1>4, <1>5, <1>6, <1>7, <1>8 DEF Process

LEMMA EnumStep ==
    ASSUME TypeInv, PassInv, PassInv', [Next]_vars
    PROVE  [Enum!Next]_Enum!vars
<1>1. CASE Process
  BY <1>1, EnumProcess
<1>2. CASE Kernel
  <2>1. UNCHANGED <<call, pc, obj, ports, stream, rows, result>>
    BY <1>2 DEF Kernel, proc
  <2>2. Status' = Status /\ Shown' = Shown
    BY <2>1, ShownKept DEF Status
  <2>3. SteadyThings' \subseteq SteadyThings
    BY <1>2, <2>1, <2>2, TreeStep DEF SteadyThings, PassInv
  <2>4. CASE Status \in {"open", "complete"}
    BY <2>2, <2>3, <2>4 DEF Enum!Next, Enum!Disturb
  <2>5. CASE Status = "idle"
    BY <2>2, <2>5 DEF SteadyThings, Enum!vars
  <2> QED BY <2>4, <2>5 DEF Status
<1>3. CASE UNCHANGED vars
  <2>1. UNCHANGED <<kernel, call, rows>> /\ Status' = Status
    BY <1>3 DEF vars, proc, Status
  <2> QED BY <2>1, EnumStutter, ShownKept
<1> QED BY <1>1, <1>2, <1>3 DEF Next, Finished

\* The list of hosts, and that of the ports of a host, is an enumeration of what
\* is there, through every step of the program and the kernel.
THEOREM ImplementsEnumeration == Spec => EnumeratesHostsAndPorts
BY PassInvariant, EnumInit, EnumStep, PTL
   DEF Spec, EnumeratesHostsAndPorts, Enum!Spec

-----------------------------------------------------------------------------
(* The two passes over the ports of a host. *)

Entries == Children(call.host) \cap present

\* What readdir() has returned of it.
Returned == {o \in Entries : o \notin stream.buf /\ Hash[o] <= stream.cursor}

Ports(S) == {o \in S : Kind[o] = "rport"}

\* The ports that have something else behind them.
Behind(S) == {p \in Ports(S) : \E o \in S : Kind[o] # "rport" /\ Hash[o] > Hash[p]}

\* What their number is taken to be.
Found == IF stream.dir = call.host THEN Cardinality(Behind(Entries)) ELSE 0

\* While the ports are counted, count is how many have been returned, and ports
\* how many had been when the last entry of another kind was; afterwards ports
\* is how many have such an entry behind them, and 0 if the directory could not
\* be opened.
CountInv ==
    call.op = "show" /\ Quiet(call.host) =>
        /\ pc \in {"driver", "openports"} => stream.dir # call.host
        /\ pc = "count" =>
               /\ \A o \in Returned, b \in stream.buf : Hash[o] < Hash[b]
               /\ IsFiniteSet(Ports(Returned))
               /\ count = Cardinality(Ports(Returned))
               /\ ports = Cardinality(Behind(Returned))
        /\ pc \in {"info", "print"} => ports = Found
        /\ rows # <<>> => rows[1].ports = Found

LEMMA FoundIs ==
    /\ PortsOf(call.host) = Ports(Entries)
    /\ IsFiniteSet(Ports(Entries)) /\ Cardinality(Ports(Entries)) \in Nat
    /\ Found <= Cardinality(Ports(Entries))
    /\ OtherLast(call.host) => Behind(Entries) = Ports(Entries)
<1>1. PortsOf(call.host) = Ports(Entries) /\ Behind(Entries) \subseteq Ports(Entries)
  BY DEF PortsOf, Behind, Ports, Entries
<1>2. IsFiniteSet(Ports(Entries))
  <2>1. Ports(Entries) \subseteq Object
    BY DEF Ports, Entries, Children
  <2> QED BY <2>1, FiniteAssumption, FS_Subset
<1>3. /\ Cardinality(Behind(Entries)) <= Cardinality(Ports(Entries))
      /\ Cardinality(Ports(Entries)) \in Nat
  BY <1>1, <1>2, FS_Subset, FS_CardinalityType
<1>4. OtherLast(call.host) => Behind(Entries) = Ports(Entries)
  <2> SUFFICES ASSUME OtherLast(call.host), NEW p \in Ports(Entries)
               PROVE  p \in Behind(Entries)
    BY <1>1
  <2>1. PICK o \in Entries : Kind[o] # "rport" /\ \A q \in Ports(Entries) : Hash[q] < Hash[o]
    BY <1>1 DEF OtherLast, Entries
  <2>2. Hash[p] \in Nat /\ Hash[o] \in Nat /\ Hash[p] < Hash[o]
    BY <2>1, HashAssumption DEF Ports, Entries, Children
  <2> QED BY <2>1, <2>2 DEF Behind
<1> QED BY <1>1, <1>2, <1>3, <1>4 DEF Found

LEMMA QuietStep ==
    ASSUME TypeInv, Kernel, Quiet(call.host)'
    PROVE  Quiet(call.host) /\ Entries' = Entries
<1>1. call' = call /\ call.host \in Object \cup {Root}
  BY CallType DEF Kernel, proc, TypeInv, TypeOK
<1>2. \A o \in Object : o \notin touched' => /\ o \notin touched
                                             /\ (o \in present' <=> o \in present)
  BY DEF Kernel, Hotplug, Appear, Vanish
<1>3. call.host \in Object
  BY <1>1, TreeAssumption DEF Quiet, Steady, Kernel, Hotplug, Appear, Vanish, TypeInv, TypeOK,
     KernelTypeOK, Others, Children
<1>4. Quiet(call.host)
  BY <1>1, <1>2, <1>3 DEF Quiet, Steady, Children
<1>5. Entries' = Entries
  BY <1>1, <1>2 DEF Quiet, Entries, Children
<1> QED BY <1>4, <1>5

\* One entry is returned: a port is one port more, with nothing behind it; any
\* other has all ports before it.
LEMMA CountPortStep ==
    ASSUME TypeInv, PassInv, CountInv, CountPort, UNCHANGED kernel
    PROVE  CountInv'
<1>1. PICK x \in stream.buf :
         /\ IsFirst(x, stream.buf) /\ stream' = Taken(stream, x)
         /\ IF Kind[x] = "rport" THEN count' = count + 1 /\ ports' = ports
                                 ELSE ports' = count /\ count' = count
  BY DEF CountPort, Take
<1>2. pc = "count" /\ pc' = "count" /\ call' = call /\ call.op = "show"
  BY DEF CountPort, At, TypeInv, ControlOK
<1> SUFFICES ASSUME Quiet(call.host)
             PROVE  /\ \A o \in Returned', b \in stream'.buf : Hash[o] < Hash[b]
                    /\ IsFiniteSet(Ports(Returned'))
                    /\ count' = Cardinality(Ports(Returned'))
                    /\ ports' = Cardinality(Behind(Returned'))
  <2>1. rows' = rows /\ rows = <<>>
    BY <1>2 DEF CountPort, PassInv, PlaceInv, AboutHost
  <2>2. Quiet(call.host)' = Quiet(call.host)
    BY <1>2 DEF Quiet, Steady, kernel
  <2> QED BY <1>2, <2>1, <2>2 DEF CountInv
<1>3. /\ IsFiniteSet(Ports(Returned))
      /\ count = Cardinality(Ports(Returned))
      /\ ports = Cardinality(Behind(Returned))
  BY <1>2 DEF CountInv
<1>4. /\ x \in Entries /\ x \in Object /\ Hash[x] <= stream.cursor
      /\ \A b \in stream.buf : Hash[x] <= Hash[b]
  BY <1>1, <1>2 DEF PassInv, StreamInv, Quiet, Met, Entries, Children, IsFirst
<1>5. stream'.cursor = stream.cursor /\ stream'.buf = stream.buf \ {x}
  BY <1>1, TakenIs, Orders
<1>6. Returned' = Returned \cup {x} /\ x \notin Returned
  BY <1>2, <1>4, <1>5 DEF Returned, Entries, kernel
<1>7. Hash[x] \in Nat /\ \A o \in Returned : Hash[o] \in Nat /\ Hash[o] < Hash[x]
  BY <1>2, <1>4, <1>6, Orders DEF CountInv, Returned, Entries, Children
<1>8. \A o \in Returned', b \in stream'.buf : Hash[o] < Hash[b]
  <2>1. \A b \in stream'.buf : b \in Object /\ b # x /\ Hash[x] < Hash[b]
    BY <1>4, <1>5, Orders
  <2> QED BY <1>6, <1>7, <2>1, Orders
<1>9. CASE Kind[x] = "rport"
  <2>1. Ports(Returned') = Ports(Returned) \cup {x} /\ x \notin Ports(Returned)
    BY <1>6, <1>9 DEF Ports
  <2>2. Behind(Returned') = Behind(Returned)
    <3>1. \A o \in Returned \cup {x} : ~(Hash[o] > Hash[x])
      BY <1>7
    <3> QED BY <1>6, <1>9, <2>1, <3>1 DEF Behind
  <2>3. /\ IsFiniteSet(Ports(Returned'))
        /\ Cardinality(Ports(Returned')) = Cardinality(Ports(Returned)) + 1
    BY <1>3, <2>1, FS_AddElement
  <2> QED BY <1>1, <1>3, <1>9, <1>8, <2>2, <2>3
<1>10. CASE Kind[x] # "rport"
  <2>1. Ports(Returned') = Ports(Returned)
    BY <1>6, <1>10 DEF Ports
  <2>2. Behind(Returned') = Ports(Returned)
    <3>1. x \in Returned' /\ \A o \in Returned : Hash[x] > Hash[o]
      BY <1>6, <1>7
    <3> QED BY <1>10, <2>1, <3>1 DEF Behind, Ports
  <2> QED BY <1>1, <1>3, <1>10, <1>8, <2>1, <2>2
<1> QED BY <1>9, <1>10

\* A step that leaves the number and the directory of the stream alone.
LEMMA FoundKept ==
    ASSUME CountInv, UNCHANGED <<kernel, call, ports, rows>>, stream'.dir = stream.dir,
           pc' \notin {"count", "driver", "openports"} \/ pc' = pc, pc' # "count",
           pc' \in {"info", "print"} => pc \in {"info", "print"}
    PROVE  CountInv'
<1>1. (Quiet(call.host)' <=> Quiet(call.host)) /\ Entries' = Entries /\ Found' = Found
  BY DEF Quiet, Steady, Entries, Found, kernel
<1> QED BY <1>1 DEF CountInv

LEMMA CountStep ==
    ASSUME TypeInv, PassInv, CountInv, [Next]_vars
    PROVE  CountInv'
<1>0. /\ call.op = "show" /\ pc \in {"driver", "openports", "count", "info", "print"} => rows = <<>>
      /\ UNCHANGED <<kernel, call>> => Quiet(call.host)' = Quiet(call.host) /\ Entries' = Entries
  BY DEF PassInv, PlaceInv, AboutHost, Quiet, Steady, Entries, kernel
<1>1. CASE Kernel
  <2> SUFFICES ASSUME call.op = "show", Quiet(call.host)'
               PROVE  CountInv'
    BY <1>1 DEF Kernel, proc, CountInv
  <2>1. Quiet(call.host) /\ Entries' = Entries /\ UNCHANGED <<call, pc, stream, count, ports, rows>>
    BY <1>1, QuietStep DEF Kernel, proc
  <2>2. Returned' = Returned /\ Found' = Found
    BY <2>1 DEF Returned, Found
  <2> QED BY <2>1, <2>2 DEF CountInv
<1>2. CASE ReadFile /\ UNCHANGED kernel
  BY <1>2 DEF ReadFile, CountInv, Quiet, Steady, Returned, Entries, Found, kernel
<1>3. CASE OpenPorts /\ UNCHANGED kernel
  <2>1. /\ call' = call /\ rows' = <<>> /\ call.op = "show" /\ obj = call.host /\ ports = 0
        /\ pc = "openports" /\ pc # "count" /\ Entries' = Entries
        /\ Quiet(call.host)' = Quiet(call.host)
    BY <1>0, <1>3 DEF OpenPorts, At, TypeInv, ControlOK, PassInv, PlaceInv, Ended
  <2>2. CASE OpenAt(obj, "count") /\ ports' = ports
    <3>1. stream'.cursor = 0 /\ pc' = "count"
      BY <2>2, OpenedIs DEF OpenAt
    <3>2. \A o \in Entries : ~(Hash[o] <= 0)
      BY Orders DEF Entries, Children
    <3>3. Returned' = {}
      BY <2>1, <3>1, <3>2 DEF Returned
    <3>4. Ports({}) = {} /\ Behind({}) = {}
      BY DEF Ports, Behind
    <3>5. IsFiniteSet({}) /\ Cardinality({}) = 0
      BY FS_EmptySet
    <3> QED BY <1>3, <2>1, <2>2, <3>1, <3>3, <3>4, <3>5 DEF OpenPorts, CountInv
  <2>3. CASE ports' = 0 /\ pc' = "info" /\ stream' = stream
    <3>1. Quiet(call.host) => stream'.dir # call'.host
      BY <2>1, <2>3 DEF CountInv
    <3>2. Quiet(call.host) => ports' = Found'
      BY <2>3, <3>1 DEF Found
    <3> QED BY <2>1, <2>3, <3>2 DEF CountInv
  <2> QED BY <1>3, <2>2, <2>3 DEF OpenPorts
<1>4. CASE CountPort /\ UNCHANGED kernel
  BY <1>4, CountPortStep
<1>5. CASE ReadAhead /\ UNCHANGED kernel
  <2>1. /\ UNCHANGED <<pc, call, count, ports, rows>> /\ Entries' = Entries
        /\ Quiet(call.host)' = Quiet(call.host)
    BY <1>0, <1>5 DEF ReadAhead
  <2>2. PICK x \in Ahead(stream) : IsFirst(x, Ahead(stream)) /\ stream' = Fetched(stream, x)
    BY <1>5 DEF ReadAhead
  <2>3. stream'.dir = stream.dir /\ stream'.cursor = Hash[x] /\ stream'.buf = stream.buf \cup {x}
    BY <2>2, FetchedIs, Orders
  <2>4. CASE pc # "count"
    BY <1>5, <2>1, <2>3, <2>4, FoundKept
  <2>5. CASE pc = "count"
    <3> SUFFICES ASSUME call.op = "show", Quiet(call.host)
                 PROVE  /\ Returned' = Returned
                        /\ \A o \in Returned, b \in stream'.buf : Hash[o] < Hash[b]
      BY <1>0, <2>1, <2>5 DEF CountInv
    <3>1. /\ x \in Object /\ Hash[x] > stream.cursor
          /\ \A o \in Entries : Hash[o] > stream.cursor => Hash[x] <= Hash[o]
      BY <2>2, <2>5, AheadIs DEF PassInv, IsFirst, Entries, Quiet, Steady, Children
    <3>2. Returned' = Returned
      BY <2>1, <2>3, <3>1, Orders DEF Returned, Entries, Children
    <3>3. \A o \in Returned : Hash[o] < Hash[x]
      BY <3>1, Orders DEF Returned, Entries, Children
    <3> QED BY <2>3, <2>5, <3>2, <3>3 DEF CountInv
  <2> QED BY <2>4, <2>5
<1>6. CASE EndCount /\ UNCHANGED kernel
  <2>1. /\ UNCHANGED <<call, count, ports, rows, stream>> /\ AtEnd(stream)
        /\ pc = "count" /\ pc' = "info" /\ Entries' = Entries /\ call.op = "show"
        /\ Quiet(call.host)' = Quiet(call.host) /\ stream.dir = call.host
    BY <1>0, <1>6 DEF EndCount, EndAt, At, PassInv, StreamInv, TypeInv, ControlOK
  <2> SUFFICES ASSUME Quiet(call.host)
               PROVE  Returned = Entries
    <3>1. Found' = Cardinality(Behind(Entries))
      BY <2>1 DEF Found
    <3> QED BY <1>0, <2>1, <3>1 DEF CountInv
  <2>2. \A o \in Entries : Steady(o)
    BY DEF Quiet, Steady, Entries
  <2>3. \A o \in Entries : o \notin stream.buf /\ Hash[o] <= stream.cursor
    BY <2>1, <2>2, AheadIs, Orders DEF PassInv, AtEnd, Entries, Children
  <2> QED BY <2>3 DEF Returned
<1>7. CASE OpenList /\ UNCHANGED kernel
  <2>1. /\ UNCHANGED <<call, rows>> /\ pc = "openlist" /\ pc' \in {"rports", "done"}
        /\ Entries' = Entries /\ Quiet(call.host)' = Quiet(call.host)
        /\ stream' = stream \/ stream' = Opened(obj)
    BY <1>0, <1>7 DEF OpenList, OpenAt, At, Return
  <2> SUFFICES ASSUME call.op = "show", Quiet(call.host)
               PROVE  Found' = Found
    BY <2>1 DEF CountInv
  <2>2. /\ rows # <<>> /\ rows[1].ports = ports /\ ports > 0 /\ obj = call.host
    BY <2>1, Orders DEF PassInv, PlaceInv, Ended
  <2>3. stream.dir = call.host
    BY <2>2 DEF CountInv, Found
  <2>4. stream'.dir = call.host
    BY <2>1, <2>2, <2>3, OpenedIs
  <2> QED BY <2>1, <2>3, <2>4 DEF Found
<1>8. CASE PrintHost /\ UNCHANGED kernel
  <2>1. /\ UNCHANGED <<call, ports, stream>> /\ pc = "print" /\ rows' = Append(rows, Row)
        /\ call.op = "show" => pc' \in {"openlist", "done"}
        /\ Entries' = Entries /\ Quiet(call.host)' = Quiet(call.host)
    BY <1>0, <1>8 DEF PrintHost, At, Return
  <2> SUFFICES ASSUME call.op = "show", Quiet(call.host)
               PROVE  rows'[1].ports = Found'
    BY <2>1 DEF CountInv
  <2>2. rows' = <<Row>> /\ Row.ports = ports
    BY <1>0, <2>1 DEF Row
  <2> QED BY <2>1, <2>2 DEF CountInv, Found
<1>9. CASE PrintPort /\ UNCHANGED kernel
  <2>1. /\ UNCHANGED <<call, stream>> /\ pc' = "rports" /\ rows' = Append(rows, Row)
        /\ call.op = "show" /\ Entries' = Entries /\ Quiet(call.host)' = Quiet(call.host)
        /\ Len(rows) > 0 /\ rows \in Seq(Rows) /\ Row \in Rows
    <3>1. UNCHANGED <<call, stream>> /\ pc' = "rports" /\ rows' = Append(rows, Row)
          /\ pc = "printport"
      BY <1>9 DEF PrintPort, At
    <3>2. call.op = "show" /\ obj \in Object /\ rows \in Seq(Rows) /\ Row \in Rows
      BY <3>1 DEF Row, Rows, TypeInv, TypeOK, ControlOK, Ended
    <3>3. Len(rows) > 0
      BY <3>1, <3>2 DEF PassInv, PlaceInv
    <3> QED BY <1>0, <1>9, <3>1, <3>2, <3>3
  <2>2. rows'[1] = rows[1] /\ rows # <<>>
    BY <2>1, AppendProperties, Orders
  <2>3. Found' = Found
    BY <2>1 DEF Found
  <2> QED BY <2>1, <2>2, <2>3 DEF CountInv
<1>10. CASE TakePort /\ UNCHANGED kernel
  <2>1. UNCHANGED <<call, ports, rows>> /\ pc' \in {"rports", "printport"}
    BY <1>10 DEF TakePort, At
  <2>2. stream'.dir = stream.dir
    BY <1>10, TakenIs, Orders DEF TakePort, Take
  <2> QED BY <1>10, <2>1, <2>2, FoundKept
<1>11. CASE (GetDriver \/ GetInfo) /\ UNCHANGED kernel
  <2>1. /\ UNCHANGED <<call, ports, rows, stream>> /\ Entries' = Entries
        /\ Quiet(call.host)' = Quiet(call.host)
        /\ call.op = "show" => \/ pc = "driver" /\ pc' = "openports"
                               \/ pc = "info" /\ pc' = "print"
    BY <1>0, <1>11 DEF GetDriver, GetInfo, At
  <2>2. Found' = Found
    BY <2>1 DEF Found
  <2> QED BY <2>1, <2>2 DEF CountInv
<1>12. CASE (ReadCrashes \/ NoDriver \/ NoMemory \/ PortAllocFails \/ EndList) /\ UNCHANGED kernel
  <2>1. UNCHANGED <<call, ports, rows>> /\ pc' \in {"crashed", "done"}
    BY <1>12 DEF ReadCrashes, NoDriver, NoMemory, PortAllocFails, EndList, EndAt, Die, Return
  <2>2. stream'.dir = stream.dir
    BY <1>12, TakenIs, Orders
       DEF ReadCrashes, NoDriver, NoMemory, PortAllocFails, EndList, Take
  <2> QED BY <1>12, <2>1, <2>2, FoundKept
<1>13. CASE (OpenHosts \/ TakeHost \/ AllocFails \/ EndHosts) /\ UNCHANGED kernel
  <2>1. call'.op = "list"
    BY <1>13 DEF OpenHosts, TakeHost, AllocFails, EndHosts, EndAt, At, TypeInv, ControlOK
  <2> QED BY <2>1 DEF CountInv
<1>14. CASE UNCHANGED vars
  BY <1>14 DEF vars, proc, kernel, CountInv, Quiet, Steady, Returned, Entries, Found
<1> QED
  BY <1>1, <1>2, <1>3, <1>4, <1>5, <1>6, <1>7, <1>8, <1>9, <1>10, <1>11, <1>12, <1>13, <1>14
     DEF Next, Process, Finished

LEMMA CountInit == Init => CountInv
<1> SUFFICES ASSUME Init PROVE CountInv
  OBVIOUS
<1>1. rows = <<>> /\ pc \notin {"count", "info"} /\ (call.op = "show" => pc = "driver")
  BY InitType, Orders DEF Init
<1>2. stream.dir = Root
  BY OpenedIs DEF Init
<1>3. call.op = "show" => call.host # Root
  BY InitType, CallType, CallsAssumption, TreeAssumption DEF Init, TypeInv, TypeOK
<1> QED BY <1>1, <1>2, <1>3 DEF CountInv

\* If nothing happened to the ports, those printed are all there are, each once.
LEMMA PortsShown ==
    ASSUME TypeInv, PassInv, pc = "done", call.op = "show", ports > 0, Quiet(call.host)
    PROVE  /\ {rows[i].obj : i \in DOMAIN rows \ {1}} = Ports(Entries)
           /\ Len(rows) = 1 + Cardinality(Ports(Entries))
<1> DEFINE n == Len(rows) - 1
           S == Ports(Entries)
<1>1. Complete /\ Len(rows) > 0 /\ n \in Nat /\ DOMAIN rows = 1 .. (n + 1)
  BY Orders DEF Complete, PassInv, PlaceInv
<1>2. DOMAIN Shown = 1 .. n /\ \A i \in 1 .. n : Shown[i] = rows[i + 1].obj /\ Shown[i] \in Object
  BY ShownIs
<1> HIDE DEF n
<1>3. \A i \in 1 .. n : Shown[i] \in S
  BY <1>2 DEF PassInv, ShownInv, Wanted, WantedKind, Met, Quiet, Ports, Entries
<1>4. \A o \in S : \E i \in 1 .. n : Shown[i] = o
  <2> SUFFICES ASSUME NEW o \in S PROVE IsShown(o)
    BY <1>2 DEF IsShown
  <2>1. o \in Object /\ Wanted(o) /\ Steady(o)
    BY DEF Ports, Entries, Quiet, Wanted, WantedKind, Steady, Children
  <2> QED BY <1>1, <2>1 DEF PassInv, CoverInv
<1>5. {rows[i].obj : i \in DOMAIN rows \ {1}} = S
  <2>1. DOMAIN rows \ {1} = {i + 1 : i \in 1 .. n}
    <3>1. \A j \in DOMAIN rows \ {1} : j - 1 \in 1 .. n /\ (j - 1) + 1 = j
      BY <1>1
    <3>2. \A i \in 1 .. n : i + 1 \in DOMAIN rows \ {1}
      BY <1>1
    <3> QED BY <3>1, <3>2
  <2> QED BY <1>2, <1>3, <1>4, <2>1
<1>6. Cardinality(S) = n
  <2> DEFINE f == [i \in 1 .. n |-> Shown[i]]
  <2>1. \A i, j \in 1 .. n : i # j => f[i] # f[j]
    <3>1. \A i, j \in 1 .. n : i < j => f[i] # f[j]
      BY <1>2, Orders DEF PassInv, ShownInv
    <3> QED BY <1>1, <3>1
  <2>2. f \in Bijection(1 .. n, S)
    <3> HIDE DEF S
    <3>1. f \in [1 .. n -> S] /\ \A i \in 1 .. n : f[i] = Shown[i]
      BY <1>3
    <3>2. \A o \in S : \E i \in 1 .. n : f[i] = o
      BY <1>4, <3>1
    <3> HIDE DEF f
    <3>3. DOMAIN f = 1 .. n
      BY <3>1
    <3>4. IsInjective(f)
      BY <2>1, <3>3 DEF IsInjective
    <3>5. f \in Injection(1 .. n, S)
      BY <3>1, <3>4 DEF Injection
    <3>6. f \in Surjection(1 .. n, S)
      BY <3>1, <3>2 DEF Surjection
    <3> QED BY <3>5, <3>6 DEF Bijection
  <2> HIDE DEF f, S
  <2>3. ExistsBijection(1 .. n, S)
    BY <2>2 DEF ExistsBijection
  <2>4. IsFiniteSet(1 .. n) /\ Cardinality(1 .. n) = n
    <3>1. 1 \in Int /\ n \in Int /\ (IF 1 > n THEN 0 ELSE n - 1 + 1) = n
      BY <1>1
    <3> QED BY <3>1, FS_Interval
  <2> QED BY <2>3, <2>4, FS_Bijection
<1> QED BY <1>1, <1>5, <1>6 DEF n

\* `show fc_port' of a host to which nothing happens: the number of its remote
\* ports is never too large, and right if something else ends the directory; the
\* ports are printed all, each once, or not at all, and all if the number is
\* right and the directory can be opened again.
THEOREM PortsFit == Spec => []PortsFitList
<1>1. TypeInv /\ PassInv /\ CountInv => PortsFitList
  <2> SUFFICES ASSUME TypeInv, PassInv, CountInv, pc = "done", call.op = "show", Quiet(call.host)
               PROVE  /\ rows[1].ports <= Cardinality(PortsOf(call.host))
                      /\ Listed \in {{}, PortsOf(call.host)} /\ Len(rows) = 1 + Cardinality(Listed)
                      /\ OtherLast(call.host) /\ stream.dir = call.host =>
                             /\ rows[1].ports = Cardinality(PortsOf(call.host))
                             /\ ports = rows[1].ports => Listed = PortsOf(call.host)
    BY DEF PortsFitList
  <2>1. Len(rows) > 0 /\ rows # <<>> /\ (ports = 0 => Len(rows) = 1) /\ ports \in Nat
    BY Orders DEF PassInv, PlaceInv, TypeInv, TypeOK
  <2>2. rows[1].ports = Found
    BY <2>1 DEF CountInv
  <2>3. CASE ports > 0
    BY <2>2, <2>3, PortsShown, FoundIs DEF Found, Listed
  <2>4. CASE ports = 0
    <3>1. Listed = {} /\ Len(rows) = 1 /\ Cardinality(Listed) = 0
      <4>1. DOMAIN rows \ {1} = {}
        BY <2>1, <2>4, Orders
      <4> QED BY <2>1, <2>4, <4>1, FS_EmptySet DEF Listed
    <3>2. Cardinality(PortsOf(call.host)) = 0 => PortsOf(call.host) = {}
      BY FoundIs, FS_EmptySet
    <3> QED BY <2>2, <2>4, <3>1, <3>2, FoundIs DEF Found
  <2> QED BY <2>1, <2>3, <2>4
<1>2. Spec => [](TypeInv /\ PassInv /\ CountInv)
  BY PassInvariant, CountInit, CountStep, PTL DEF Spec
<1> QED BY <1>1, <1>2, PTL

=============================================================================
