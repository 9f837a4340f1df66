--------------------------- MODULE IscsiPassProofs ---------------------------
(***************************************************************************)
(* Theorems about the passes of IscsiShow over its directories: the disks  *)
(* of a session, found through the loop over its targets and the one over  *)
(* the LUNs of each, and the hosts, which are counted in one pass and      *)
(* listed in another.                                                      *)
(*                                                                         *)
(* The disks are printed in the order of their targets, and below one      *)
(* target in their own; where the two streams stand tells which of those   *)
(* that stay have been printed.  The number of the hosts that stay is at   *)
(* most the one counted, and that is at most the number of those that stay *)
(* and those that came or went: the same holds of the number of rows.      *)
(***************************************************************************)
EXTENDS IscsiShowProofs, FiniteSetTheorems

\* The loop over the targets, within it that over the LUNs, and one at hand.
InTargets == {"targets", "openluns", "luns", "type", "entry", "disk"}
InTarget == InTargets \ {"targets"}
InLuns == {"luns", "type", "entry", "disk"}
AtLun == {"type", "entry", "disk"}

\* Behind the loops.
Behind == {"openconn", "connections", "info", "print", "done"}

\* What is below a session or target that is gone is gone.
TreeInv ==
    \A o \in present :
        Parent[o] \in Object /\ Kind[Parent[o]] \in {"session", "target"} => Parent[o] \in present

MetInv == \A o \in outer.buf \cup inner.buf : Met(o)

Before(l, m) ==
    \/ Hash[Parent[l]] < Hash[Parent[m]]
    \/ Parent[l] = Parent[m] /\ Hash[l] < Hash[m]

\* An array is taken for a disk only if its type could not be read.
Hidden(l) == l \in Array => ~Steady(l)

PhaseInv ==
    /\ call.op = "list" => \A i \in DOMAIN rows : rows[i].of = "host"
    /\ call.op = "show" /\ pc \in {"alloc", "device", "sessions", "opensession"} => rows = <<>>
    /\ pc \in {"findtarget", "opentargets"} => Disks = {}

DiskInv ==
    /\ \A i \in Disks :
           Disk(i) \in Object /\ Below(Disk(i)) /\ Met(Disk(i)) /\ Hidden(Disk(i))
    /\ \A i, j \in Disks : i < j => Before(Disk(i), Disk(j))

\* Where the two streams are, and what is at hand.
WalkInv ==
    /\ pc = "findtarget" => inner.dir = name.session
    /\ pc \in InTargets => outer.dir = name.session
    /\ pc \in InTarget =>
           /\ name.target \in ChildrenOf(name.session, "target")
           /\ Hash[name.target] <= outer.cursor
           /\ \A b \in outer.buf : Hash[name.target] < Hash[b]
    /\ pc \in InLuns => inner.dir = name.target
    /\ pc \in AtLun =>
           /\ name.lun \in Children(name.target) /\ Met(name.lun)
           /\ Hash[name.lun] <= inner.cursor
           /\ \A b \in inner.buf : Hash[name.lun] < Hash[b]
    /\ pc \in {"entry", "disk"} => Kind[name.lun] = "lun" /\ Hidden(name.lun)

\* The disks printed so far come before that.
Past(l) ==
    /\ pc \in InTargets =>
           Hash[Parent[l]] <= outer.cursor /\ \A b \in outer.buf : Hash[Parent[l]] < Hash[b]
    /\ pc = "openluns" => Hash[Parent[l]] < Hash[name.target]
    /\ pc \in InLuns =>
           \/ Hash[Parent[l]] < Hash[name.target]
           \/ /\ Parent[l] = name.target
              /\ Hash[l] <= inner.cursor /\ \A b \in inner.buf : Hash[l] < Hash[b]
    /\ pc \in AtLun => Before(l, name.lun)

OrderInv == \A i \in Disks : Past(Disk(i))

\* It has been printed, or the streams will still come to it.
Reached(l) ==
    /\ pc = "findtarget" => Ahead1(inner, Parent[l])
    /\ pc \in InTargets =>
           \/ Printed(l)
           \/ Ahead1(outer, Parent[l])
           \/ pc = "openluns" /\ Parent[l] = name.target
           \/ pc \in InLuns /\ Parent[l] = name.target /\ Ahead1(inner, l)
           \/ pc \in AtLun /\ l = name.lun
    /\ pc \in Behind /\ HasSession => Printed(l)

CoverInv == \A l \in Object : call.op = "show" /\ Due(l) => Reached(l)

PassInv ==
    TreeInv /\ MetInv /\ PhaseInv /\ DiskInv /\ WalkInv /\ OrderInv /\ CoverInv

-----------------------------------------------------------------------------
(* What the definitions say. *)

LEMMA HashIs ==
    /\ \A o \in Object : Hash[o] \in Nat \ {0}
    /\ \A o, p \in Object : Hash[o] = Hash[p] => o = p
BY HashAssumption

LEMMA StreamsAre ==
    ASSUME TypeInv
    PROVE  /\ outer \in Streams /\ inner \in Streams
           /\ outer.cursor \in Nat /\ outer.buf \subseteq Object
           /\ inner.cursor \in Nat /\ inner.buf \subseteq Object
BY DEF TypeInv, TypeOK, Streams

LEMMA RowsAre ==
    ASSUME TypeInv
    PROVE  /\ Len(rows) \in Nat /\ DOMAIN rows = 1 .. Len(rows)
           /\ \A i \in 1 .. Len(rows) : rows[i] \in Rows
           /\ \A i \in Disks : i \in Nat /\ i \in DOMAIN rows
           /\ rows = <<>> => Disks = {} /\ ~HasSession
<1>1. rows \in Seq(Rows)
  BY DEF TypeInv, TypeOK
<1>2. Len(rows) \in Nat /\ DOMAIN rows = 1 .. Len(rows) /\ (rows = <<>> => Len(rows) = 0)
  BY <1>1, LenProperties, EmptySeq
<1>3. \A i \in 1 .. Len(rows) : rows[i] \in Rows
  BY <1>1, <1>2, ElementOfSeq
<1> QED BY <1>2, <1>3 DEF Disks, HasSession

\* A row is added below the others.
LEMMA AppendedRow ==
    ASSUME TypeInv, NEW of \in Things, rows' = Append(rows, Row(of))
    PROVE  /\ DOMAIN rows' = 1 .. (Len(rows) + 1)
           /\ \A i \in DOMAIN rows : rows'[i] = rows[i]
           /\ rows'[Len(rows) + 1].of = of
           /\ rows'[Len(rows) + 1].name = name
<1>1. Row(of) \in Rows /\ Row(of).of = of /\ Row(of).name = name
  BY DEF TypeInv, TypeOK, Row, Rows
<1>2. rows \in Seq(Rows) /\ rows' \in Seq(Rows)
  BY <1>1, AppendProperties DEF TypeInv, TypeOK
<1> QED BY <1>1, <1>2, AppendProperties, LenProperties

\* The rows of disks are the same.
LEMMA SameDisks ==
    ASSUME TypeInv, rows' = rows \/ \E of \in Things \ {"lun"} : rows' = Append(rows, Row(of))
    PROVE  /\ Disks' = Disks /\ \A i \in Disks : Disk(i)' = Disk(i)
           /\ \A l : Printed(l)' <=> Printed(l)
<1>1. Disks' = Disks /\ \A i \in Disks : rows'[i] = rows[i]
  <2>1. CASE rows' = rows
    BY <2>1 DEF Disks
  <2>2. ASSUME NEW of \in Things \ {"lun"}, rows' = Append(rows, Row(of))
        PROVE  Disks' = Disks /\ \A i \in Disks : rows'[i] = rows[i]
    <3>1. /\ DOMAIN rows' = 1 .. (Len(rows) + 1)
          /\ \A i \in DOMAIN rows : rows'[i] = rows[i]
          /\ rows'[Len(rows) + 1].of = of
      BY <2>2, AppendedRow
    <3>2. \A i : i \in DOMAIN rows' <=> i \in DOMAIN rows \/ i = Len(rows) + 1
      BY <3>1, RowsAre
    <3> QED BY <2>2, <3>1, <3>2 DEF Disks
  <2> QED BY <2>1, <2>2
<1>2. \A i \in Disks : Disk(i)' = Disk(i)
  BY <1>1 DEF Disk
<1> QED BY <1>1, <1>2 DEF Printed

LEMMA SameDiskInv ==
    ASSUME TypeInv, DiskInv, UNCHANGED kernel, Disks' = Disks,
           \A i \in Disks : Disk(i)' = Disk(i),
           Disks = {} \/ name'.session = name.session
    PROVE  DiskInv'
<1>1. \A l : /\ Met(l)' <=> Met(l)
             /\ Hidden(l)' <=> Hidden(l)
             /\ Disks # {} => (Below(l)' <=> Below(l))
  BY DEF Met, Hidden, Below, Steady, kernel
<1> QED BY <1>1 DEF DiskInv

LEMMA DueKept ==
    ASSUME UNCHANGED kernel, name'.session = name.session, lost \subseteq lost'
    PROVE  \A l : Due(l)' => Due(l)
BY DEF Due, Below, Steady, kernel

-----------------------------------------------------------------------------
(* The kernel. *)

LEMMA TreeStep ==
    ASSUME TypeInv, TreeInv, Kernel
    PROVE  TreeInv' /\ \A o : Met(o) => Met(o)'
<1>1. PICK x \in Object : Appear(x) \/ Vanish(x)
  BY DEF Kernel, Hotplug
<1>2. Others(x) \subseteq Object /\ \A o \in Others(x) : Parent[o] = x /\ Kind[o] = "other"
  BY DEF Others, Children
<1>3. CASE Appear(x)
  <2>1. /\ Parent[x] \in present \cup {Root}
        /\ present' = present \cup {x} \cup Others(x)
        /\ touched' = touched \cup {x} \cup Others(x)
    BY <1>3 DEF Appear
  <2>2. TreeInv'
    BY <1>2, <2>1, TreeAssumption DEF TreeInv
  <2> QED BY <2>1, <2>2 DEF Met
<1>4. CASE Vanish(x)
  <2>1. /\ x \in present /\ Children(x) \cap present \subseteq Others(x)
        /\ present' = present \ ({x} \cup Others(x))
        /\ touched' = touched \cup {x} \cup Others(x)
    BY <1>4 DEF Vanish
  <2>2. TreeInv'
    <3> SUFFICES ASSUME NEW o \in present', Parent[o] \in Object,
                        Kind[Parent[o]] \in {"session", "target"}
                 PROVE  Parent[o] \in present'
      BY DEF TreeInv
    <3>1. o \in present /\ o \in Object /\ o \notin Others(x) /\ Parent[o] \in present
      BY <2>1 DEF TreeInv, TypeInv, TypeOK, KernelTypeOK
    <3>2. Parent[o] # x
      BY <2>1, <3>1 DEF Children
    <3>3. Parent[o] \notin Others(x)
      BY <1>2
    <3> QED BY <2>1, <3>1, <3>2, <3>3
  <2> QED BY <2>1, <2>2 DEF Met
<1> QED BY <1>1, <1>3, <1>4

LEMMA KernelPassStep ==
    ASSUME TypeInv, PassInv, Kernel
    PROVE  PassInv'
<1>0. UNCHANGED proc /\ KernelTypeOK
  BY DEF Kernel, TypeInv, TypeOK
<1>1. /\ TreeInv' /\ \A o : Met(o) => Met(o)'
      /\ \A o : Steady(o)' => Steady(o)
  BY <1>0, TreeStep, SteadyKept DEF PassInv, Kernel
<1>2. /\ Disks' = Disks /\ HasSession' = HasSession
      /\ \A l : /\ Disk(l)' = Disk(l)
                /\ Below(l)' <=> Below(l)
                /\ Printed(l)' <=> Printed(l)
                /\ Past(l)' <=> Past(l)
                /\ Due(l)' => Due(l)
                /\ Hidden(l) => Hidden(l)'
                /\ Reached(l)' <=> Reached(l)
  BY <1>0, <1>1 DEF proc, Disks, HasSession, Disk, Below, Printed, Past, Due, Hidden, Reached,
                    Ahead1, Before
<1>3. MetInv'
  BY <1>0, <1>1 DEF PassInv, MetInv, proc
<1>4. PhaseInv'
  BY <1>0, <1>2 DEF PassInv, PhaseInv, proc
<1>5. DiskInv'
  BY <1>1, <1>2 DEF PassInv, DiskInv
<1>6. WalkInv'
  BY <1>0, <1>1, <1>2 DEF PassInv, WalkInv, proc
<1>7. OrderInv'
  BY <1>2 DEF PassInv, OrderInv
<1>8. CoverInv'
  BY <1>0, <1>2 DEF PassInv, CoverInv, proc
<1> QED BY <1>1, <1>3, <1>4, <1>5, <1>6, <1>7, <1>8 DEF PassInv

-----------------------------------------------------------------------------
(* The program. *)

LEMMA MetStep ==
    ASSUME TypeInv, MetInv, Process
    PROVE  MetInv'
<1>0. UNCHANGED kernel /\ outer \in Streams /\ inner \in Streams
  BY DEF Process, TypeInv, TypeOK
<1>1. /\ \/ outer' = outer
         \/ \E dir : outer' = Opened(dir)
         \/ \E o : outer' = Taken(outer, o)
         \/ \E o \in Ahead(outer) : outer' = Fetched(outer, o)
      /\ \/ inner' = inner
         \/ \E dir : inner' = Opened(dir)
         \/ \E o : inner' = Taken(inner, o)
         \/ \E o \in Ahead(inner) : inner' = Fetched(inner, o)
  BY DEF Process, ReadFile, ReadCrashes, ReadAhead, Scan, CountHost, EndScan, OpenHosts,
         TakeHost, AllocFails, EndHosts, Alloc, OpenDevice, TakeSession, EndSessions,
         OpenSession, FindTarget, NoTarget, OpenTargets, TakeTarget, EndTargets, OpenLuns,
         TakeLun, CheckType, GetDeviceEntry, EntryCrashes, PrintLun, EndLuns,
         OpenConnections, TakeConnection, EndConnections, GetConnectionInfo, PrintRow,
         OpenOuter, OpenInner, OpenFails, NextOuter, NextInner, EndOuter, EndInner
<1>2. \A s \in Streams :
          /\ \A dir : Opened(dir).buf = {}
          /\ \A o : Taken(s, o).buf \subseteq s.buf
          /\ \A o \in Ahead(s) : Fetched(s, o).buf = s.buf \cup {o} /\ o \in present
  BY DEF Opened, Taken, Fetched, Ahead, Streams
<1>3. outer'.buf \subseteq outer.buf \cup present
  BY <1>0, <1>1, <1>2
<1>4. inner'.buf \subseteq inner.buf \cup present
  BY <1>0, <1>1, <1>2
<1> QED BY <1>0, <1>3, <1>4 DEF MetInv, Met, kernel

LEMMA PhaseStep ==
    ASSUME TypeInv, PhaseInv, Process
    PROVE  PhaseInv'
<1>0. call' = call /\ call.op \in {"list", "show"}
  BY CallType DEF Process, ReadFile, ReadCrashes, ReadAhead, Scan, CountHost, EndScan,
         OpenHosts, TakeHost, AllocFails, EndHosts, Alloc, OpenDevice, TakeSession,
         EndSessions, OpenSession, FindTarget, NoTarget, OpenTargets, TakeTarget,
         EndTargets, OpenLuns, TakeLun, CheckType, GetDeviceEntry, EntryCrashes, PrintLun,
         EndLuns, OpenConnections, TakeConnection, EndConnections, GetConnectionInfo,
         PrintRow, TypeInv, TypeOK
<1>1. CASE OpenSession
  <2>1. pc = "opensession" /\ call.op = "show" /\ rows = <<>> /\ pc' \in {"findtarget", "openconn"}
    BY <1>1 DEF OpenSession, At, TypeInv, ControlOK, PhaseInv
  <2>2. rows' = rows \/ rows' = Append(rows, Row("session"))
    BY <1>1 DEF OpenSession
  <2>3. Disks' = {}
    BY <2>1, <2>2, SameDisks, RowsAre DEF Things
  <2> QED BY <1>0, <2>1, <2>3 DEF PhaseInv
<1>2. CASE PrintLun
  BY <1>0, <1>2 DEF PrintLun, At, TypeInv, ControlOK, PhaseInv
<1>3. CASE PrintRow
  <2>1. pc = "print" /\ pc' \in {"hosts", "done"}
    BY <1>3 DEF PrintRow, At, Return
  <2>2. ASSUME call.op = "list" PROVE \A i \in DOMAIN rows' : rows'[i].of = "host"
    <3>1. rows' = Append(rows, Row("host"))
      BY <1>3, <2>2 DEF PrintRow
    <3>2. /\ DOMAIN rows' = 1 .. (Len(rows) + 1)
          /\ \A i \in DOMAIN rows : rows'[i] = rows[i]
          /\ rows'[Len(rows) + 1].of = "host"
      BY <3>1, AppendedRow DEF Things
    <3>3. \A i : i \in DOMAIN rows' <=> i \in DOMAIN rows \/ i = Len(rows) + 1
      BY <3>2, RowsAre
    <3> QED BY <2>2, <3>2, <3>3 DEF PhaseInv
  <2> QED BY <1>0, <2>1, <2>2 DEF PhaseInv
<1>4. CASE ~(OpenSession \/ PrintLun \/ PrintRow)
  <2>1. rows' = rows
    BY <1>4 DEF Process, ReadFile, ReadCrashes, ReadAhead, Scan, CountHost, EndScan,
         OpenHosts, TakeHost, AllocFails, EndHosts, Alloc, OpenDevice, TakeSession,
         EndSessions, FindTarget, NoTarget, OpenTargets, TakeTarget,
         EndTargets, OpenLuns, TakeLun, CheckType, GetDeviceEntry, EntryCrashes,
         EndLuns, OpenConnections, TakeConnection, EndConnections, GetConnectionInfo
  <2>2. /\ call.op = "show" /\ pc' \in {"alloc", "device", "sessions", "opensession"} =>
               pc \in {"alloc", "device", "sessions", "opensession"}
        /\ pc' \in {"findtarget", "opentargets"} => pc \in {"findtarget", "opentargets"}
    BY <1>4 DEF Process, ReadFile, ReadCrashes, ReadAhead, Scan, CountHost, EndScan,
         OpenHosts, TakeHost, AllocFails, EndHosts, Alloc, OpenDevice, TakeSession,
         EndSessions, FindTarget, NoTarget, OpenTargets, TakeTarget,
         EndTargets, OpenLuns, TakeLun, CheckType, GetDeviceEntry, EntryCrashes,
         EndLuns, OpenConnections, TakeConnection, EndConnections, GetConnectionInfo,
         At, Return, Die, EndOuter, EndInner, SessionFilled, After, TypeInv, ControlOK
  <2>3. Disks' = Disks
    BY <2>1 DEF Disks
  <2> QED BY <1>0, <2>1, <2>2, <2>3 DEF PhaseInv
<1> QED BY <1>1, <1>2, <1>3, <1>4

\* A step outside of the loops, or out of them.
LEMMA OutsideStep ==
    ASSUME TypeInv, PassInv, UNCHANGED <<kernel, call>>, lost \subseteq lost',
           pc' \notin InTargets \cup {"findtarget"},
           rows' = rows \/ \E of \in Things \ {"lun"} : rows' = Append(rows, Row(of)),
           Disks = {} \/ name'.session = name.session,
           call.op = "show" /\ HasSession' /\ pc' \in Behind =>
               /\ name'.session = name.session
               /\ \A l \in Object : Due(l)' => Printed(l)
    PROVE  DiskInv' /\ WalkInv' /\ OrderInv' /\ CoverInv'
<1>1. /\ Disks' = Disks /\ \A i \in Disks : Disk(i)' = Disk(i)
      /\ \A l : Printed(l)' <=> Printed(l)
  BY SameDisks
<1>2. DiskInv'
  BY <1>1, SameDiskInv DEF PassInv
<1>3. WalkInv' /\ OrderInv'
  BY DEF WalkInv, OrderInv, Past, InTargets, InTarget, InLuns, AtLun
<1>4. CoverInv'
  BY <1>1 DEF CoverInv, Reached, InTargets
<1> QED BY <1>2, <1>3, <1>4

\* The steps of a list, and those of show before and behind the loops.
LEMMA OutsideSteps ==
    ASSUME TypeInv, PassInv, Process,
           \/ ReadCrashes \/ Scan \/ CountHost \/ EndScan \/ OpenHosts \/ TakeHost
           \/ AllocFails \/ EndHosts
           \/ Alloc \/ OpenDevice \/ TakeSession \/ EndSessions \/ EntryCrashes
           \/ OpenConnections \/ TakeConnection \/ EndConnections \/ GetConnectionInfo
           \/ PrintRow
           \/ ((ReadFile \/ ReadAhead) /\ pc \notin InTargets \cup {"findtarget", "opentargets"})
    PROVE  DiskInv' /\ WalkInv' /\ OrderInv' /\ CoverInv'
<1>0. UNCHANGED <<kernel, call>> /\ call.op \in {"list", "show"} /\ name \in Names
  BY CallType DEF Process, ReadFile, ReadCrashes, ReadAhead, Scan, CountHost, EndScan,
         OpenHosts, TakeHost, AllocFails, EndHosts, Alloc, OpenDevice, TakeSession,
         EndSessions, EntryCrashes, OpenConnections, TakeConnection, EndConnections,
         GetConnectionInfo, PrintRow, TypeInv, TypeOK
<1>1. lost \subseteq lost' /\ pc' \notin InTargets \cup {"findtarget"}
  BY DEF ReadFile, ReadCrashes, ReadAhead, Scan, CountHost, EndScan,
         OpenHosts, TakeHost, AllocFails, EndHosts, Alloc, OpenDevice, TakeSession,
         EndSessions, EntryCrashes, OpenConnections, TakeConnection, EndConnections,
         GetConnectionInfo, PrintRow, At, Return, Die, EndOuter, EndInner, SessionFilled,
         After, OpenOuter, OpenInner, OpenFails, InTargets
<1>2. rows' = rows \/ \E of \in Things \ {"lun"} : rows' = Append(rows, Row(of))
  BY DEF ReadFile, ReadCrashes, ReadAhead, Scan, CountHost, EndScan,
         OpenHosts, TakeHost, AllocFails, EndHosts, Alloc, OpenDevice, TakeSession,
         EndSessions, EntryCrashes, OpenConnections, TakeConnection, EndConnections,
         GetConnectionInfo, PrintRow, Things
<1>3. CASE call.op = "list"
  <2>1. Disks = {}
    BY <1>3 DEF PassInv, PhaseInv, Disks
  <2> QED BY <1>0, <1>1, <1>2, <1>3, <2>1, OutsideStep
<1>4. CASE call.op = "show" /\ pc \in {"alloc", "device", "sessions", "opensession"}
  <2>1. rows = <<>> /\ Disks = {}
    BY <1>4, RowsAre DEF PassInv, PhaseInv
  <2>2. rows' = rows
    BY <1>4 DEF ReadFile, ReadCrashes, ReadAhead, Scan, CountHost, EndScan,
         OpenHosts, TakeHost, AllocFails, EndHosts, Alloc, OpenDevice, TakeSession,
         EndSessions, EntryCrashes, OpenConnections, TakeConnection, EndConnections,
         GetConnectionInfo, PrintRow, At
  <2>3. ~HasSession'
    BY <2>1, <2>2, RowsAre DEF HasSession
  <2> QED BY <1>0, <1>1, <1>2, <2>1, <2>3, OutsideStep
<1>5. CASE call.op = "show" /\ pc \notin {"alloc", "device", "sessions", "opensession"}
  <2>1. \/ pc \in Behind
        \/ pc' = "crashed"
    <3>1. CASE /\ ReadFile \/ ReadAhead
               /\ pc \notin InTargets \cup {"findtarget", "opentargets"}
      <4>1. pc \notin Ended
        BY <3>1 DEF ReadFile, ReadAhead, OnOuter, OnInner, Ended
      <4> QED BY <1>5, <3>1, <4>1 DEF TypeInv, TypeOK, ControlOK, Behind, InTargets, Ended
    <3>2. CASE ReadCrashes \/ EntryCrashes
      BY <3>2 DEF ReadCrashes, EntryCrashes, Die
    <3>3. CASE \/ Scan \/ CountHost \/ EndScan \/ OpenHosts \/ TakeHost \/ AllocFails
               \/ EndHosts \/ Alloc \/ OpenDevice \/ TakeSession \/ EndSessions
               \/ OpenConnections \/ TakeConnection \/ EndConnections
               \/ GetConnectionInfo \/ PrintRow
      BY <1>5, <3>3 DEF Scan, CountHost, EndScan, OpenHosts, TakeHost, AllocFails, EndHosts,
         Alloc, OpenDevice, TakeSession, EndSessions, OpenConnections, TakeConnection,
         EndConnections, GetConnectionInfo, PrintRow, At, EndOuter, EndInner, TypeInv,
         ControlOK, Behind
    <3> QED BY <3>1, <3>2, <3>3
  <2>2. name'.session = name.session
    <3>1. CASE TakeConnection
      BY <1>0, <3>1, NamesKept DEF TakeConnection
    <3>2. CASE ~TakeConnection
      BY <1>5, <3>2 DEF ReadFile, ReadCrashes, ReadAhead, Scan, CountHost, EndScan,
         OpenHosts, TakeHost, AllocFails, EndHosts, Alloc, OpenDevice, TakeSession,
         EndSessions, EntryCrashes, OpenConnections, EndConnections,
         GetConnectionInfo, PrintRow, At, TypeInv, ControlOK
    <3> QED BY <3>1, <3>2
  <2>3. HasSession' => HasSession
    <3>1. CASE rows' = rows
      BY <3>1 DEF HasSession
    <3>2. CASE rows' # rows
      <4>1. rows' = Append(rows, Row("connection"))
        BY <1>5, <3>2 DEF ReadFile, ReadCrashes, ReadAhead, Scan, CountHost, EndScan,
         OpenHosts, TakeHost, AllocFails, EndHosts, Alloc, OpenDevice, TakeSession,
         EndSessions, EntryCrashes, OpenConnections, TakeConnection, EndConnections,
         GetConnectionInfo, PrintRow
      <4>2. /\ DOMAIN rows' = 1 .. (Len(rows) + 1)
            /\ \A i \in DOMAIN rows : rows'[i] = rows[i]
            /\ rows'[Len(rows) + 1].of = "connection"
        BY <4>1, AppendedRow DEF Things
      <4>3. \A i : i \in DOMAIN rows' <=> i \in DOMAIN rows \/ i = Len(rows) + 1
        BY <4>2, RowsAre
      <4> QED BY <4>2, <4>3 DEF HasSession
    <3> QED BY <3>1, <3>2
  <2>4. pc' \in Behind /\ HasSession' => \A l \in Object : Due(l)' => Printed(l)
    BY <1>0, <1>1, <1>5, <2>1, <2>2, <2>3, DueKept DEF PassInv, CoverInv, Reached, Behind
  <2> QED BY <1>0, <1>1, <1>2, <2>2, <2>4, OutsideStep
<1> QED BY <1>0, <1>3, <1>4, <1>5

\* A step in the loops that prints nothing.
LEMMA InsideStep ==
    ASSUME TypeInv, PassInv, UNCHANGED <<kernel, call, rows>>, name'.session = name.session,
           lost \subseteq lost', call.op = "show",
           \A l \in Object : Parent[l] \in Object /\ Past(l) => Past(l)',
           \A l \in Object : Due(l) /\ Due(l)' /\ Reached(l) => Reached(l)'
    PROVE  DiskInv' /\ OrderInv' /\ CoverInv'
<1>1. Disks' = Disks /\ \A i \in Disks : Disk(i)' = Disk(i)
  BY SameDisks
<1>2. DiskInv'
  BY <1>1, SameDiskInv DEF PassInv
<1>3. \A i \in Disks : Disk(i) \in Object /\ Parent[Disk(i)] \in Object /\ Past(Disk(i))
  BY DEF PassInv, DiskInv, OrderInv, Below, ChildrenOf, Children
<1>4. OrderInv'
  <2> SUFFICES ASSUME NEW i \in Disks PROVE Past(Disk(i))'
    BY <1>1 DEF OrderInv
  <2>1. PICK l \in Object : l = Disk(i) /\ Parent[l] \in Object /\ Past(l)
    BY <1>3
  <2>2. Past(l)'
    BY <2>1
  <2> QED BY <1>1, <2>1, <2>2 DEF Past
<1>5. CoverInv'
  BY DueKept DEF PassInv, CoverInv
<1> QED BY <1>2, <1>4, <1>5

\* What a disk that is due is below.
LEMMA DueIs ==
    ASSUME TypeInv, NEW l \in Object, Due(l)
    PROVE  /\ Parent[l] \in Object /\ Parent[l] \in Children(name.session)
           /\ Kind[Parent[l]] = "target" /\ Kind[l] = "lun" /\ l \in Children(Parent[l])
           /\ Steady(l) /\ Steady(Parent[l]) /\ Steady(name.session)
           /\ Parent[l] # None /\ name.session # None
BY NamesAssumption
   DEF Due, Below, ChildrenOf, Children, Steady, None, TypeInv, TypeOK, KernelTypeOK

\* The type of an array that stays is read as what it is.
LEMMA TypeRead ==
    ASSUME Inv, CheckType, IsDisk
    PROVE  Kind[name.lun] = "lun" /\ Hidden(name.lun)
<1> SUFFICES ASSUME name.lun \in Array, Steady(name.lun) PROVE FALSE
  BY DEF IsDisk, Hidden
<1>1. pc = "type" /\ todo = <<>> /\ val["lun"]["type"] = Missing
  BY DEF CheckType, At, IsDisk
<1>2. DOMAIN TypeFile = {1} /\ TypeFile[1].of = "lun" /\ TypeFile[1].file = "type"
  BY DEF TypeFile
<1>3. Good("lun", "type")
  BY <1>1, <1>2 DEF Inv, ValueInv, GoodBut
<1>4. "type" \in Supported[name.lun] /\ gen[name.lun] > 0
  BY NamesAssumption DEF Inv, TypeInv, TypeOK, KernelTypeOK, Steady
<1> QED BY <1>1, <1>3, <1>4 DEF Good, Missing, Inv, TypeInv, TypeOK, KernelTypeOK

LEMMA StillSteps ==
    ASSUME Inv, PassInv, Process, pc \in InTargets \cup {"findtarget", "opentargets"},
           ReadFile \/ CheckType \/ GetDeviceEntry
    PROVE  DiskInv' /\ WalkInv' /\ OrderInv' /\ CoverInv'
<1>0. /\ UNCHANGED <<kernel, call, rows, name, outer, inner, lost>> /\ call.op = "show"
      /\ TypeInv
  BY DEF Process, ReadFile, CheckType, GetDeviceEntry, Inv, TypeInv, ControlOK, InTargets
<1>1. \/ pc' = pc
      \/ pc = "type" /\ pc' = "entry" /\ Kind[name.lun] = "lun" /\ Hidden(name.lun)
      \/ pc = "type" /\ pc' = "luns" /\ (Kind[name.lun] = "lun" => name.lun \in Array)
      \/ pc = "entry" /\ pc' = "disk"
  BY TypeRead DEF ReadFile, CheckType, GetDeviceEntry, At, IsDisk
<1>2. \A l : /\ Met(l)' <=> Met(l)
             /\ Hidden(l)' <=> Hidden(l)
             /\ Printed(l)' <=> Printed(l)
  BY <1>0, SameDisks DEF Met, Hidden, Steady, kernel
<1>3. WalkInv'
  BY <1>0, <1>1, <1>2 DEF PassInv, WalkInv, InTargets, InTarget, InLuns, AtLun
<1>4. \A l \in Object : Parent[l] \in Object /\ Past(l) => Past(l)'
  BY <1>0, <1>1 DEF Past, Before, InTargets, InTarget, InLuns, AtLun
<1>5. \A l \in Object : Due(l) /\ Due(l)' /\ Reached(l) => Reached(l)'
  BY <1>0, <1>1, <1>2
     DEF Reached, Due, Below, Ahead1, InTargets, InTarget, InLuns, AtLun, Behind
<1> QED BY <1>0, <1>3, <1>4, <1>5, InsideStep

LEMMA ReadAheadStep ==
    ASSUME Inv, PassInv, Process, pc \in InTargets \cup {"findtarget", "opentargets"},
           ReadAhead
    PROVE  DiskInv' /\ WalkInv' /\ OrderInv' /\ CoverInv'
<1>0. /\ UNCHANGED <<kernel, call, rows, name, lost, pc>> /\ call.op = "show"
      /\ TypeInv /\ KernelTypeOK /\ pc \in {"targets", "luns", "findtarget"}
  BY DEF Process, ReadAhead, Inv, TypeInv, TypeOK, ControlOK, InTargets, OnOuter, OnInner
<1>1. /\ outer \in Streams /\ inner \in Streams /\ StreamOK(outer) /\ StreamOK(inner)
      /\ outer.cursor \in Nat /\ inner.cursor \in Nat
  BY <1>0, StreamsAre DEF Inv, SearchInv
<1>2. \A l : /\ Met(l)' <=> Met(l)
             /\ Hidden(l)' <=> Hidden(l)
             /\ Printed(l)' <=> Printed(l)
  BY <1>0, SameDisks DEF Met, Hidden, Steady, kernel
<1>3. CASE pc = "targets"
  <2>1. PICK o : IsFirst(o, Ahead(outer)) /\ outer' = Fetched(outer, o) /\ inner' = inner
    BY <1>3 DEF ReadAhead, OnInner
  <2>2. /\ o \in Object /\ outer'.dir = outer.dir
        /\ outer'.buf = outer.buf \cup {o}
        /\ outer'.cursor = Hash[o] /\ Hash[o] > outer.cursor
        /\ \A c \in Children(outer.dir) :
               Steady(outer.dir) /\ Steady(c) /\ Ahead1(outer, c) => Ahead1(outer', c)
    BY <1>0, <1>1, <2>1, FetchedOK
  <2>3. WalkInv'
    BY <1>0, <1>3, <2>2 DEF PassInv, WalkInv, InTargets, InTarget, InLuns, AtLun
  <2>4. \A l \in Object : Parent[l] \in Object /\ Past(l) => Past(l)'
    BY <1>0, <1>1, <1>3, <2>2, HashIs DEF Past, InTargets, InTarget, InLuns, AtLun
  <2>5. \A l \in Object : Due(l) /\ Due(l)' /\ Reached(l) => Reached(l)'
    <3> SUFFICES ASSUME NEW l \in Object, Due(l), Reached(l) PROVE Reached(l)'
      OBVIOUS
    <3>1. outer.dir = name.session
      BY <1>3 DEF PassInv, WalkInv, InTargets
    <3>2. Ahead1(outer, Parent[l]) => Ahead1(outer', Parent[l])
      BY <1>0, <2>2, <3>1, DueIs
    <3>3. Printed(l) \/ Ahead1(outer, Parent[l])
      BY <1>3 DEF Reached, InTargets, InLuns, AtLun
    <3> QED BY <1>0, <1>2, <1>3, <3>2, <3>3 DEF Reached, Ahead1, Behind
  <2> QED BY <1>0, <2>3, <2>4, <2>5, InsideStep
<1>4. CASE pc \in {"luns", "findtarget"}
  <2>1. PICK o : IsFirst(o, Ahead(inner)) /\ inner' = Fetched(inner, o) /\ outer' = outer
    BY <1>4 DEF ReadAhead, OnOuter
  <2>2. /\ o \in Object /\ inner'.dir = inner.dir
        /\ inner'.buf = inner.buf \cup {o}
        /\ inner'.cursor = Hash[o] /\ Hash[o] > inner.cursor
        /\ \A c \in Children(inner.dir) :
               Steady(inner.dir) /\ Steady(c) /\ Ahead1(inner, c) => Ahead1(inner', c)
    BY <1>0, <1>1, <2>1, FetchedOK
  <2>3. WalkInv'
    BY <1>0, <1>4, <2>1, <2>2 DEF PassInv, WalkInv, InTargets, InTarget, InLuns, AtLun
  <2>4. \A l \in Object : Parent[l] \in Object /\ Past(l) => Past(l)'
    BY <1>0, <1>1, <1>4, <2>1, <2>2, HashIs DEF Past, InTargets, InTarget, InLuns, AtLun
  <2>5. \A l \in Object : Due(l) /\ Due(l)' /\ Reached(l) => Reached(l)'
    <3> SUFFICES ASSUME NEW l \in Object, Due(l), Reached(l) PROVE Reached(l)'
      OBVIOUS
    <3>1. /\ pc = "luns" => inner.dir = name.target
          /\ pc = "findtarget" => inner.dir = name.session
      BY DEF PassInv, WalkInv, InLuns
    <3>2. pc = "findtarget" => Ahead1(inner', Parent[l])
      BY <1>0, <2>2, <3>1, DueIs DEF Reached
    <3>3. pc = "luns" /\ Parent[l] = name.target /\ Ahead1(inner, l) => Ahead1(inner', l)
      BY <1>0, <2>2, <3>1, DueIs
    <3>4. \A s, c : Ahead1(s, c)' <=> Ahead1(s, c)
      BY DEF Ahead1
    <3> QED BY <1>0, <1>2, <1>4, <2>1, <3>2, <3>3, <3>4
       DEF Reached, Behind, InTargets, InLuns, AtLun, Ahead1
  <2> QED BY <1>0, <2>3, <2>4, <2>5, InsideStep
<1> QED BY <1>0, <1>3, <1>4

\* The first target is looked for.
LEMMA FindTargetSteps ==
    ASSUME Inv, PassInv, Process, OpenSession \/ FindTarget \/ NoTarget \/ OpenTargets
    PROVE  DiskInv' /\ WalkInv' /\ OrderInv' /\ CoverInv'
<1>0. /\ UNCHANGED <<kernel, call, name>> /\ call.op = "show" /\ TypeInv /\ KernelTypeOK
      /\ \A l : Due(l)' => Due(l)
      /\ \A s, c : Ahead1(s, c)' <=> Ahead1(s, c)
      /\ lost \subseteq lost'
  <2>1. UNCHANGED <<kernel, call, name>> /\ lost \subseteq lost'
    BY DEF Process, OpenSession, FindTarget, NoTarget, OpenTargets, OpenInner, OpenOuter,
           OpenFails
  <2> QED BY <2>1, DueKept
     DEF OpenSession, FindTarget, NoTarget, OpenTargets, At, Inv, TypeInv, TypeOK, ControlOK,
         Ahead1
<1>1. Disks = {}
  BY <1>0, RowsAre DEF OpenSession, FindTarget, NoTarget, OpenTargets, At, PassInv, PhaseInv
<1>2. rows' = rows \/ (pc = "opensession" /\ rows' = Append(rows, Row("session")))
  BY DEF OpenSession, FindTarget, NoTarget, OpenTargets, At
<1>3. Disks' = {} /\ DiskInv' /\ OrderInv' /\ \A l : ~Printed(l)
  <2>1. Disks' = Disks /\ \A i \in Disks : Disk(i)' = Disk(i)
    BY <1>0, <1>2, SameDisks DEF Things
  <2>2. DiskInv'
    BY <1>0, <1>1, <2>1, SameDiskInv DEF PassInv
  <2> QED BY <1>1, <2>1, <2>2 DEF OrderInv, Printed
<1>4. CASE OpenSession
  <2>1. CASE OpenInner(name.session) /\ pc' = "findtarget"
    <3>1. inner' = Opened(name.session) /\ Exists(name.session)
      BY <2>1 DEF OpenInner
    <3>2. inner'.dir = name.session /\ \A c \in Object : Ahead1(inner', c)
      BY <1>0, <3>1, OpenedOK
    <3>3. WalkInv'
      BY <1>0, <2>1, <3>2 DEF WalkInv, InTargets, InTarget, InLuns, AtLun
    <3>4. CoverInv'
      BY <1>0, <2>1, <3>2, DueIs DEF CoverInv, Reached, InTargets, Behind
    <3> QED BY <1>3, <3>3, <3>4
  <2>2. CASE OpenFails(name.session) /\ pc' = "openconn" /\ rows' = rows
    <3>1. pc = "opensession" /\ rows = <<>>
      BY <1>0, <1>4 DEF OpenSession, At, PassInv, PhaseInv
    <3>2. ~HasSession'
      BY <1>0, <2>2, <3>1, RowsAre DEF HasSession
    <3> QED BY <1>0, <1>1, <2>2, <3>2, OutsideStep DEF InTargets
  <2> QED BY <1>4, <2>1, <2>2 DEF OpenSession
<1>5. CASE FindTarget
  <2>1. PICK o \in inner.buf :
            NextInner(o) /\ pc' = IF Kind[o] = "target" THEN "opentargets" ELSE pc
    BY <1>5 DEF FindTarget
  <2>2. pc = "findtarget" /\ outer' = outer /\ inner.dir = name.session
    BY <1>5 DEF FindTarget, At, PassInv, WalkInv
  <2>3. /\ inner'.dir = inner.dir
        /\ \A c \in Object : Ahead1(inner, c) => (c # o => Ahead1(inner', c))
    BY <1>0, <2>1, TakenOK, StreamsAre DEF NextInner, Inv, SearchInv
  <2>4. WalkInv'
    BY <1>0, <2>1, <2>2, <2>3 DEF WalkInv, InTargets, InTarget, InLuns, AtLun
  <2>5. CoverInv'
    <3> SUFFICES ASSUME NEW l \in Object, Due(l), pc' = "findtarget"
                 PROVE  Ahead1(inner', Parent[l])
      BY <1>0, <2>1, <2>2 DEF CoverInv, Reached, InTargets, Behind
    <3>1. Ahead1(inner, Parent[l])
      BY <1>0, <2>2 DEF PassInv, CoverInv, Reached
    <3>2. Parent[l] \in Object /\ Kind[Parent[l]] = "target"
      BY <1>0, DueIs
    <3> QED BY <2>1, <2>2, <2>3, <3>1, <3>2
  <2> QED BY <1>3, <2>4, <2>5
<1>6. CASE NoTarget
  <2>1. /\ pc = "findtarget" /\ pc' = "openconn" /\ inner.dir = name.session /\ AtEnd(inner)
        /\ rows' = rows
    BY <1>6 DEF NoTarget, At, PassInv, WalkInv
  <2>2. ASSUME NEW l \in Object, Due(l) PROVE FALSE
    <3>1. Ahead1(inner, Parent[l])
      BY <1>0, <2>1, <2>2 DEF PassInv, CoverInv, Reached
    <3> QED BY <1>0, <2>1, <2>2, <3>1, DueIs, StreamsAre, AtEndNothing DEF Inv, SearchInv
  <2> QED BY <1>0, <1>1, <2>1, <2>2, OutsideStep DEF InTargets
<1>7. CASE OpenTargets
  <2>1. CASE OpenOuter(name.session) /\ pc' = "targets"
    <3>1. outer' = Opened(name.session) /\ Exists(name.session)
      BY <2>1 DEF OpenOuter
    <3>2. outer'.dir = name.session /\ \A c \in Object : Ahead1(outer', c)
      BY <1>0, <3>1, OpenedOK
    <3>3. WalkInv'
      BY <1>0, <2>1, <3>2 DEF WalkInv, InTargets, InTarget, InLuns, AtLun
    <3>4. CoverInv'
      BY <1>0, <2>1, <3>2, DueIs DEF CoverInv, Reached, InTargets, Behind
    <3> QED BY <1>3, <3>3, <3>4
  <2>2. CASE OpenFails(name.session) /\ pc' = "openconn"
    <3>1. rows' = rows
      BY <1>7 DEF OpenTargets
    <3>2. ASSUME NEW l \in Object, Due(l)' PROVE FALSE
      <4>1. name.session \in lost' \/ name.session = None
        BY <2>2 DEF OpenFails
      <4> QED BY <1>0, <3>2, <4>1, DueIs DEF Due
    <3> QED BY <1>0, <1>1, <2>2, <3>1, <3>2, OutsideStep DEF InTargets
  <2> QED BY <1>7, <2>1, <2>2 DEF OpenTargets
<1> QED BY <1>4, <1>5, <1>6, <1>7

\* The loop over the targets.
LEMMA TargetSteps ==
    ASSUME Inv, PassInv, Process, TakeTarget \/ EndTargets
    PROVE  DiskInv' /\ WalkInv' /\ OrderInv' /\ CoverInv'
<1>0. /\ UNCHANGED <<kernel, call, rows, lost, inner>> /\ call.op = "show" /\ TypeInv
      /\ KernelTypeOK /\ name \in Names /\ outer \in Streams /\ StreamOK(outer)
      /\ pc = "targets" /\ outer.dir = name.session
  BY DEF Process, TakeTarget, EndTargets, EndOuter, At, Inv, TypeInv, TypeOK, ControlOK, SearchInv,
         PassInv, WalkInv, InTargets
<1>1. /\ \A l : Printed(l)' <=> Printed(l)
      /\ \A s, c : Ahead1(s, c)' <=> Ahead1(s, c)
  BY <1>0, SameDisks DEF Ahead1
<1>2. CASE TakeTarget
  <2>1. PICK o \in outer.buf :
            /\ IsFirst(o, outer.buf) /\ outer' = Taken(outer, o)
            /\ \/ /\ Kind[o] = "target"
                  /\ name' = [name EXCEPT !.target = o] /\ pc' = "openluns"
               \/ Kind[o] # "target" /\ UNCHANGED <<name, pc>>
    BY <1>2 DEF TakeTarget, NextOuter
  <2>2. /\ o \in Children(outer.dir) /\ o \in Object
        /\ outer'.dir = outer.dir /\ outer'.cursor = outer.cursor
        /\ outer'.buf = outer.buf \ {o} /\ Hash[o] <= outer.cursor
        /\ \A p \in outer.buf : Hash[o] <= Hash[p]
        /\ \A c \in Object : Ahead1(outer, c) => (c # o => Ahead1(outer', c))
        /\ outer.buf \subseteq Object
    BY <1>0, <2>1, TakenOK, StreamsAre
  <2>3. name'.session = name.session /\ (Kind[o] = "target" => name'.target = o)
    BY <1>0, <2>1 DEF Names, Things
  <2>4. \A b \in outer'.buf : Hash[o] < Hash[b]
    BY <2>2, HashIs
  <2>5. WalkInv'
    BY <1>0, <2>1, <2>2, <2>3, <2>4 DEF WalkInv, InTargets, InTarget, InLuns, AtLun, ChildrenOf
  <2>6. \A l \in Object : Parent[l] \in Object /\ Past(l) => Past(l)'
    BY <1>0, <2>1, <2>2, <2>3 DEF Past, InTargets, InTarget, InLuns, AtLun
  <2>7. \A l \in Object : Due(l) /\ Due(l)' /\ Reached(l) => Reached(l)'
    <3> SUFFICES ASSUME NEW l \in Object, Due(l), Reached(l) PROVE Reached(l)'
      OBVIOUS
    <3>1. Parent[l] \in Object /\ Kind[Parent[l]] = "target"
      BY <1>0, DueIs
    <3>2. Printed(l) \/ Ahead1(outer, Parent[l])
      BY <1>0 DEF Reached, InTargets, InLuns, AtLun
    <3>3. Printed(l) \/ Ahead1(outer', Parent[l]) \/ Parent[l] = o
      BY <2>2, <3>1, <3>2
    <3> QED BY <1>0, <1>1, <2>1, <2>3, <3>1, <3>3 DEF Reached, InTargets, InLuns, AtLun, Behind
  <2> QED BY <1>0, <2>3, <2>5, <2>6, <2>7, InsideStep
<1>3. CASE EndTargets
  <2>1. AtEnd(outer) /\ pc' = "openconn" /\ UNCHANGED name
    BY <1>3 DEF EndTargets, EndOuter
  <2>2. ASSUME NEW l \in Object, Due(l) PROVE Printed(l)
    <3>1. Printed(l) \/ Ahead1(outer, Parent[l])
      BY <1>0, <2>2 DEF PassInv, CoverInv, Reached, InTargets, InLuns, AtLun
    <3> QED BY <1>0, <2>1, <2>2, <3>1, DueIs, AtEndNothing
  <2>3. \A l \in Object : Due(l)' => Printed(l)
    BY <1>0, <2>1, <2>2, DueKept
  <2> QED BY <1>0, <2>1, <2>3, OutsideStep DEF InTargets
<1> QED BY <1>2, <1>3

\* The loop over the LUNs of a target.
LEMMA LunSteps ==
    ASSUME Inv, PassInv, Process, OpenLuns \/ TakeLun \/ EndLuns
    PROVE  DiskInv' /\ WalkInv' /\ OrderInv' /\ CoverInv'
<1>0. /\ UNCHANGED <<kernel, call, rows, outer>> /\ call.op = "show" /\ TypeInv
      /\ KernelTypeOK /\ name \in Names /\ inner \in Streams /\ StreamOK(inner)
      /\ lost \subseteq lost' /\ pc \in {"openluns", "luns"}
      /\ outer.dir = name.session /\ name.target \in ChildrenOf(name.session, "target")
      /\ pc = "luns" => inner.dir = name.target
  BY DEF Process, OpenLuns, TakeLun, EndLuns, EndInner, OpenInner, OpenFails, NextInner, At, Inv,
         TypeInv, TypeOK, ControlOK, SearchInv, PassInv, WalkInv, InTargets, InTarget, InLuns
<1>1. /\ \A l : Printed(l)' <=> Printed(l)
      /\ \A s, c : Ahead1(s, c)' <=> Ahead1(s, c)
      /\ \A l : Met(l)' <=> Met(l)
  BY <1>0, SameDisks DEF Ahead1, Met, kernel
<1>2. CASE OpenLuns /\ OpenInner(name.target) /\ pc' = "luns"
  <2>1. inner' = Opened(name.target) /\ Exists(name.target) /\ pc = "openluns" /\ UNCHANGED name
    BY <1>2 DEF OpenLuns, OpenInner, At
  <2>2. inner'.dir = name.target /\ \A c \in Object : Ahead1(inner', c)
    BY <1>0, <2>1, OpenedOK
  <2>3. WalkInv'
    BY <1>0, <1>2, <2>1, <2>2 DEF PassInv, WalkInv, InTargets, InTarget, InLuns, AtLun
  <2>4. \A l \in Object : Parent[l] \in Object /\ Past(l) => Past(l)'
    BY <1>0, <1>2, <2>1 DEF Past, InTargets, InTarget, InLuns, AtLun
  <2>5. \A l \in Object : Due(l) /\ Due(l)' /\ Reached(l) => Reached(l)'
    BY <1>0, <1>1, <1>2, <2>1, <2>2 DEF Reached, InTargets, InLuns, AtLun, Behind
  <2> QED BY <1>0, <2>1, <2>3, <2>4, <2>5, InsideStep
<1>3. CASE OpenLuns /\ OpenFails(name.target) /\ pc' = "targets"
  <2>1. pc = "openluns" /\ UNCHANGED name /\ (name.target # None => name.target \in lost')
    BY <1>3 DEF OpenLuns, OpenFails, At
  <2>2. WalkInv'
    BY <1>0, <1>3, <2>1 DEF PassInv, WalkInv, InTargets, InTarget, InLuns, AtLun
  <2>3. \A l \in Object : Parent[l] \in Object /\ Past(l) => Past(l)'
    BY <1>0, <1>3, <2>1 DEF Past, InTargets, InTarget, InLuns, AtLun
  <2>4. \A l \in Object : Due(l)' => Parent[l] # name.target
    BY <1>0, <2>1, DueKept, DueIs DEF Due
  <2>5. \A l \in Object : Due(l) /\ Due(l)' /\ Reached(l) => Reached(l)'
    BY <1>0, <1>1, <1>3, <2>1, <2>4 DEF Reached, InTargets, InLuns, AtLun, Behind
  <2> QED BY <1>0, <2>1, <2>2, <2>3, <2>5, InsideStep
<1>4. CASE TakeLun
  <2>1. PICK o \in inner.buf :
            /\ IsFirst(o, inner.buf) /\ inner' = Taken(inner, o)
            /\ name' = [name EXCEPT !.lun = o]
    BY <1>4 DEF TakeLun, NextInner
  <2>2. /\ o \in Children(inner.dir) /\ o \in Object
        /\ inner'.dir = inner.dir /\ inner'.cursor = inner.cursor
        /\ inner'.buf = inner.buf \ {o} /\ Hash[o] <= inner.cursor
        /\ \A p \in inner.buf : Hash[o] <= Hash[p]
        /\ \A c \in Object : Ahead1(inner, c) => (c # o => Ahead1(inner', c))
        /\ inner.buf \subseteq Object
    BY <1>0, <2>1, TakenOK, StreamsAre
  <2>3. /\ pc = "luns" /\ pc' = "type" /\ lost' = lost
        /\ name'.session = name.session /\ name'.target = name.target /\ name'.lun = o
        /\ Met(o)
    BY <1>0, <1>4, <2>1 DEF TakeLun, At, Names, Things, PassInv, MetInv
  <2>4. \A b \in inner'.buf : Hash[o] < Hash[b]
    BY <2>2, HashIs
  <2>5. Met(name.lun)'
    BY <1>1, <2>3 DEF Met
  <2>6. WalkInv'
    BY <1>0, <2>2, <2>3, <2>4, <2>5 DEF PassInv, WalkInv, InTargets, InTarget, InLuns, AtLun
  <2>7. \A l \in Object : Parent[l] \in Object /\ Past(l) => Past(l)'
    <3> SUFFICES ASSUME NEW l \in Object, Parent[l] \in Object, Past(l) PROVE Past(l)'
      OBVIOUS
    <3>1. Parent[o] = name.target
      BY <1>0, <2>2, <2>3 DEF Children
    <3>2. \/ Hash[Parent[l]] < Hash[name.target]
          \/ /\ Parent[l] = name.target /\ Hash[l] <= inner.cursor
             /\ \A b \in inner.buf : Hash[l] < Hash[b]
      BY <2>3 DEF Past, InLuns
    <3>3. Before(l, o)
      BY <2>1, <3>1, <3>2 DEF Before
    <3> QED BY <1>0, <2>2, <2>3, <3>2, <3>3 DEF Past, Before, InTargets, InTarget, InLuns, AtLun
  <2>8. \A l \in Object : Due(l) /\ Due(l)' /\ Reached(l) => Reached(l)'
    BY <1>0, <1>1, <2>2, <2>3 DEF Reached, InTargets, InLuns, AtLun, Behind
  <2> QED BY <1>0, <2>3, <2>6, <2>7, <2>8, InsideStep
<1>5. CASE EndLuns
  <2>1. AtEnd(inner) /\ pc = "luns" /\ pc' = "targets" /\ UNCHANGED <<name, lost, inner>>
    BY <1>5 DEF EndLuns, EndInner, At
  <2>2. WalkInv'
    BY <1>0, <2>1 DEF PassInv, WalkInv, InTargets, InTarget, InLuns, AtLun
  <2>3. \A l \in Object : Parent[l] \in Object /\ Past(l) => Past(l)'
    BY <1>0, <2>1 DEF Past, InTargets, InTarget, InLuns, AtLun
  <2>4. \A l \in Object : Due(l) /\ Parent[l] = name.target => ~Ahead1(inner, l)
    BY <1>0, <2>1, DueIs, AtEndNothing
  <2>5. \A l \in Object : Due(l) /\ Due(l)' /\ Reached(l) => Reached(l)'
    BY <1>0, <1>1, <2>1, <2>4 DEF Reached, InTargets, InLuns, AtLun, Behind
  <2> QED BY <1>0, <2>1, <2>2, <2>3, <2>5, InsideStep
<1> QED BY <1>2, <1>3, <1>4, <1>5 DEF OpenLuns

LEMMA PrintLunStep ==
    ASSUME Inv, PassInv, Process, PrintLun
    PROVE  DiskInv' /\ WalkInv' /\ OrderInv' /\ CoverInv'
<1> DEFINE n == Len(rows) + 1
<1>0. /\ UNCHANGED <<kernel, call, lost, inner, outer, name>> /\ call.op = "show" /\ TypeInv
      /\ pc = "disk" /\ pc' = "luns"
  BY DEF Process, PrintLun, At, Inv, TypeInv, ControlOK
<1>1. /\ DOMAIN rows' = 1 .. n /\ n \in Nat
      /\ \A i \in DOMAIN rows : rows'[i] = rows[i] /\ i < n /\ i \in Nat
      /\ \A i : i \in DOMAIN rows' <=> i \in DOMAIN rows \/ i = n
      /\ rows'[n].of = "lun" /\ rows'[n].name = name
  <2>1. rows' = Append(rows, Row("lun")) /\ "lun" \in Things
    BY DEF PrintLun, Things
  <2>2. /\ DOMAIN rows' = 1 .. n
        /\ \A i \in DOMAIN rows : rows'[i] = rows[i]
        /\ rows'[n].of = "lun" /\ rows'[n].name = name
    BY <1>0, <2>1, AppendedRow
  <2> QED BY <1>0, <2>2, RowsAre
<1> HIDE DEF n
<1>2. /\ Disks' = Disks \cup {n} /\ Disks \subseteq DOMAIN rows
      /\ \A i \in Disks : Disk(i)' = Disk(i) /\ i < n /\ i \in Nat
      /\ rows'[n].name.lun = name.lun
  BY <1>1 DEF Disks, Disk
<1>3. /\ name.lun \in Object /\ Below(name.lun) /\ Met(name.lun) /\ Hidden(name.lun)
      /\ Parent[name.lun] = name.target
      /\ Hash[name.lun] <= inner.cursor /\ \A b \in inner.buf : Hash[name.lun] < Hash[b]
      /\ Hash[name.target] <= outer.cursor /\ \A b \in outer.buf : Hash[name.target] < Hash[b]
  BY <1>0 DEF PassInv, WalkInv, InTargets, InTarget, InLuns, AtLun, Below, Children
<1>4. \A l : /\ Met(l)' <=> Met(l)
             /\ Hidden(l)' <=> Hidden(l)
             /\ Below(l)' <=> Below(l)
             /\ Due(l)' <=> Due(l)
             /\ Printed(l)' <=> Printed(l) \/ l = name.lun
  <2>1. \A l : /\ Met(l)' <=> Met(l)
               /\ Hidden(l)' <=> Hidden(l)
               /\ Below(l)' <=> Below(l)
               /\ Due(l)' <=> Due(l)
    BY <1>0 DEF Met, Hidden, Below, Due, Steady, kernel
  <2>2. \A l : Printed(l)' <=> Printed(l) \/ l = name.lun
    BY <1>2 DEF Printed, Disk
  <2> QED BY <2>1, <2>2
<1>5. \A i \in Disks : Before(Disk(i), name.lun) /\ Past(Disk(i))
  BY <1>0 DEF PassInv, OrderInv, Past, AtLun
<1>6. DiskInv'
  <2>1. \A i \in Disks' : rows'[i].name.lun = IF i = n THEN name.lun ELSE Disk(i)
    BY <1>2 DEF Disk
  <2>2. ASSUME NEW i \in Disks'
        PROVE  Disk(i)' \in Object /\ Below(Disk(i))' /\ Met(Disk(i))' /\ Hidden(Disk(i))'
    <3>1. PICK l \in Object : l = Disk(i)' /\ Below(l) /\ Met(l) /\ Hidden(l)
      BY <1>2, <1>3, <2>1 DEF PassInv, DiskInv, Disk
    <3>2. Below(l)' /\ Met(l)' /\ Hidden(l)'
      BY <1>4, <3>1
    <3> QED BY <3>1, <3>2 DEF Below, Met, Hidden, Steady
  <2>3. ASSUME NEW i \in Disks', NEW j \in Disks', i < j PROVE Before(Disk(i), Disk(j))'
    <3>1. i \in Disks /\ (j \in Disks \/ j = n)
      BY <1>1, <1>2, <2>3
    <3>2. PICK l, k : l = Disk(i) /\ k = Disk(j)' /\ l = Disk(i)'
      BY <1>2, <3>1
    <3>3. Before(l, k)
      BY <1>2, <1>5, <2>1, <2>3, <3>1, <3>2 DEF PassInv, DiskInv, Disk
    <3> QED BY <3>2, <3>3 DEF Before
  <2> QED BY <2>2, <2>3 DEF DiskInv
<1>7. WalkInv'
  BY <1>0 DEF PassInv, WalkInv, InTargets, InTarget, InLuns, AtLun
<1>8. OrderInv'
  <2>1. \A l : Past(l) \/ l = name.lun =>
            /\ Hash[Parent[l]] <= outer.cursor /\ \A b \in outer.buf : Hash[Parent[l]] < Hash[b]
            /\ \/ Hash[Parent[l]] < Hash[name.target]
               \/ /\ Parent[l] = name.target
                  /\ Hash[l] <= inner.cursor /\ \A b \in inner.buf : Hash[l] < Hash[b]
    BY <1>0, <1>3 DEF Past, InTargets, InLuns
  <2>2. \A i \in Disks' : \E l : l = Disk(i)' /\ (Past(l) \/ l = name.lun)
    BY <1>2, <1>5 DEF Disk
  <2>3. ASSUME NEW i \in Disks' PROVE Past(Disk(i))'
    <3>1. PICK l : l = Disk(i)' /\ (Past(l) \/ l = name.lun)
      BY <2>2
    <3> QED BY <1>0, <2>1, <3>1 DEF Past, InTargets, InLuns, AtLun
  <2> QED BY <2>3 DEF OrderInv
<1>9. CoverInv'
  <2> SUFFICES ASSUME NEW l \in Object, Due(l) PROVE Reached(l)'
    BY <1>4 DEF CoverInv
  <2>1. Reached(l)
    BY <1>0 DEF PassInv, CoverInv
  <2> QED BY <1>0, <1>4, <2>1 DEF Reached, Ahead1, InTargets, InLuns, AtLun, Behind
<1> QED BY <1>6, <1>7, <1>8, <1>9

LEMMA PassStep == Inv /\ PassInv /\ [Next]_vars => PassInv'
<1> SUFFICES ASSUME Inv, PassInv, [Next]_vars PROVE PassInv'
  OBVIOUS
<1>0. TypeInv
  BY DEF Inv
<1>1. CASE Process
  <2>1. TreeInv'
    BY <1>1 DEF PassInv, TreeInv, Process, kernel
  <2>2. MetInv' /\ PhaseInv'
    BY <1>0, <1>1, MetStep, PhaseStep DEF PassInv
  <2>3. DiskInv' /\ WalkInv' /\ OrderInv' /\ CoverInv'
    <3> DEFINE Inside == pc \in InTargets \cup {"findtarget", "opentargets"}
    <3>1. CASE \/ ReadCrashes \/ Scan \/ CountHost \/ EndScan \/ OpenHosts \/ TakeHost
               \/ AllocFails \/ EndHosts
               \/ Alloc \/ OpenDevice \/ TakeSession \/ EndSessions \/ EntryCrashes
               \/ OpenConnections \/ TakeConnection \/ EndConnections \/ GetConnectionInfo
               \/ PrintRow
      BY <1>0, <1>1, <3>1, OutsideSteps
    <3>2. CASE (ReadFile \/ ReadAhead) /\ ~Inside
      BY <1>0, <1>1, <3>2, OutsideSteps
    <3>3. CASE ReadFile /\ Inside
      BY <1>1, <3>3, StillSteps
    <3>4. CASE ReadAhead /\ Inside
      BY <1>1, <3>4, ReadAheadStep
    <3>5. CASE CheckType \/ GetDeviceEntry
      <4>1. Inside
        BY <3>5 DEF CheckType, GetDeviceEntry, At, InTargets
      <4> QED BY <1>1, <3>5, <4>1, StillSteps
    <3>6. CASE OpenSession \/ FindTarget \/ NoTarget \/ OpenTargets
      BY <1>1, <3>6, FindTargetSteps
    <3>7. CASE TakeTarget \/ EndTargets
      BY <1>1, <3>7, TargetSteps
    <3>8. CASE OpenLuns \/ TakeLun \/ EndLuns
      BY <1>1, <3>8, LunSteps
    <3>9. CASE PrintLun
      BY <1>1, <3>9, PrintLunStep
    <3> HIDE DEF Inside
    <3> QED
      BY <1>1, <3>1, <3>2, <3>3, <3>4, <3>5, <3>6, <3>7, <3>8, <3>9 DEF Process
  <2> QED BY <2>1, <2>2, <2>3 DEF PassInv
<1>2. CASE Kernel
  BY <1>0, <1>2, KernelPassStep
<1>3. CASE UNCHANGED vars
  BY <1>3 DEF vars, proc, kernel, PassInv, TreeInv, MetInv, Met, PhaseInv, HasSession, Disks,
     DiskInv, Disk, Below, Hidden, Steady, Before, WalkInv, OrderInv, Past, CoverInv, Due,
     Reached, Printed, Ahead1
<1> QED BY <1>1, <1>2, <1>3 DEF Next, Finished

LEMMA PassInit == Init => PassInv
<1> SUFFICES ASSUME Init PROVE PassInv
  OBVIOUS
<1>1. pc \in {"scan", "alloc"} /\ rows = <<>> /\ TypeInv
  BY InitType DEF Init
<1>2. Disks = {} /\ ~HasSession /\ DOMAIN rows = {}
  BY <1>1, RowsAre, EmptySeq
<1>3. outer.buf = {} /\ inner.buf = {}
  BY DEF Init, Opened
<1>4. TreeInv
  BY TreeAssumption DEF Init, KernelInit, TreeInv, WellFormed
<1> QED BY <1>1, <1>2, <1>3, <1>4
   DEF PassInv, MetInv, PhaseInv, DiskInv, WalkInv, OrderInv, CoverInv, Reached, InTargets,
       InTarget, InLuns, AtLun, Behind

THEOREM PassInvariant == Spec => [](Inv /\ PassInv)
<1>1. Init => Inv /\ PassInv
  BY InitInv, PassInit
<1>2. Inv /\ PassInv /\ [Next]_vars => (Inv /\ PassInv)'
  BY InvStep, PassStep
<1> QED BY <1>1, <1>2, PTL DEF Spec

LEMMA PassesSuffice == Inv /\ PassInv => LunsOnce
<1> SUFFICES ASSUME Inv, PassInv PROVE LunsOnce
  OBVIOUS
<1>1. TypeInv /\ call.op \in {"list", "show"}
  BY CallType DEF Inv, TypeInv, TypeOK
<1>2. ASSUME NEW i \in Disks
      PROVE  Below(Disk(i)) /\ Met(Disk(i)) /\ (Steady(Disk(i)) => Disk(i) \notin Array)
  BY DEF PassInv, DiskInv, Hidden
<1>3. ASSUME pc = "done", HasSession, NEW l \in Object, Due(l)
      PROVE  Printed(l)
  <2>1. call.op = "show"
    BY <1>1, <1>3 DEF PassInv, PhaseInv, HasSession
  <2> QED BY <1>3, <2>1 DEF PassInv, CoverInv, Reached, Behind
<1>4. \A i, j \in Disks : Disk(i) = Disk(j) => i = j
  <2> SUFFICES ASSUME NEW i \in Disks, NEW j \in Disks, i < j, Disk(i) = Disk(j) PROVE FALSE
    BY <1>1, RowsAre
  <2>1. Before(Disk(i), Disk(j)) /\ Disk(i) \in Object /\ Parent[Disk(i)] \in Object
    BY DEF PassInv, DiskInv, Below, ChildrenOf, Children
  <2> QED BY <2>1, HashIs DEF Before
<1> QED BY <1>2, <1>3, <1>4 DEF LunsOnce

\* The disks of a session are found through two nested loops, begun by a third:
\* whatever happens meanwhile no disk is printed twice, none of another session,
\* and of what stays every disk, and no array.
THEOREM DisksOnce == Spec => []LunsOnce
BY PassInvariant, PassesSuffice, PTL

-----------------------------------------------------------------------------
(* The two passes over the hosts. *)

Hosts == Children(Root)
SteadyHosts == {h \in Hosts : Steady(h)}
MetHosts == {h \in Hosts : Met(h)}

\* The loop over the hosts, and within it one at hand.
InHosts ==
    call.op = "list" /\ pc \in {"hosts", "device", "sessions", "openconn", "connections", "print"}
AtHost == InHosts /\ pc # "hosts"

\* What the stream has returned.
Passed(s) == {h \in Hosts : ~Ahead1(s, h)}

\* The number counted so far: a host is counted in the moment it is returned,
\* and it has been there, then or before.
CountInv ==
    /\ outer.dir = Root => outer.gen = 1
    /\ pc = "scan" => count = 0
    /\ pc = "counting" =>
           /\ outer.dir = Root
           /\ Cardinality(Passed(outer) \cap SteadyHosts) <= count
           /\ count <= Cardinality(Passed(outer) \cap MetHosts)
    /\ pc = "open" \/ InHosts \/ result = "count" =>
           Cardinality(SteadyHosts) <= count /\ count <= Cardinality(MetHosts)

RowHost(i) == rows[i].name.host
Listed(h) == \E i \in DOMAIN rows : RowHost(i) = h

\* The hosts listed come before where the stream is.
Earlier(h) ==
    /\ InHosts => Hash[h] <= outer.cursor /\ \A b \in outer.buf : Hash[h] < Hash[b]
    /\ AtHost => Hash[h] < Hash[name.host]

HostInv ==
    /\ pc \in {"scan", "counting", "open"} => rows = <<>>
    /\ result = "count" => call.op = "list" /\ pc = "done"
    /\ InHosts => outer.dir = Root
    /\ AtHost =>
           /\ name.host \in MetHosts /\ Hash[name.host] <= outer.cursor
           /\ \A b \in outer.buf : Hash[name.host] < Hash[b]
    /\ call.op = "list" =>
           /\ \A i \in DOMAIN rows : RowHost(i) \in MetHosts /\ Earlier(RowHost(i))
           /\ \A i, j \in DOMAIN rows : i < j => Hash[RowHost(i)] < Hash[RowHost(j)]
    /\ \A h \in SteadyHosts :
           /\ InHosts => Ahead1(outer, h) \/ (AtHost /\ h = name.host) \/ Listed(h)
           /\ result = "count" => Listed(h)

-----------------------------------------------------------------------------
LEMMA HostsFinite ==
    \A S \in SUBSET Object :
        /\ IsFiniteSet(S) /\ Cardinality(S) \in Nat
        /\ \A T \in SUBSET S : Cardinality(T) <= Cardinality(S)
BY FiniteAssumption, FS_Subset, FS_CardinalityType

LEMMA HostsAre ==
    /\ SteadyHosts \subseteq MetHosts /\ MetHosts \subseteq Hosts /\ Hosts \subseteq Object
    /\ \A h \in Hosts : Kind[h] = "host" /\ h \in Object
    /\ MetHosts \subseteq SteadyHosts \cup {o \in touched : Kind[o] = "host"}
BY TreeAssumption DEF SteadyHosts, MetHosts, Hosts, Children, Met, Steady

\* With fewer that stay and more that have been met, the bounds still hold.
LEMMA Bounds ==
    ASSUME NEW S \in SUBSET Object, NEW T \in SUBSET Object,
           NEW S1 \in SUBSET S, NEW T1 \in SUBSET Object, T \subseteq T1, NEW n \in Nat,
           Cardinality(S) <= n, n <= Cardinality(T)
    PROVE  Cardinality(S1) <= n /\ n <= Cardinality(T1)
<1>1. Cardinality(S1) <= Cardinality(S) /\ Cardinality(T) <= Cardinality(T1)
  BY HostsFinite
<1>2. /\ Cardinality(S) \in Nat /\ Cardinality(T) \in Nat
      /\ Cardinality(S1) \in Nat /\ Cardinality(T1) \in Nat
  BY HostsFinite
<1> QED BY <1>1, <1>2

LEMMA CountKernelStep ==
    ASSUME TypeInv, CountInv, Kernel
    PROVE  CountInv'
<1>0. UNCHANGED proc /\ KernelTypeOK
  BY DEF Kernel, TypeInv, TypeOK
<1>1. \A o : (Steady(o)' => Steady(o)) /\ (Met(o) => Met(o)')
  <2>1. PICK x \in Object : Appear(x) \/ Vanish(x)
    BY DEF Kernel, Hotplug
  <2>2. \A o : Met(o) => Met(o)'
    BY <2>1 DEF Appear, Vanish, Met
  <2> QED BY <1>0, <2>2, SteadyKept DEF Kernel
<1>2. PICK S, T : S = SteadyHosts /\ T = MetHosts
  OBVIOUS
<1>3. PICK S1, T1 : S1 = SteadyHosts' /\ T1 = MetHosts'
  OBVIOUS
<1>4. PICK P : P = Passed(outer) /\ P = Passed(outer)'
  BY <1>0 DEF Passed, proc, Ahead1
<1>5. /\ S1 \subseteq S /\ T \subseteq T1
      /\ S \subseteq Object /\ T \subseteq Object /\ T1 \subseteq Object /\ P \subseteq Object
  BY <1>1, <1>2, <1>3, <1>4 DEF SteadyHosts, MetHosts, Passed, Hosts, Children
<1>6. count \in Nat
  BY DEF TypeInv, TypeOK
<1>7. ASSUME pc = "counting"
      PROVE  Cardinality(P \cap S1) <= count /\ count <= Cardinality(P \cap T1)
  <2>1. Cardinality(P \cap S) <= count /\ count <= Cardinality(P \cap T)
    BY <1>2, <1>4, <1>7 DEF CountInv
  <2>2. /\ P \cap S1 \in SUBSET (P \cap S) /\ P \cap T \subseteq P \cap T1
        /\ P \cap S \in SUBSET Object /\ P \cap T \in SUBSET Object /\ P \cap T1 \in SUBSET Object
    BY <1>5
  <2> HIDE DEF CountInv
  <2> QED BY <1>6, <2>1, <2>2, Bounds
<1>8. ASSUME Cardinality(S) <= count /\ count <= Cardinality(T)
      PROVE  Cardinality(S1) <= count /\ count <= Cardinality(T1)
  BY <1>5, <1>6, <1>8, Bounds
<1> QED BY <1>0, <1>2, <1>3, <1>4, <1>7, <1>8 DEF CountInv, InHosts, proc

\* What happens to a stream of the hosts.
LEMMA PassedSteps ==
    ASSUME TypeInv, StreamOK(outer), outer.dir = Root
    PROVE  /\ Passed(Opened(Root)) = {}
           /\ \A o : IsFirst(o, outer.buf) =>
                  /\ o \in Hosts /\ o \notin Passed(outer)
                  /\ Passed(Taken(outer, o)) = Passed(outer) \cup {o}
           /\ \A o : IsFirst(o, Ahead(outer)) =>
                  /\ o \in Hosts /\ Passed(outer) \subseteq Passed(Fetched(outer, o))
                  /\ Passed(Fetched(outer, o)) \cap SteadyHosts = Passed(outer) \cap SteadyHosts
           /\ AtEnd(outer) /\ outer.gen = 1 => Passed(outer) \cap SteadyHosts = SteadyHosts
<1>0. /\ outer \in Streams /\ KernelTypeOK /\ outer.cursor \in Nat /\ outer.buf \subseteq Object
      /\ Hosts \subseteq Object
  BY StreamsAre, HostsAre DEF TypeInv, TypeOK
<1>1. Passed(Opened(Root)) = {}
  BY <1>0, OpenedOK DEF Passed, Exists
<1>2. ASSUME NEW o, IsFirst(o, outer.buf)
      PROVE  /\ o \in Hosts /\ o \notin Passed(outer)
             /\ Passed(Taken(outer, o)) = Passed(outer) \cup {o}
  <2>1. /\ o \in Hosts /\ o \in outer.buf /\ o \in Object /\ Hash[o] <= outer.cursor
        /\ Taken(outer, o).buf = outer.buf \ {o} /\ Taken(outer, o).cursor = outer.cursor
    BY <1>0, <1>2, TakenOK DEF Hosts, IsFirst
  <2> QED BY <1>0, <2>1, HashIs DEF Passed, Ahead1
<1>3. ASSUME NEW o, IsFirst(o, Ahead(outer))
      PROVE  /\ o \in Hosts /\ Passed(outer) \subseteq Passed(Fetched(outer, o))
             /\ Passed(Fetched(outer, o)) \cap SteadyHosts = Passed(outer) \cap SteadyHosts
  <2>1. /\ o \in Object /\ Hash[o] > outer.cursor
        /\ Fetched(outer, o).buf = outer.buf \cup {o} /\ Fetched(outer, o).cursor = Hash[o]
    BY <1>0, <1>3, FetchedOK
  <2>2. /\ o \in Children(Root) \cap present /\ Exists(Root) /\ GenOf(Root) = outer.gen
        /\ \A h \in Children(Root) \cap present : Hash[h] > outer.cursor => Hash[o] <= Hash[h]
    BY <1>3 DEF IsFirst, Ahead
  <2>3. Passed(outer) \subseteq Passed(Fetched(outer, o))
    BY <1>0, <2>1, HashIs DEF Passed, Ahead1
  <2>4. ASSUME NEW h \in SteadyHosts, h \in Passed(Fetched(outer, o)) PROVE h \in Passed(outer)
    <3>1. h \in Hosts /\ h \in Object /\ h \in present
      BY <1>0 DEF SteadyHosts, Steady
    <3>2. h \notin outer.buf \cup {o} /\ ~(Hash[h] > Hash[o])
      BY <2>1, <2>4 DEF Passed, Ahead1
    <3>3. CASE Hash[h] > outer.cursor
      <4>1. Hash[o] <= Hash[h]
        BY <2>2, <3>1, <3>3 DEF Hosts
      <4>2. h = o
        BY <2>1, <3>1, <3>2, <4>1, HashIs
      <4> QED BY <3>2, <4>2
    <3>4. CASE ~(Hash[h] > outer.cursor)
      BY <3>1, <3>2, <3>4 DEF Passed, Ahead1
    <3> QED BY <3>3, <3>4
  <2> QED BY <2>2, <2>3, <2>4 DEF Hosts
<1>4. ASSUME AtEnd(outer), outer.gen = 1 PROVE Passed(outer) \cap SteadyHosts = SteadyHosts
  <2>1. outer.buf = {} /\ {h \in Hosts \cap present : Hash[h] > outer.cursor} = {}
    BY <1>4 DEF AtEnd, Ahead, Exists, GenOf, Hosts
  <2> QED BY <2>1 DEF Passed, Ahead1, SteadyHosts, Steady
<1> QED BY <1>1, <1>2, <1>3, <1>4

LEMMA OneMore ==
    ASSUME NEW A, NEW B, NEW o, IsFiniteSet(A), Cardinality(A) \in Nat, B = A \/ B = A \cup {o}
    PROVE  Cardinality(B) <= Cardinality(A) + 1
<1>1. CASE B = A
  BY <1>1
<1>2. CASE B = A \cup {o}
  BY <1>2, FS_AddElement
<1> QED BY <1>1, <1>2

\* The steps that count nothing.
LEMMA CountKept ==
    ASSUME TypeInv, CountInv, UNCHANGED <<kernel, count>>,
           outer'.dir = Root => outer'.gen = 1,
           pc' # "scan",
           pc' = "counting" => pc = "counting" /\ outer' = outer,
           (pc' = "open" \/ InHosts' \/ result' = "count") => (pc = "open" \/ InHosts \/ result = "count")
    PROVE  CountInv'
<1>1. SteadyHosts' = SteadyHosts /\ MetHosts' = MetHosts
  BY DEF SteadyHosts, MetHosts, Steady, Met, kernel
<1>2. outer' = outer => Passed(outer)' = Passed(outer)
  BY DEF Passed, Ahead1
<1> QED BY <1>1, <1>2 DEF CountInv

LEMMA RootStream ==
    ASSUME TypeInv, CountInv, Process
    PROVE  outer'.dir = Root => outer'.gen = 1
<1>1. \/ outer' = outer
      \/ \E dir : outer' = Opened(dir)
      \/ \E o : outer' = Taken(outer, o)
      \/ \E o : outer' = Fetched(outer, o)
  BY DEF Process, ReadFile, ReadCrashes, ReadAhead, Scan, CountHost, EndScan, OpenHosts,
         TakeHost, AllocFails, EndHosts, Alloc, OpenDevice, TakeSession, EndSessions,
         OpenSession, FindTarget, NoTarget, OpenTargets, TakeTarget, EndTargets, OpenLuns,
         TakeLun, CheckType, GetDeviceEntry, EntryCrashes, PrintLun, EndLuns,
         OpenConnections, TakeConnection, EndConnections, GetConnectionInfo, PrintRow,
         OpenOuter, OpenInner, OpenFails, NextOuter, NextInner, EndOuter, EndInner
<1>2. /\ \A dir : Opened(dir).dir = dir /\ Opened(dir).gen = GenOf(dir)
      /\ \A o : Taken(outer, o).dir = outer.dir /\ Taken(outer, o).gen = outer.gen
      /\ \A o : Fetched(outer, o).dir = outer.dir /\ Fetched(outer, o).gen = outer.gen
  BY DEF Opened, Taken, Fetched, TypeInv, TypeOK, Streams
<1> QED BY <1>1, <1>2 DEF CountInv, GenOf

LEMMA CountStep ==
    ASSUME Inv, PassInv, CountInv, HostInv, Process
    PROVE  CountInv'
<1>0. /\ UNCHANGED <<kernel, call>> /\ TypeInv /\ KernelTypeOK /\ StreamOK(outer) /\ count \in Nat
      /\ call.op \in {"list", "show"}
      /\ outer'.dir = Root => outer'.gen = 1
  <2>1. TypeInv /\ KernelTypeOK /\ StreamOK(outer) /\ count \in Nat /\ call \in Calls
    BY DEF Inv, TypeInv, TypeOK, SearchInv
  <2>2. UNCHANGED <<kernel, call>>
    BY DEF Process, ReadFile, ReadCrashes, ReadAhead, Scan, CountHost, EndScan, OpenHosts,
         TakeHost, AllocFails, EndHosts, Alloc, OpenDevice, TakeSession, EndSessions,
         OpenSession, FindTarget, NoTarget, OpenTargets, TakeTarget, EndTargets, OpenLuns,
         TakeLun, CheckType, GetDeviceEntry, EntryCrashes, PrintLun, EndLuns,
         OpenConnections, TakeConnection, EndConnections, GetConnectionInfo, PrintRow
  <2> QED BY <2>1, <2>2, CallType, RootStream
<1>1. /\ SteadyHosts' = SteadyHosts /\ MetHosts' = MetHosts
      /\ \A s : Passed(s)' = Passed(s)
      /\ SteadyHosts \subseteq Object /\ MetHosts \subseteq Object /\ SteadyHosts \subseteq MetHosts
      /\ \A s : Passed(s) \subseteq Object
  BY <1>0, HostsAre DEF SteadyHosts, MetHosts, Steady, Met, Passed, Ahead1, kernel
<1>2. PICK S, T, P : S = SteadyHosts /\ T = MetHosts /\ P = Passed(outer)
  OBVIOUS
<1>3. PICK P1 : P1 = Passed(outer)' /\ P1 = Passed(outer')
  BY DEF Passed, Ahead1
<1>4. S \subseteq T /\ T \subseteq Object /\ P \subseteq Object /\ P1 \subseteq Object
  BY <1>1, <1>2, <1>3
<1>5. ASSUME pc = "counting"
      PROVE  /\ outer.dir = Root /\ outer.gen = 1
             /\ Cardinality(P \cap S) <= count /\ count <= Cardinality(P \cap T)
             /\ Cardinality(P \cap S) \in Nat /\ Cardinality(P \cap T) \in Nat
             /\ call.op = "list" /\ result # "count"
  BY <1>0, <1>2, <1>4, <1>5, HostsFinite DEF CountInv, HostInv, TypeInv, ControlOK
<1>6. ASSUME pc # "done", pc' = "counting", outer'.dir = Root, result' = result,
             Cardinality(P1 \cap S) <= count', count' <= Cardinality(P1 \cap T)
      PROVE  CountInv'
  <2>1. result' # "count"
    BY <1>6 DEF HostInv
  <2> QED BY <1>0, <1>1, <1>2, <1>3, <1>6, <2>1 DEF CountInv, InHosts
<1>7. CASE Scan
  <2>1. CASE OpenOuter(Root) /\ pc' = "counting" /\ result' = result
    <3>1. outer' = Opened(Root) /\ outer'.dir = Root /\ count' = 0
      BY <1>7, <2>1 DEF Scan, At, OpenOuter, Opened, CountInv
    <3>2. P1 = {}
      BY <1>0, <1>3, <3>1, OpenedOK DEF Passed, Exists, Hosts, Children
    <3>3. Cardinality(P1 \cap S) = 0 /\ Cardinality(P1 \cap T) = 0
      <4>1. P1 \cap S = {} /\ P1 \cap T = {}
        BY <3>2
      <4>2. Cardinality({}) = 0
        BY FS_EmptySet
      <4> QED BY <4>1, <4>2
    <3> QED BY <1>6, <1>7, <2>1, <3>1, <3>3 DEF Scan, At
  <2>2. CASE OpenFails(Root) /\ Return("ENODEV")
    BY <1>0, <1>7, <2>2, CountKept DEF Scan, Return, InHosts
  <2> QED BY <1>7, <2>1, <2>2 DEF Scan
<1>8. CASE CountHost
  <2>1. PICK o : IsFirst(o, outer.buf) /\ outer' = Taken(outer, o)
    BY <1>8 DEF CountHost, NextOuter
  <2>2. pc = "counting" /\ pc' = "counting" /\ count' = count + 1 /\ result' = result
    BY <1>8 DEF CountHost, At
  <2>3. outer'.dir = Root
    BY <1>0, <1>5, <2>1, <2>2, TakenOK DEF TypeInv, TypeOK
  <2>4. o \in Hosts /\ o \notin P /\ P1 = P \cup {o}
    BY <1>0, <1>2, <1>3, <1>5, <2>1, <2>2, PassedSteps
  <2>5. o \in T
    BY <1>2, <2>1, <2>4 DEF IsFirst, MetHosts, PassInv, MetInv
  <2>6. Cardinality(P1 \cap T) = Cardinality(P \cap T) + 1
    <3>1. P1 \cap T = (P \cap T) \cup {o} /\ o \notin P \cap T
      BY <2>4, <2>5
    <3>2. IsFiniteSet(P \cap T)
      BY <1>4, HostsFinite
    <3> QED BY <3>1, <3>2, FS_AddElement
  <2>7. Cardinality(P1 \cap S) <= Cardinality(P \cap S) + 1
    <3>1. IsFiniteSet(P \cap S) /\ Cardinality(P \cap S) \in Nat
      BY <1>4, HostsFinite
    <3>2. P1 \cap S = P \cap S \/ P1 \cap S = (P \cap S) \cup {o}
      BY <2>4
    <3>3. PICK A, B : A = P \cap S /\ B = P1 \cap S
      OBVIOUS
    <3>4. IsFiniteSet(A) /\ Cardinality(A) \in Nat /\ (B = A \/ B = A \cup {o})
      BY <3>1, <3>2, <3>3
    <3>5. Cardinality(B) <= Cardinality(A) + 1
      BY <3>4, OneMore
    <3> QED BY <3>3, <3>5
  <2>8. Cardinality(P1 \cap S) \in Nat
    BY <1>4, HostsFinite
  <2>9. Cardinality(P1 \cap S) <= count' /\ count' <= Cardinality(P1 \cap T)
    BY <1>0, <1>5, <2>2, <2>6, <2>7, <2>8
  <2> QED BY <1>6, <2>2, <2>3, <2>9
<1>9. CASE EndScan
  <2>1. pc = "counting" /\ AtEnd(outer) /\ count' = count /\ outer' = outer
        /\ pc' \in {"done", "open"} /\ result' \in {"ENODEV", result}
    BY <1>9 DEF EndScan, EndOuter, At, Return
  <2>2. P \cap S = S
    BY <1>0, <1>2, <1>5, <2>1, PassedSteps
  <2>3. Cardinality(P \cap T) <= Cardinality(T) /\ Cardinality(T) \in Nat
    BY <1>4, HostsFinite
  <2>4. Cardinality(S) <= count' /\ count' <= Cardinality(T)
    BY <1>0, <1>5, <2>1, <2>2, <2>3
  <2>5. result' # "count"
    BY <1>5, <2>1
  <2> QED BY <1>0, <1>1, <1>2, <2>1, <2>4, <2>5 DEF CountInv, InHosts
<1>10. CASE ReadAhead
  <2>1. CASE pc = "counting"
    <3>1. PICK o : IsFirst(o, Ahead(outer)) /\ outer' = Fetched(outer, o)
      BY <1>10, <2>1 DEF ReadAhead, OnInner
    <3>2. pc' = "counting" /\ count' = count /\ result' = result
      BY <1>10, <2>1 DEF ReadAhead
    <3>3. outer'.dir = Root
      BY <1>0, <1>5, <2>1, <3>1, FetchedOK DEF TypeInv, TypeOK
    <3>4. P \subseteq P1 /\ P1 \cap S = P \cap S
      BY <1>0, <1>2, <1>3, <1>5, <2>1, <3>1, PassedSteps
    <3>5. Cardinality(P \cap T) <= Cardinality(P1 \cap T) /\ Cardinality(P1 \cap T) \in Nat
      <4>1. P \cap T \in SUBSET (P1 \cap T) /\ P1 \cap T \in SUBSET Object
        BY <1>4, <3>4
      <4> QED BY <4>1, HostsFinite
    <3>6. Cardinality(P1 \cap S) <= count' /\ count' <= Cardinality(P1 \cap T)
      BY <1>0, <1>5, <2>1, <3>2, <3>4, <3>5
    <3> QED BY <1>6, <2>1, <3>2, <3>3, <3>6
  <2>2. CASE pc # "counting"
    <3>1. UNCHANGED <<pc, count, result>> /\ pc # "scan"
      BY <1>10 DEF ReadAhead, OnOuter, OnInner
    <3> QED BY <1>0, <2>2, <3>1, CountKept DEF InHosts
  <2> QED BY <2>1, <2>2
<1>11. CASE ReadFile \/ ReadCrashes
  <2>1. /\ UNCHANGED <<outer, count>> /\ (pc' = pc \/ pc' = "crashed")
        /\ result' = result \/ result' # "count"
    <3>1. todo # <<>> => Head(todo).how # "count"
      BY <1>0, TableElements DEF TypeInv, TypeOK, Files
    <3> QED BY <1>11, <3>1 DEF ReadFile, ReadCrashes, Die
  <2>2. pc # "scan" \/ pc' = "crashed" \/ pc' = pc
    BY <2>1
  <2>3. CASE pc' = "scan"
    BY <1>0, <1>1, <1>11, <2>1, <2>3 DEF CountInv, HostInv, InHosts, ReadFile, ReadCrashes, Die
  <2>4. CASE pc' # "scan"
    BY <1>0, <1>11, <2>1, <2>4, CountKept DEF InHosts, ReadFile, ReadCrashes, Die, HostInv
  <2> QED BY <2>3, <2>4
<1>12. CASE \/ OpenHosts \/ TakeHost \/ AllocFails \/ EndHosts
            \/ Alloc \/ OpenDevice \/ TakeSession \/ EndSessions
  <2>1. /\ pc' \notin {"scan", "counting"} /\ count' = count
        /\ (pc' = "open" \/ InHosts' \/ result' = "count") =>
               (pc = "open" \/ InHosts \/ result = "count")
    BY <1>0, <1>12 DEF OpenHosts, TakeHost, AllocFails, EndHosts, Alloc, OpenDevice, TakeSession,
         EndSessions, At, EndOuter, EndInner, Return, SessionFilled, InHosts, TypeInv, ControlOK
  <2> QED BY <1>0, <2>1, CountKept
<1>13. CASE \/ OpenSession \/ FindTarget \/ NoTarget \/ OpenTargets \/ TakeTarget \/ EndTargets
            \/ OpenLuns \/ TakeLun \/ CheckType \/ GetDeviceEntry \/ EntryCrashes \/ PrintLun
            \/ EndLuns \/ OpenConnections \/ TakeConnection \/ EndConnections
            \/ GetConnectionInfo \/ PrintRow
  <2>1. /\ pc' \notin {"scan", "counting"} /\ count' = count
        /\ (pc' = "open" \/ InHosts' \/ result' = "count") =>
               (pc = "open" \/ InHosts \/ result = "count")
    BY <1>0, <1>13 DEF OpenSession, FindTarget, NoTarget, OpenTargets, TakeTarget, EndTargets,
         OpenLuns, TakeLun, CheckType, GetDeviceEntry, EntryCrashes, PrintLun, EndLuns,
         OpenConnections, TakeConnection, EndConnections, GetConnectionInfo, PrintRow,
         At, EndInner, EndOuter, Return, Die, After, InHosts, TypeInv, ControlOK
  <2> QED BY <1>0, <2>1, CountKept
<1> QED BY <1>7, <1>8, <1>9, <1>10, <1>11, <1>12, <1>13 DEF Process

-----------------------------------------------------------------------------
(* The hosts that are listed. *)

LEMMA HostKernelStep ==
    ASSUME TypeInv, HostInv, Kernel
    PROVE  HostInv'
<1>0. UNCHANGED proc /\ KernelTypeOK
  BY DEF Kernel, TypeInv, TypeOK
<1>1. \A o : (Steady(o)' => Steady(o)) /\ (Met(o) => Met(o)')
  <2>1. PICK x \in Object : Appear(x) \/ Vanish(x)
    BY DEF Kernel, Hotplug
  <2>2. \A o : Met(o) => Met(o)'
    BY <2>1 DEF Appear, Vanish, Met
  <2> QED BY <1>0, <2>2, SteadyKept DEF Kernel
<1>2. SteadyHosts' \subseteq SteadyHosts /\ MetHosts \subseteq MetHosts'
  BY <1>1 DEF SteadyHosts, MetHosts
<1>3. /\ InHosts' = InHosts /\ AtHost' = AtHost
      /\ \A h : (Earlier(h)' <=> Earlier(h)) /\ (Listed(h)' <=> Listed(h))
      /\ \A s, h : Ahead1(s, h)' <=> Ahead1(s, h)
  BY <1>0 DEF InHosts, AtHost, Earlier, Listed, RowHost, Ahead1, proc
<1> QED BY <1>0, <1>2, <1>3 DEF HostInv, RowHost, Earlier, proc

\* The function returns the number at the end of the list only.
LEMMA CountReturned ==
    ASSUME TypeInv, HostInv, Process, result' = "count"
    PROVE  EndHosts
<1>1. todo # <<>> => Head(todo).how # "count"
  BY TableElements DEF TypeInv, TypeOK, Files
<1>2. CASE \/ ReadFile \/ ReadCrashes \/ ReadAhead
           \/ Scan \/ CountHost \/ EndScan \/ OpenHosts \/ TakeHost \/ AllocFails
           \/ Alloc \/ OpenDevice \/ TakeSession \/ EndSessions
  BY <1>1, <1>2 DEF HostInv, ReadFile, ReadCrashes, ReadAhead, Scan, CountHost, EndScan,
         OpenHosts, TakeHost, AllocFails, Alloc, OpenDevice, TakeSession, EndSessions, OnOuter,
         OnInner, At, EndOuter, EndInner, Return, Die, Ended
<1>3. CASE \/ OpenSession \/ FindTarget \/ NoTarget
           \/ OpenTargets \/ TakeTarget \/ EndTargets
           \/ OpenLuns \/ TakeLun \/ CheckType \/ GetDeviceEntry \/ EntryCrashes \/ PrintLun
           \/ EndLuns
           \/ OpenConnections \/ TakeConnection \/ EndConnections \/ GetConnectionInfo
           \/ PrintRow
  BY <1>3 DEF HostInv, OpenSession, FindTarget, NoTarget, OpenTargets, TakeTarget, EndTargets,
         OpenLuns, TakeLun, CheckType, GetDeviceEntry, EntryCrashes, PrintLun, EndLuns,
         OpenConnections, TakeConnection, EndConnections, GetConnectionInfo, PrintRow,
         At, EndOuter, EndInner, Return, Die
<1> QED BY <1>2, <1>3 DEF Process

\* A step that leaves the loop, or what it depends on.
LEMMA HostKept ==
    ASSUME TypeInv, HostInv, UNCHANGED <<kernel, call, rows>>, result' # "count",
           pc' \in {"scan", "counting", "open"} => pc \in {"scan", "counting", "open"},
           InHosts' => /\ InHosts /\ (AtHost' <=> AtHost)
                       /\ outer' = outer /\ name'.host = name.host
    PROVE  HostInv'
<1>1. /\ SteadyHosts' = SteadyHosts /\ MetHosts' = MetHosts
      /\ \A h : Listed(h)' <=> Listed(h)
      /\ \A s, h : Ahead1(s, h)' <=> Ahead1(s, h)
      /\ AtHost' => InHosts'
  BY DEF SteadyHosts, MetHosts, Steady, Met, Listed, RowHost, Ahead1, kernel, AtHost
<1>2. \A h : Earlier(h) => Earlier(h)'
  BY <1>1 DEF Earlier
<1> QED BY <1>1, <1>2 DEF HostInv, RowHost, Earlier

LEMMA HostStep ==
    ASSUME Inv, PassInv, CountInv, HostInv, Process
    PROVE  HostInv'
<1>0. /\ UNCHANGED <<kernel, call>> /\ TypeInv /\ KernelTypeOK /\ StreamOK(outer) /\ name \in Names
      /\ call.op \in {"list", "show"} /\ ControlOK' /\ outer \in Streams
      /\ outer.cursor \in Nat /\ outer.buf \subseteq Object
  <2>1. /\ TypeInv /\ KernelTypeOK /\ StreamOK(outer) /\ call \in Calls /\ name \in Names
        /\ outer \in Streams
    BY DEF Inv, TypeInv, TypeOK, SearchInv
  <2>2. UNCHANGED <<kernel, call>>
    BY DEF Process, ReadFile, ReadCrashes, ReadAhead, Scan, CountHost, EndScan, OpenHosts,
         TakeHost, AllocFails, EndHosts, Alloc, OpenDevice, TakeSession, EndSessions,
         OpenSession, FindTarget, NoTarget, OpenTargets, TakeTarget, EndTargets, OpenLuns,
         TakeLun, CheckType, GetDeviceEntry, EntryCrashes, PrintLun, EndLuns,
         OpenConnections, TakeConnection, EndConnections, GetConnectionInfo, PrintRow
  <2> QED BY <2>1, <2>2, CallType, ProcessTypeStep, StreamsAre DEF TypeInv
<1>1. /\ SteadyHosts' = SteadyHosts /\ MetHosts' = MetHosts
      /\ \A s, h : Ahead1(s, h)' <=> Ahead1(s, h)
      /\ SteadyHosts \subseteq Object /\ MetHosts \subseteq Object
  BY <1>0, HostsAre DEF SteadyHosts, MetHosts, Steady, Met, Ahead1, kernel
<1>2. rows' = rows => \A h : Listed(h)' <=> Listed(h)
  BY DEF Listed, RowHost
<1>3. CASE call.op = "show"
  <2>1. result' # "count"
    BY <1>0, <1>3, CountReturned DEF EndHosts, EndOuter, At, TypeInv, ControlOK
  <2>2. ~InHosts' /\ ~AtHost' /\ pc' \notin {"scan", "counting", "open"}
    BY <1>0, <1>3 DEF InHosts, AtHost, ControlOK
  <2> QED BY <1>0, <1>3, <2>1, <2>2 DEF HostInv
<1>4. CASE call.op = "list" /\ (Scan \/ CountHost \/ EndScan)
  <2>1. result' # "count"
    BY <1>0, <1>4, CountReturned DEF Scan, CountHost, EndScan, EndHosts, EndOuter, At
  <2>2. /\ rows' = rows /\ ~InHosts' /\ pc \in {"scan", "counting", "open"}
    BY <1>4 DEF Scan, CountHost, EndScan, EndOuter, At, Return, InHosts
  <2> QED BY <1>0, <2>1, <2>2, HostKept
<1>5. CASE OpenHosts
  <2>1. pc = "open" /\ rows' = rows /\ rows = <<>> /\ result' # "count"
    BY <1>0, <1>5, CountReturned DEF OpenHosts, At, HostInv, EndHosts, EndOuter
  <2>2. CASE OpenOuter(Root) /\ pc' = "hosts"
    <3>1. outer' = Opened(Root)
      BY <2>2 DEF OpenOuter
    <3>2. outer'.dir = Root /\ \A c \in Object : Ahead1(outer', c)
      BY <1>0, <3>1, OpenedOK DEF Exists
    <3>3. ~AtHost' /\ DOMAIN rows = {}
      BY <2>1, <2>2, EmptySeq DEF AtHost
    <3> QED BY <1>0, <1>1, <2>1, <2>2, <3>2, <3>3 DEF HostInv
  <2>3. CASE OpenFails(Root) /\ Return("EINVAL")
    BY <1>0, <2>1, <2>3, HostKept DEF Return, InHosts
  <2> QED BY <1>5, <2>2, <2>3 DEF OpenHosts
<1>6. CASE ReadAhead /\ call.op = "list"
  <2>1. /\ UNCHANGED <<pc, rows, name>>
        /\ result' # "count"
        /\ InHosts' = InHosts /\ AtHost' = AtHost
    BY <1>0, <1>6, CountReturned
       DEF ReadAhead, EndHosts, EndOuter, At, Return, OnOuter, OnInner, InHosts, AtHost
  <2>2. CASE pc # "hosts"
    <3>1. InHosts => outer' = outer
      BY <1>6, <2>2 DEF ReadAhead, OnOuter, InHosts
    <3> QED BY <1>0, <2>1, <3>1, HostKept
  <2>3. CASE pc = "hosts"
    <3>1. PICK o : IsFirst(o, Ahead(outer)) /\ outer' = Fetched(outer, o)
      BY <1>6, <2>3 DEF ReadAhead, OnInner
    <3>2. InHosts /\ ~AtHost /\ outer.dir = Root
      BY <1>6, <2>3 DEF InHosts, AtHost, HostInv
    <3>3. /\ o \in Object /\ outer'.dir = Root
          /\ outer'.buf = outer.buf \cup {o} /\ outer'.cursor = Hash[o] /\ Hash[o] > outer.cursor
      BY <1>0, <3>1, <3>2, FetchedOK
    <3>4. \A h \in SteadyHosts : Ahead1(outer, h) => Ahead1(outer', h)
      <4>1. Passed(Fetched(outer, o)) \cap SteadyHosts = Passed(outer) \cap SteadyHosts
        BY <1>0, <3>1, <3>2, PassedSteps
      <4> QED BY <3>1, <4>1, HostsAre DEF Passed
    <3>5. \A h \in Object : Earlier(h) => Earlier(h)'
      BY <1>0, <2>1, <3>2, <3>3, HashIs DEF Earlier
    <3>6. \A i \in DOMAIN rows : \E h \in Object : h = RowHost(i) /\ h = RowHost(i)' /\ Earlier(h)
      BY <1>1, <1>6, <2>1 DEF HostInv, RowHost
    <3>7. \A i \in DOMAIN rows' : RowHost(i)' \in MetHosts /\ Earlier(RowHost(i))'
      <4> SUFFICES ASSUME NEW i \in DOMAIN rows
                   PROVE  RowHost(i)' \in MetHosts /\ Earlier(RowHost(i))'
        BY <2>1
      <4>1. PICK h \in Object : h = RowHost(i) /\ h = RowHost(i)' /\ Earlier(h)
        BY <3>6
      <4>2. Earlier(h)' /\ h \in MetHosts
        BY <1>6, <3>5, <4>1 DEF HostInv
      <4> QED BY <4>1, <4>2 DEF Earlier
    <3> QED BY <1>0, <1>1, <1>2, <1>6, <2>1, <2>3, <3>2, <3>3, <3>4, <3>7 DEF HostInv, RowHost
  <2> QED BY <2>2, <2>3
<1>7. CASE TakeHost
  <2>1. PICK o \in outer.buf :
            IsFirst(o, outer.buf) /\ outer' = Taken(outer, o) /\ name' = [NoNames EXCEPT !.host = o]
    BY <1>7 DEF TakeHost, NextOuter
  <2>2. /\ pc = "hosts" /\ pc' = "device" /\ rows' = rows /\ call.op = "list"
        /\ InHosts /\ ~AtHost /\ InHosts' /\ AtHost' /\ outer.dir = Root
        /\ result' # "count"
    BY <1>0, <1>7, CountReturned
       DEF TakeHost, At, TypeInv, ControlOK, InHosts, AtHost, HostInv, EndHosts, EndOuter
  <2>3. /\ o \in Hosts /\ o \in Object
        /\ outer'.dir = Root /\ outer'.cursor = outer.cursor
        /\ outer'.buf = outer.buf \ {o} /\ Hash[o] <= outer.cursor
        /\ \A p \in outer.buf : Hash[o] <= Hash[p]
        /\ \A c \in Object : Ahead1(outer, c) => (c # o => Ahead1(outer', c))
    BY <1>0, <2>1, <2>2, TakenOK DEF Hosts
  <2>4. name'.host = o /\ o \in MetHosts
    BY <1>0, <2>1, <2>3, NamesKept DEF PassInv, MetInv, MetHosts
  <2>5. \A b \in outer'.buf : Hash[o] < Hash[b]
    BY <1>0, <2>3, HashIs
  <2>6. \A i \in DOMAIN rows' : RowHost(i)' \in MetHosts /\ Earlier(RowHost(i))'
    <3> SUFFICES ASSUME NEW i \in DOMAIN rows
                 PROVE  RowHost(i)' \in MetHosts /\ Earlier(RowHost(i))'
      BY <2>2
    <3>1. PICK h \in Object : h = RowHost(i) /\ h = RowHost(i)' /\ Earlier(h) /\ h \in MetHosts
      BY <1>1, <2>2 DEF HostInv, RowHost
    <3>2. Hash[h] <= outer.cursor /\ \A b \in outer.buf : Hash[h] < Hash[b]
      BY <2>2, <3>1 DEF Earlier
    <3>3. Earlier(h)'
      BY <2>1, <2>3, <2>4, <3>2 DEF Earlier
    <3> QED BY <3>1, <3>3 DEF Earlier
  <2>7. \A i, j \in DOMAIN rows' : i < j => Hash[RowHost(i)'] < Hash[RowHost(j)']
    BY <2>2 DEF HostInv, RowHost
  <2>8. \A h \in SteadyHosts : Ahead1(outer', h) \/ h = o \/ Listed(h)
    BY <1>1, <2>2, <2>3 DEF HostInv
  <2> QED BY <1>0, <1>1, <1>2, <2>2, <2>3, <2>4, <2>5, <2>6, <2>7, <2>8 DEF HostInv, RowHost
<1>8. CASE AllocFails \/ ReadCrashes \/ EntryCrashes
  <2>1. rows' = rows /\ pc' \in {"done", "crashed"} /\ ~InHosts'
    BY <1>8 DEF AllocFails, ReadCrashes, EntryCrashes, Return, Die, InHosts
  <2>2. ~EndHosts
    BY <1>8 DEF AllocFails, ReadCrashes, EntryCrashes, Return, Die, EndHosts, EndOuter, At
  <2> QED BY <1>0, <2>1, <2>2, CountReturned, HostKept
<1>9. CASE EndHosts
  <2>1. /\ pc = "hosts" /\ AtEnd(outer) /\ rows' = rows /\ pc' = "done" /\ call.op = "list"
        /\ InHosts /\ ~AtHost /\ ~InHosts' /\ ~AtHost'
    BY <1>0, <1>9 DEF EndHosts, EndOuter, At, Return, TypeInv, ControlOK, InHosts, AtHost
  <2>2. outer.dir = Root /\ outer.gen = 1
    BY <2>1 DEF HostInv, CountInv
  <2>3. \A h \in SteadyHosts : Listed(h)
    <3>1. Passed(outer) \cap SteadyHosts = SteadyHosts
      BY <1>0, <2>1, <2>2, PassedSteps
    <3> QED BY <2>1, <3>1 DEF HostInv, Passed
  <2>4. \A i \in DOMAIN rows' : RowHost(i)' \in MetHosts /\ Earlier(RowHost(i))'
    BY <2>1 DEF HostInv, RowHost, Earlier
  <2>5. \A i, j \in DOMAIN rows' : i < j => Hash[RowHost(i)'] < Hash[RowHost(j)']
    BY <2>1 DEF HostInv, RowHost
  <2> QED BY <1>0, <1>1, <1>2, <2>1, <2>3, <2>4, <2>5 DEF HostInv
<1>10. CASE PrintRow /\ call.op = "list"
  <2>0. PICK n : n = Len(rows) + 1
    OBVIOUS
  <2>1. /\ pc = "print" /\ pc' = "hosts" /\ UNCHANGED <<name, outer>>
        /\ rows' = Append(rows, Row("host")) /\ result' # "count"
        /\ InHosts /\ AtHost /\ InHosts' /\ ~AtHost'
    BY <1>0, <1>10, CountReturned DEF PrintRow, At, InHosts, AtHost, EndHosts, EndOuter
  <2>2. /\ DOMAIN rows' = 1 .. n /\ n \in Nat
        /\ \A i \in DOMAIN rows : rows'[i] = rows[i] /\ i < n /\ i \in Nat
        /\ \A i : i \in DOMAIN rows' <=> i \in DOMAIN rows \/ i = n
        /\ rows'[n].name = name
    <3>1. /\ DOMAIN rows' = 1 .. n
          /\ \A i \in DOMAIN rows : rows'[i] = rows[i]
          /\ rows'[n].name = name
      BY <1>0, <2>0, <2>1, AppendedRow DEF Things
    <3> QED BY <1>0, <2>0, <3>1, RowsAre
  <2>3. PICK o : o = name.host /\ o \in MetHosts /\ Hash[o] <= outer.cursor
                 /\ \A b \in outer.buf : Hash[o] < Hash[b]
    BY <2>1 DEF HostInv
  <2>4. /\ RowHost(n)' = o
        /\ \A i \in DOMAIN rows : /\ RowHost(i)' = RowHost(i) /\ RowHost(i) \in MetHosts
                                  /\ Hash[RowHost(i)] < Hash[o]
                                  /\ Hash[RowHost(i)] <= outer.cursor
                                  /\ \A b \in outer.buf : Hash[RowHost(i)] < Hash[b]
    BY <1>10, <2>1, <2>2, <2>3 DEF HostInv, RowHost, Earlier
  <2>5. \A i \in DOMAIN rows' : RowHost(i)' \in MetHosts /\ Earlier(RowHost(i))'
    <3> SUFFICES ASSUME NEW i \in DOMAIN rows'
                 PROVE  RowHost(i)' \in MetHosts /\ Earlier(RowHost(i))'
      OBVIOUS
    <3>1. PICK h : /\ h = RowHost(i)' /\ h \in MetHosts /\ Hash[h] <= outer.cursor
                   /\ \A b \in outer.buf : Hash[h] < Hash[b]
      BY <2>2, <2>3, <2>4
    <3> QED BY <2>1, <3>1 DEF Earlier
  <2>6. \A i, j \in DOMAIN rows' : i < j => Hash[RowHost(i)'] < Hash[RowHost(j)']
    <3> SUFFICES ASSUME NEW i \in DOMAIN rows', NEW j \in DOMAIN rows', i < j
                 PROVE  Hash[RowHost(i)'] < Hash[RowHost(j)']
      OBVIOUS
    <3>1. i \in DOMAIN rows
      BY <2>2
    <3>2. CASE j \in DOMAIN rows
      BY <1>10, <2>4, <3>1, <3>2 DEF HostInv
    <3>3. CASE j = n
      BY <2>4, <3>1, <3>3
    <3> QED BY <2>2, <3>2, <3>3
  <2>7. \A h \in SteadyHosts : Ahead1(outer, h) \/ Listed(h)'
    <3> SUFFICES ASSUME NEW h \in SteadyHosts, h = o \/ Listed(h) PROVE Listed(h)'
      BY <2>1, <2>3 DEF HostInv
    <3> QED BY <2>2, <2>4 DEF Listed
  <2>8. outer.dir = Root
    BY <2>1 DEF HostInv
  <2> QED BY <1>0, <1>1, <2>1, <2>5, <2>6, <2>7, <2>8 DEF HostInv
<1>11. CASE call.op = "list" /\ ReadFile
  <2>1. UNCHANGED <<outer, rows, name, pc>> /\ ~EndHosts
    BY <1>11 DEF ReadFile, EndHosts, EndOuter, At
  <2> QED BY <1>0, <2>1, CountReturned, HostKept DEF InHosts, AtHost
<1>12. CASE /\ call.op = "list"
            /\ \/ OpenDevice \/ TakeSession \/ EndSessions
               \/ OpenConnections \/ TakeConnection \/ EndConnections
  <2>1. UNCHANGED <<outer, rows>> /\ ~EndHosts
    BY <1>12 DEF OpenDevice, TakeSession, EndSessions, OpenConnections, TakeConnection,
       EndConnections, OpenInner, OpenFails, EndHosts, EndOuter, EndInner, At
  <2>2. name'.host = name.host
    BY <1>0, <1>12, NamesKept DEF OpenDevice, TakeSession, EndSessions, OpenConnections,
       TakeConnection, EndConnections
  <2>3. /\ pc \in {"device", "sessions", "openconn", "connections"}
        /\ pc' \in {"device", "sessions", "openconn", "connections", "print"}
    BY <1>12 DEF OpenDevice, TakeSession, EndSessions, OpenConnections, TakeConnection,
       EndConnections, At, EndInner, SessionFilled, After
  <2>4. InHosts /\ AtHost /\ InHosts' /\ AtHost'
    BY <1>0, <1>12, <2>3 DEF InHosts, AtHost
  <2> QED BY <1>0, <2>1, <2>2, <2>3, <2>4, CountReturned, HostKept
<1>13. CASE /\ call.op = "list"
            /\ \/ Alloc \/ OpenSession \/ FindTarget \/ NoTarget \/ OpenTargets \/ TakeTarget
               \/ EndTargets \/ OpenLuns \/ TakeLun \/ CheckType \/ GetDeviceEntry
               \/ PrintLun \/ EndLuns \/ GetConnectionInfo
  BY <1>0, <1>13 DEF Alloc, OpenSession, FindTarget, NoTarget, OpenTargets, TakeTarget,
     EndTargets, OpenLuns, TakeLun, CheckType, GetDeviceEntry, PrintLun, EndLuns,
     GetConnectionInfo, At, EndOuter, EndInner, TypeInv, ControlOK
<1> QED
  BY <1>0, <1>3, <1>4, <1>5, <1>6, <1>7, <1>8, <1>9, <1>10, <1>11, <1>12, <1>13 DEF Process

LEMMA CountInit == Init => CountInv /\ HostInv
<1> SUFFICES ASSUME Init PROVE CountInv /\ HostInv
  OBVIOUS
<1>1. /\ pc \in {"scan", "alloc"} /\ (pc = "alloc" => call.op = "show") /\ rows = <<>>
      /\ count = 0 /\ result = "none" /\ outer = Opened(Root)
  BY InitType DEF Init, TypeInv, ControlOK
<1>2. outer.gen = 1
  BY <1>1 DEF Opened, GenOf
<1>3. DOMAIN rows = {}
  BY <1>1, EmptySeq
<1> QED BY <1>1, <1>2, <1>3 DEF CountInv, HostInv, InHosts, AtHost

THEOREM CountInvariant == Spec => [](Inv /\ CountInv /\ HostInv)
<1> DEFINE All == Inv /\ PassInv /\ CountInv /\ HostInv
<1>1. Init => All
  BY InitInv, PassInit, CountInit
<1>2. All /\ [Next]_vars => All'
  <2> SUFFICES ASSUME All, [Next]_vars PROVE All'
    OBVIOUS
  <2>1. Inv' /\ PassInv'
    BY InvStep, PassStep
  <2>2. CASE Process
    BY <2>1, <2>2, CountStep, HostStep
  <2>3. CASE Kernel
    BY <2>1, <2>3, CountKernelStep, HostKernelStep DEF Inv
  <2>4. CASE UNCHANGED vars
    <3>1. CountInv'
      BY <2>4 DEF vars, proc, kernel, CountInv, InHosts, SteadyHosts, MetHosts, Steady, Met,
         Passed, Ahead1
    <3>2. HostInv'
      BY <2>4 DEF vars, proc, kernel, HostInv, InHosts, AtHost, SteadyHosts, MetHosts, Steady,
         Met, Ahead1, Listed, RowHost, Earlier
    <3> QED BY <2>1, <3>1, <3>2
  <2> QED BY <2>2, <2>3, <2>4 DEF Next, Finished
<1>3. All => Inv /\ CountInv /\ HostInv
  OBVIOUS
<1> QED BY <1>1, <1>2, <1>3, PTL DEF Spec

\* The hosts listed are as many as the rows.
LEMMA RowsCounted ==
    ASSUME TypeInv, HostInv, call.op = "list"
    PROVE  /\ {RowHost(i) : i \in DOMAIN rows} \subseteq MetHosts
           /\ Cardinality({RowHost(i) : i \in DOMAIN rows}) = Len(rows)
<1> DEFINE n == Len(rows)
           S == {RowHost(i) : i \in DOMAIN rows}
           f == [i \in 1 .. n |-> RowHost(i)]
<1>1. n \in Nat /\ DOMAIN rows = 1 .. n
  BY RowsAre
<1>2. S \subseteq MetHosts
  BY DEF HostInv
<1>3. \A i, j \in 1 .. n : RowHost(i) = RowHost(j) => i = j
  <2> SUFFICES ASSUME NEW i \in 1 .. n, NEW j \in 1 .. n, RowHost(i) = RowHost(j), i < j
               PROVE  FALSE
    BY <1>1
  <2>1. Hash[RowHost(i)] < Hash[RowHost(j)] /\ Hash[RowHost(i)] \in Nat
    BY <1>1, HostsAre, HashIs DEF HostInv
  <2> QED BY <2>1
<1>4. f \in [1 .. n -> S] /\ (\A i \in 1 .. n : f[i] = RowHost(i)) /\ DOMAIN f = 1 .. n
  BY <1>1
<1>5. \A h \in S : \E i \in 1 .. n : f[i] = h
  BY <1>1
<1> HIDE DEF S, f, n
<1>6. IsInjective(f)
  BY <1>3, <1>4 DEF IsInjective
<1>7. f \in Injection(1 .. n, S)
  BY <1>4, <1>6 DEF Injection
<1>8. f \in Surjection(1 .. n, S)
  BY <1>4, <1>5 DEF Surjection
<1>9. ExistsBijection(1 .. n, S)
  BY <1>7, <1>8 DEF ExistsBijection, Bijection
<1>10. IsFiniteSet(1 .. n) /\ Cardinality(1 .. n) = n
  <2>1. 1 \in Int /\ n \in Int /\ (IF 1 > n THEN 0 ELSE n - 1 + 1) = n
    BY <1>1
  <2> QED BY <2>1, FS_Interval
<1>11. Cardinality(S) = n
  BY <1>9, <1>10, FS_Bijection
<1> QED BY <1>2, <1>11 DEF S, n

LEMMA CountsSuffice == TypeInv /\ CountInv /\ HostInv => CountFits
<1> SUFFICES ASSUME TypeInv, CountInv, HostInv, result = "count",
                    NEW M, M = {o \in touched : Kind[o] = "host"}
             PROVE  /\ count <= Len(rows) + Cardinality(M)
                    /\ Len(rows) <= count + Cardinality(M)
  BY DEF CountFits
<1>1. PICK R, S, T : /\ R = {RowHost(i) : i \in DOMAIN rows}
                     /\ S = SteadyHosts /\ T = MetHosts
  OBVIOUS
<1>2. call.op = "list"
  BY DEF HostInv
<1>3. R \subseteq T /\ Cardinality(R) = Len(rows)
  BY <1>1, <1>2, RowsCounted
<1>4. S \subseteq R
  BY <1>1 DEF HostInv, Listed
<1>5. T \subseteq S \cup M /\ T \subseteq Object /\ M \subseteq Object
  BY <1>1, HostsAre DEF TypeInv, TypeOK, KernelTypeOK
<1>6. Cardinality(S) <= count /\ count <= Cardinality(T) /\ count \in Nat
  BY <1>1 DEF CountInv, TypeInv, TypeOK
<1>7. \A A, B \in SUBSET Object : T \subseteq A \cup B => Cardinality(T) <= Cardinality(A) + Cardinality(B)
  <2> SUFFICES ASSUME NEW A \in SUBSET Object, NEW B \in SUBSET Object, T \subseteq A \cup B
               PROVE  Cardinality(T) <= Cardinality(A) + Cardinality(B)
    OBVIOUS
  <2>1. /\ IsFiniteSet(A) /\ IsFiniteSet(B)
        /\ Cardinality(A) \in Nat /\ Cardinality(B) \in Nat /\ Cardinality(A \cap B) \in Nat
        /\ Cardinality(T) \in Nat /\ Cardinality(A \cup B) \in Nat
        /\ Cardinality(T) <= Cardinality(A \cup B)
    <3>1. A \cap B \in SUBSET Object /\ A \cup B \in SUBSET Object /\ T \in SUBSET (A \cup B)
      BY <1>5
    <3> QED BY <1>5, <3>1, HostsFinite
  <2>2. Cardinality(A \cup B) = Cardinality(A) + Cardinality(B) - Cardinality(A \cap B)
    BY <2>1, FS_Union
  <2> QED BY <2>1, <2>2
<1>8. Cardinality(T) <= Cardinality(S) + Cardinality(M) /\ Cardinality(T) <= Cardinality(R) + Cardinality(M)
  BY <1>3, <1>4, <1>5, <1>7
<1>9. Cardinality(R) <= Cardinality(T)
  BY <1>3, <1>5, HostsFinite
<1>10. /\ Cardinality(R) \in Nat /\ Cardinality(S) \in Nat /\ Cardinality(T) \in Nat
       /\ Cardinality(M) \in Nat
  BY <1>3, <1>4, <1>5, HostsFinite
<1> QED BY <1>3, <1>6, <1>8, <1>9, <1>10

\* `list iscsi' returns the number of the rows it has printed, up to the hosts
\* that came or went since they were counted.
THEOREM CountIsTrue == Spec => []CountFits
<1>1. Inv /\ CountInv /\ HostInv => CountFits
  BY CountsSuffice DEF Inv
<1> QED BY <1>1, CountInvariant, PTL
=============================================================================
