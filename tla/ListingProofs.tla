--------------------------- MODULE ListingProofs ---------------------------
(***************************************************************************)
(* Theorems about Listing, for any devices, order, runs and bounds: its    *)
(* type invariant, its safety properties, and that its passes implement    *)
(* Enumeration.                                                            *)
(*                                                                         *)
(* None of those is inductive.  SafetyInv says what they rest on: which    *)
(* descriptors are open at each control point, that the rows, the current  *)
(* record, the buffer and the rest of the directory follow each other in   *)
(* the order of the directory, that everything steady is in one of them,   *)
(* and what is known of the fields filled so far.                          *)
(***************************************************************************)
EXTENDS Listing, TLAPS, SequenceTheorems, FiniteSetTheorems

\* What the program relies on at each of its control points: in a pass there
\* is a pass, in a record there is a record, and k is one of its steps.
ControlOK ==
    /\ pc \in InPass \cup {"opendir", "crashed"} => passes # <<>>
    /\ pc \in InRecord => rec \in Records
    /\ pc \in {"read", "stat", "close"} => k \in DOMAIN StepsOf[Pass]
    /\ pc \in {"stat", "close"} => Field = "numbers"

TypeInv == TypeOK /\ ControlOK

-----------------------------------------------------------------------------
(* Facts about the tables. *)

LEMMA PassesOfType ==
    \A l \in Listings : PassesOf[l] \in Seq(PassName) /\ PassesOf[l] # <<>>
BY DEF PassesOf, PassName, Listings

LEMMA StepsOfType ==
    ASSUME NEW p \in PassName
    PROVE  StepsOf[p] \in Seq(Fields) /\ Len(StepsOf[p]) \in Nat \ {0}
<1>1. CASE p \in {"sd", "controller"}
  <2>1. StepsOf[p] = <<"type", "numbers", "hctl", "vendor", "model", "rev">>
    BY <1>1 DEF StepsOf
  <2> QED BY <2>1 DEF Fields
<1>2. CASE p = "nvme"
  <2>1. StepsOf[p] = <<"numbers", "hctl", "model", "rev">>
    BY <1>2 DEF StepsOf
  <2> QED BY <2>1 DEF Fields
<1>3. CASE p = "enclosure"
  <2>1. StepsOf[p] = <<"type", "components", "model", "vendor">>
    BY <1>3 DEF StepsOf
  <2> QED BY <2>1 DEF Fields
<1>4. CASE p \in {"cd-rom", "tape"}
  <2>1. StepsOf[p] = <<"type">>
    BY <1>4 DEF StepsOf
  <2> QED BY <2>1 DEF Fields
<1>5. CASE p \in {"generic", "multipath"}
  <2>1. StepsOf[p] = <<"numbers", "hctl", "vendor", "model", "rev">>
    BY <1>5 DEF StepsOf
  <2> QED BY <2>1 DEF Fields
<1> QED BY <1>1, <1>2, <1>3, <1>4, <1>5 DEF PassName, Listings

LEMMA InitType == Init => TypeInv
BY RunsAssumption, FdsAssumption, LivesAssumption
   DEF Init, TypeInv, TypeOK, ControlOK, KernelInit, KernelTypeOK, PCs, InPass,
       InRecord, Records, NoRec, NoFd

-----------------------------------------------------------------------------
(* Every step keeps the types. *)

LEMMA KernelTypeStep ==
    ASSUME KernelTypeOK, Hotplug
    PROVE  KernelTypeOK'
BY DEF KernelTypeOK, Hotplug, Add, MakeNode, RemoveNode, Remove, Change

LEMMA FillType ==
    ASSUME rec \in Records, NEW f \in Fields, NEW v \in Nat, Fill(f, v)
    PROVE  /\ rec' \in Records
           /\ rec'.name = rec.name /\ rec'.since = rec.since
           /\ rec'.val = [rec.val EXCEPT ![f] = v]
BY DEF Fill, Records

LEMMA AdvanceType ==
    ASSUME Pass \in PassName, k \in DOMAIN StepsOf[Pass], Advance
    PROVE  /\ k' \in Nat
           /\ \/ pc' = "print"
              \/ pc' = "read" /\ k' \in DOMAIN StepsOf[Pass]
BY StepsOfType DEF Advance

\* The first pass of a non-empty sequence, and the rest.
LEMMA PassType ==
    ASSUME passes \in Seq(PassName), passes # <<>>
    PROVE  /\ Pass \in PassName
           /\ Tail(passes) \in Seq(PassName)
           /\ Len(passes) > 1 => Tail(passes) # <<>>
<1>1. /\ Head(passes) \in PassName
      /\ Tail(passes) \in Seq(PassName)
      /\ Len(Tail(passes)) = Len(passes) - 1
  BY HeadTailProperties
<1>2. Len(passes) > 1 => Len(Tail(passes)) # Len(<<>>)
  BY <1>1
<1> QED BY <1>1, <1>2 DEF Pass

LEMMA FieldType ==
    ASSUME Pass \in PassName, k \in DOMAIN StepsOf[Pass]
    PROVE  Field \in Fields
BY StepsOfType DEF Field

LEMMA ProcessTypeStep ==
    ASSUME TypeInv, Process
    PROVE  TypeInv'
<1> USE DEF TypeInv, TypeOK, ControlOK, PCs, InPass, InRecord, Pass, NoFd
<1>1. CASE StartListing
  BY <1>1, PassesOfType DEF StartListing, kernel, KernelTypeOK
<1>2. CASE Exit
  BY <1>2 DEF Exit, kernel, KernelTypeOK
<1>3. CASE OpenDir
  BY <1>3 DEF OpenDir, KernelTypeOK
<1>4. CASE OpenDirFails
  BY <1>4 DEF OpenDirFails, EndListing, kernel, KernelTypeOK
<1>5. CASE GetdentsEmit
  BY <1>5, HashAssumption DEF GetdentsEmit, Ahead, EntriesAfter, First, Entries, kernel, KernelTypeOK
<1>6. CASE GetdentsReturn
  BY <1>6 DEF GetdentsReturn, kernel, KernelTypeOK
<1>7. CASE Refill
  BY <1>7 DEF Refill, kernel, KernelTypeOK
<1>8. CASE SkipEntry
  BY <1>8 DEF SkipEntry, kernel, KernelTypeOK
<1>9. CASE TakeEntry
  BY <1>9, StepsOfType DEF TakeEntry, FirstOfBuf, First, EmptyRecord, Records, kernel, KernelTypeOK, Missing
<1>10. CASE AllocFails
  BY <1>10 DEF AllocFails, EndListing, AllocError, kernel, KernelTypeOK
<1>11. CASE ReadAttribute
  <2>1. PICK v \in Nat : Fill(Field, v)
    BY <1>11 DEF ReadAttribute, KernelTypeOK, Missing, Records
  <2>2. rec' \in Records
    BY <1>11, <2>1, PassType, FieldType, FillType DEF ReadAttribute
  <2>3. /\ k' \in Nat
        /\ pc' = "print" \/ (pc' = "read" /\ k' \in DOMAIN StepsOf[Pass])
    BY <1>11, PassType, AdvanceType DEF ReadAttribute
  <2> QED
    BY <1>11, <2>2, <2>3 DEF ReadAttribute, kernel, KernelTypeOK
<1>12. CASE ReadCrashes
  BY <1>12 DEF ReadCrashes, kernel, KernelTypeOK
<1>13. CASE OpenNode
  BY <1>13 DEF OpenNode, Field, kernel, KernelTypeOK
<1>14. CASE StatNode
  <2>1. rec' \in Records
    <3>1. CASE Fill("numbers", gen[rec.name])
      <4>1. gen[rec.name] \in Nat
        BY <1>14 DEF StatNode, KernelTypeOK, Records
      <4> QED BY <1>14, <3>1, <4>1, FillType DEF StatNode, Fields
    <3>2. CASE rec' = rec
      BY <1>14, <3>2 DEF StatNode
    <3> QED BY <1>14, <3>1, <3>2 DEF StatNode
  <2> QED BY <1>14, <2>1 DEF StatNode, Field, kernel, KernelTypeOK
<1>15. CASE CloseNode
  BY <1>15, StepsOfType DEF CloseNode, Advance, kernel, KernelTypeOK
<1>16. CASE ReadHctl
  <2>1. PICK v \in Nat : Fill("hctl", v)
    BY <1>16 DEF ReadHctl, KernelTypeOK, Missing, Records
  <2>2. rec' \in Records
    BY <1>16, <2>1, FillType DEF ReadHctl, Fields
  <2>3. /\ k' \in Nat
        /\ pc' = "print" \/ (pc' = "read" /\ k' \in DOMAIN StepsOf[Pass])
    BY <1>16, PassType, AdvanceType DEF ReadHctl
  <2> QED
    BY <1>16, <2>2, <2>3 DEF ReadHctl, kernel, KernelTypeOK
<1>17. CASE PrintRow
  BY <1>17 DEF PrintRow, NoRec, kernel, KernelTypeOK
<1>18. CASE NextPass
  BY <1>18, PassType DEF NextPass, kernel, KernelTypeOK
<1>19. CASE LastPass
  BY <1>19 DEF LastPass, EndListing, kernel, KernelTypeOK
<1> QED
  BY <1>1, <1>2, <1>3, <1>4, <1>5, <1>6, <1>7, <1>8, <1>9, <1>10, <1>11, <1>12,
     <1>13, <1>14, <1>15, <1>16, <1>17, <1>18, <1>19 DEF Process

LEMMA TypeStep == TypeInv /\ [Next]_vars => TypeInv'
<1> SUFFICES ASSUME TypeInv, [Next]_vars PROVE TypeInv'
  OBVIOUS
<1>1. CASE Process
  BY <1>1, ProcessTypeStep
<1>2. CASE Kernel
  <2>1. KernelTypeOK'
    BY <1>2, KernelTypeStep DEF Kernel, TypeInv, TypeOK
  <2> QED BY <1>2, <2>1 DEF Kernel, proc, TypeInv, TypeOK, ControlOK, Pass, Field
<1>3. CASE UNCHANGED vars
  BY <1>3 DEF vars, kernel, proc, TypeInv, TypeOK, KernelTypeOK, ControlOK, Pass, Field
<1> QED BY <1>1, <1>2, <1>3 DEF Next, Finished

\* The states of the program and of the kernel keep their types.
THEOREM TypeCorrect == Spec => []TypeOK
<1>1. TypeInv => TypeOK
  BY DEF TypeInv
<1> QED BY InitType, TypeStep, <1>1, PTL DEF Spec

-----------------------------------------------------------------------------
(* The safety invariant. *)

\* The open descriptors: in a pass there is the directory stream, and with it
\* descriptor 0 is in use; a node is open only in get_device_numbers().
FdInv ==
    /\ pc \in InPass => 0 \in fds /\ dirfd \in fds
    /\ pc \notin InPass \cup {"crashed"} => dirfd = NoFd
    /\ devfd # 0
    /\ pc \notin {"stat", "close"} => devfd = NoFd
    /\ devfd \in (fds \ {dirfd}) \cup {NoFd}

\* The names a pass has got from the kernel.
Taken == IF pc \in InRecord THEN {rec.name} ELSE {}

\* Rows, record, buffer and the rest of the directory come in this order.
OrderInv ==
    /\ \A i, j \in DOMAIN rows : i < j => Hash[rows[i].name] < Hash[rows[j].name]
    /\ pc \in InPass =>
          /\ \A i \in DOMAIN rows : Hash[rows[i].name] <= cursor
          /\ \A n \in Taken \cup buf : Hash[n] <= cursor
          /\ \A i \in DOMAIN rows : \A n \in Taken \cup buf : Hash[rows[i].name] < Hash[n]
          /\ \A m \in Taken : \A n \in buf : Hash[m] < Hash[n]

\* A name that was in the directory is there, unless something happened to it.
PresentInv ==
    pc \in InPass => \A n \in Taken \cup buf : n \in touched \/ life[n] # "absent"

\* The fields of the record that are still to be filled, by their position.
Unfilled(j) == j > k \/ (j = k /\ pc # "close")

Value(j) == rec.val[StepsOf[Pass][j]]

\* What is known of a field: it holds nothing as long as it is unfilled; it never
\* goes back behind the entry or a field before it; and if nobody touched the
\* device and the field can be had, it is there.
FieldOK(j) ==
    /\ Unfilled(j) => Value(j) = Missing
    /\ Value(j) # Missing =>
          /\ rec.since <= Value(j) /\ Value(j) <= gen[rec.name]
          /\ \A h \in 1 .. j : Value(h) <= Value(j)
    /\ Steady(rec.name) /\ ~Unfilled(j) /\ StepsOf[Pass][j] \in Obtainable[Pass] =>
          Value(j) = gen[rec.name]

RecordOK ==
    /\ rec.since <= gen[rec.name]
    /\ \A j \in DOMAIN StepsOf[Pass] : FieldOK(j)

FieldInv ==
    /\ pc \in InRecord => RecordOK
    /\ pc = "print" => k = Len(StepsOf[Pass]) + 1

\* What is known of a row, which is the record as it was printed.
RowOK(r) ==
    /\ Steady(r.name) =>
          /\ \A f \in Obtainable[Pass] : r.val[f] = gen[r.name]
          /\ Pass = "controller" => <<r.name, gen[r.name]>> \in Arrays
    /\ Pass = "controller" =>
          \E g \in r.since .. gen[r.name] : <<r.name, g>> \in Arrays
    /\ \A j \in DOMAIN StepsOf[Pass] :
          r.val[StepsOf[Pass][j]] # Missing =>
             /\ r.since <= r.val[StepsOf[Pass][j]]
             /\ \A h \in 1 .. j : r.val[StepsOf[Pass][h]] <= r.val[StepsOf[Pass][j]]

RowInv == pc \in InPass => \A i \in DOMAIN rows : RowOK(rows[i])

\* What is steady and behind the cursor is in the rows, the record or the buffer.
CoverInv ==
    pc \in InPass /\ Complete(Pass) =>
        /\ \A n \in Name :
              Steady(n) /\ Wanted(Pass, n) /\ Hash[n] <= cursor =>
                  Shown(n) \/ n \in Taken \cup buf
        /\ pc = "closedir" =>
              /\ buf = {}
              /\ \A n \in Name : Steady(n) /\ Wanted(Pass, n) => Hash[n] <= cursor

SafetyInv ==
    TypeInv /\ FdInv /\ OrderInv /\ PresentInv /\ FieldInv /\ RowInv /\ CoverInv

\* A descriptor that is about to be lost has its event already.
Losing == pc = "stat" /\ devfd # NoFd /\ ~HasNode(rec.name)

LostInv == Cardinality(Lost) + (IF Losing THEN 1 ELSE 0) <= events + oom

-----------------------------------------------------------------------------
(* The descriptors. *)

LEMMA FdInit == Init => FdInv
BY FdsAssumption DEF Init, FdInv, InPass, NoFd

LEMMA FdStep ==
    ASSUME TypeInv, FdInv, [Next]_vars
    PROVE  FdInv'
<1> USE FdsAssumption DEF TypeInv, TypeOK, ControlOK, FdInv, InPass, InRecord, NoFd
<1>1. CASE StartListing \/ Exit
  BY <1>1 DEF StartListing, Exit
<1>2. CASE OpenDir
  BY <1>2 DEF OpenDir, NewFd
<1>3. CASE OpenDirFails \/ AllocFails \/ LastPass
  BY <1>3 DEF OpenDirFails, AllocFails, LastPass, EndListing
<1>4. CASE GetdentsEmit \/ GetdentsReturn \/ Refill \/ SkipEntry \/ TakeEntry
  BY <1>4 DEF GetdentsEmit, GetdentsReturn, Refill, SkipEntry, TakeEntry
<1>5. CASE ReadAttribute \/ ReadCrashes \/ ReadHctl
  BY <1>5 DEF ReadAttribute, ReadCrashes, ReadHctl, Advance
<1>6. CASE OpenNode
  BY <1>6 DEF OpenNode, NewFd
<1>7. CASE StatNode
  BY <1>7 DEF StatNode
<1>8. CASE CloseNode
  BY <1>8 DEF CloseNode, Advance
<1>9. CASE PrintRow \/ NextPass
  BY <1>9 DEF PrintRow, NextPass
<1>10. CASE Kernel \/ UNCHANGED vars
  BY <1>10 DEF Kernel, proc, vars
<1> QED
  BY <1>1, <1>2, <1>3, <1>4, <1>5, <1>6, <1>7, <1>8, <1>9, <1>10
     DEF Next, Process, Finished

-----------------------------------------------------------------------------
(* The order of the directory. *)

LEMMA OrderInit == Init => OrderInv
BY DEF Init, OrderInv, InPass

\* Rows are records.
LEMMA RowType ==
    ASSUME rows \in Seq(Records), NEW i \in DOMAIN rows
    PROVE  /\ rows[i] \in Records
           /\ rows[i].name \in Name /\ rows[i].since \in Nat
           /\ rows[i].val \in [Fields -> Nat]
<1>1. rows[i] \in Records
  OBVIOUS
<1> QED BY <1>1 DEF Records

\* A row comes after the others, and the other rows stay.
LEMMA AppendRows ==
    ASSUME rows \in Seq(Records), rec \in Records, rows' = Append(rows, rec)
    PROVE  /\ Len(rows') = Len(rows) + 1
           /\ \A i \in DOMAIN rows : rows'[i] = rows[i]
           /\ rows'[Len(rows) + 1] = rec
           /\ DOMAIN rows' = DOMAIN rows \cup {Len(rows) + 1}
           /\ DOMAIN rows = 1 .. Len(rows) /\ Len(rows) \in Nat
OBVIOUS

\* A step on the record fills the current field, or nothing.
LEMMA FillingStep ==
    ASSUME TypeInv, ReadAttribute \/ StatNode \/ ReadHctl
    PROVE  /\ Field \in Fields
           /\ rec' = rec \/ (\E v \in Nat : Fill(Field, v))
<1> USE DEF TypeInv, TypeOK, ControlOK, InPass, InRecord, KernelTypeOK, Missing
<1>1. rec \in Records /\ gen[rec.name] \in Nat
  BY DEF ReadAttribute, StatNode, ReadHctl, Records
<1>2. Field \in Fields
  BY PassType, FieldType DEF ReadAttribute, StatNode, ReadHctl
<1>3. CASE ReadAttribute
  BY <1>1, <1>2, <1>3 DEF ReadAttribute
<1>4. CASE StatNode
  BY <1>1, <1>2, <1>4 DEF StatNode
<1>5. CASE ReadHctl
  BY <1>1, <1>2, <1>5 DEF ReadHctl
<1> QED BY <1>2, <1>3, <1>4, <1>5

\* What fills the record leaves its name.
LEMMA FillName ==
    ASSUME TypeInv, ReadAttribute \/ StatNode \/ ReadHctl
    PROVE  rec'.name = rec.name /\ rec'.since = rec.since
<1>1. rec \in Records
  BY DEF TypeInv, ControlOK, InRecord, ReadAttribute, StatNode, ReadHctl
<1> QED BY <1>1, FillingStep, FillType

LEMMA OrderStep ==
    ASSUME TypeInv, OrderInv, [Next]_vars
    PROVE  OrderInv'
<1> USE HashAssumption
    DEF TypeInv, TypeOK, ControlOK, OrderInv, InPass, InRecord, Taken
<1>1. CASE StartListing \/ Exit
  BY <1>1 DEF StartListing, Exit
<1>2. CASE OpenDir
  BY <1>2 DEF OpenDir
<1>3. CASE OpenDirFails \/ AllocFails \/ LastPass
  BY <1>3 DEF OpenDirFails, AllocFails, LastPass, EndListing
<1>4. CASE GetdentsEmit
  <2>1. PICK n \in Name : /\ Hash[n] > cursor
                         /\ buf' = buf \cup {n}
                         /\ cursor' = Hash[n]
    <3>1. Entries(DirOf[Pass]) \subseteq Name
      BY DEF Entries
    <3> QED BY <1>4, <3>1 DEF GetdentsEmit, Ahead, EntriesAfter, First
  <2>2. \A i \in DOMAIN rows : rows[i].name \in Name
    BY RowType
  <2>3. /\ pc = "getdents" /\ pc' = pc /\ rows' = rows
        /\ Hash[n] \in Nat
        /\ \A m \in buf : Hash[m] \in Nat
        /\ \A i \in DOMAIN rows : Hash[rows[i].name] \in Nat
    BY <1>4, <2>2 DEF GetdentsEmit
  <2> QED BY <2>1, <2>2, <2>3
<1>5. CASE GetdentsReturn \/ Refill \/ SkipEntry
  BY <1>5 DEF GetdentsReturn, Refill, SkipEntry
<1>6. CASE TakeEntry
  BY <1>6 DEF TakeEntry, FirstOfBuf, First, EmptyRecord, Records
<1>7. CASE ReadAttribute \/ StatNode \/ ReadHctl
  BY <1>7, FillName DEF ReadAttribute, StatNode, ReadHctl, Advance
<1>8. CASE ReadCrashes \/ OpenNode \/ CloseNode
  BY <1>8 DEF ReadCrashes, OpenNode, CloseNode, Advance
<1>9. CASE PrintRow
  <2>1. CASE rows' = rows
    BY <1>9, <2>1 DEF PrintRow
  <2>2. CASE rows' = Append(rows, rec)
    <3>1. \A i, j \in DOMAIN rows' : i < j => Hash[rows'[i].name] < Hash[rows'[j].name]
      BY <1>9, <2>2, AppendRows DEF PrintRow
    <3>2. \A i \in DOMAIN rows' : Hash[rows'[i].name] <= cursor
      BY <1>9, <2>2, AppendRows DEF PrintRow
    <3>3. \A i \in DOMAIN rows' : \A n \in buf : Hash[rows'[i].name] < Hash[n]
      BY <1>9, <2>2, AppendRows DEF PrintRow
    <3> QED BY <1>9, <3>1, <3>2, <3>3 DEF PrintRow
  <2> QED BY <1>9, <2>1, <2>2 DEF PrintRow
<1>10. CASE NextPass
  BY <1>10 DEF NextPass
<1>11. CASE Kernel \/ UNCHANGED vars
  BY <1>11 DEF Kernel, proc, vars
<1> QED
  BY <1>1, <1>2, <1>3, <1>4, <1>5, <1>6, <1>7, <1>8, <1>9, <1>10, <1>11
     DEF Next, Process, Finished

-----------------------------------------------------------------------------
(* The kernel's steps. *)

\* What happens to a name is noted in touched; generations only grow.
LEMMA HotplugChanges ==
    ASSUME KernelTypeOK, Hotplug
    PROVE  /\ touched \subseteq touched'
           /\ \A n \in Name : gen[n] <= gen'[n]
           /\ \A n \in Name \ touched' : life'[n] = life[n] /\ gen'[n] = gen[n]
BY DEF KernelTypeOK, Hotplug, Add, MakeNode, RemoveNode, Remove, Change

LEMMA EntriesType ==
    ASSUME NEW d, NEW n \in Entries(d)
    PROVE  n \in Name /\ Class[n] \in Holds[d] /\ life[n] # "absent"
BY DEF Entries

LEMMA PresentInit == Init => PresentInv
BY DEF Init, PresentInv, InPass

LEMMA PresentStep ==
    ASSUME TypeInv, PresentInv, [Next]_vars
    PROVE  PresentInv'
<1> USE DEF TypeInv, TypeOK, ControlOK, PresentInv, InPass, InRecord, Taken
<1>1. CASE StartListing \/ Exit
  BY <1>1 DEF StartListing, Exit
<1>2. CASE OpenDir
  BY <1>2 DEF OpenDir
<1>3. CASE OpenDirFails \/ AllocFails \/ LastPass
  BY <1>3 DEF OpenDirFails, AllocFails, LastPass, EndListing
<1>4. CASE GetdentsEmit
  BY <1>4, EntriesType DEF GetdentsEmit, Ahead, EntriesAfter, First, kernel
<1>5. CASE GetdentsReturn \/ Refill \/ SkipEntry
  BY <1>5 DEF GetdentsReturn, Refill, SkipEntry, kernel
<1>6. CASE TakeEntry
  BY <1>6 DEF TakeEntry, FirstOfBuf, First, EmptyRecord, kernel
<1>7. CASE ReadAttribute \/ StatNode \/ ReadHctl
  BY <1>7, FillName DEF ReadAttribute, StatNode, ReadHctl, Advance, kernel
<1>8. CASE ReadCrashes \/ OpenNode \/ CloseNode
  BY <1>8 DEF ReadCrashes, OpenNode, CloseNode, Advance, kernel
<1>9. CASE PrintRow \/ NextPass
  BY <1>9 DEF PrintRow, NextPass, kernel
<1>10. CASE Kernel
  <2>1. \A n \in Taken \cup buf : n \in Name
    BY DEF Records
  <2> QED BY <1>10, <2>1, HotplugChanges DEF Kernel, proc
<1>11. CASE UNCHANGED vars
  BY <1>11 DEF vars, kernel, proc
<1> QED
  BY <1>1, <1>2, <1>3, <1>4, <1>5, <1>6, <1>7, <1>8, <1>9, <1>10, <1>11
     DEF Next, Process, Finished

-----------------------------------------------------------------------------
(* The fields of a record. *)

\* No pass fills a field twice.
LEMMA StepsDistinct ==
    ASSUME NEW p \in PassName, NEW i \in DOMAIN StepsOf[p],
           NEW j \in DOMAIN StepsOf[p], StepsOf[p][i] = StepsOf[p][j]
    PROVE  i = j
<1>1. CASE p \in {"sd", "controller"}
  <2>1. StepsOf[p] = <<"type", "numbers", "hctl", "vendor", "model", "rev">>
    BY <1>1 DEF StepsOf
  <2> QED BY <2>1
<1>2. CASE p = "nvme"
  <2>1. StepsOf[p] = <<"numbers", "hctl", "model", "rev">>
    BY <1>2 DEF StepsOf
  <2> QED BY <2>1
<1>3. CASE p = "enclosure"
  <2>1. StepsOf[p] = <<"type", "components", "model", "vendor">>
    BY <1>3 DEF StepsOf
  <2> QED BY <2>1
<1>4. CASE p \in {"cd-rom", "tape"}
  <2>1. StepsOf[p] = <<"type">>
    BY <1>4 DEF StepsOf
  <2> QED BY <2>1
<1>5. CASE p \in {"generic", "multipath"}
  <2>1. StepsOf[p] = <<"numbers", "hctl", "vendor", "model", "rev">>
    BY <1>5 DEF StepsOf
  <2> QED BY <2>1
<1> QED BY <1>1, <1>2, <1>3, <1>4, <1>5 DEF PassName, Listings

\* A pass asks for every field it can obtain, for the type of a controller
\* too, and for the slot after the numbers it is found by.
LEMMA ObtainableSteps ==
    ASSUME NEW p \in PassName
    PROVE  /\ \A f \in Obtainable[p] :
                 \E j \in DOMAIN StepsOf[p] : StepsOf[p][j] = f
           /\ p = "controller" =>
                 "type" \in Obtainable[p] /\ StepsOf[p][1] = "type"
           /\ "hctl" \in Obtainable[p] =>
                 /\ "numbers" \in Obtainable[p]
                 /\ \A j \in DOMAIN StepsOf[p] : StepsOf[p][j] = "hctl" =>
                       j > 2 /\ StepsOf[p][2] = "numbers"
<1>1. CASE p \in {"sd", "controller"}
  <2>1. StepsOf[p] = <<"type", "numbers", "hctl", "vendor", "model", "rev">>
    BY <1>1 DEF StepsOf
  <2>2. /\ DOMAIN StepsOf[p] = 1 .. 6
        /\ StepsOf[p][1] = "type" /\ StepsOf[p][2] = "numbers"
        /\ StepsOf[p][3] = "hctl" /\ StepsOf[p][4] = "vendor"
        /\ StepsOf[p][5] = "model" /\ StepsOf[p][6] = "rev"
    BY <2>1
  <2>3. /\ Obtainable[p] \subseteq {"type", "numbers", "hctl", "vendor", "model", "rev"}
        /\ "type" \in Obtainable[p] /\ "numbers" \in Obtainable[p]
    BY <1>1 DEF Obtainable, PassName, Listings
  <2> QED BY <2>2, <2>3
<1>2. CASE p = "nvme"
  <2>1. StepsOf[p] = <<"numbers", "hctl", "model", "rev">>
    BY <1>2 DEF StepsOf
  <2>2. Obtainable[p] = {"numbers", "model", "rev"}
    BY <1>2 DEF Obtainable, PassName
  <2> QED BY <1>2, <2>1, <2>2
<1>3. CASE p = "enclosure"
  <2>1. StepsOf[p] = <<"type", "components", "model", "vendor">>
    BY <1>3 DEF StepsOf
  <2>2. Obtainable[p] = {"components", "model", "vendor"}
    BY <1>3 DEF Obtainable, PassName, Listings
  <2> QED BY <1>3, <2>1, <2>2
<1>4. CASE p \in {"cd-rom", "tape"}
  <2>1. Obtainable[p] = {}
    BY <1>4 DEF Obtainable, PassName, Listings
  <2> QED BY <1>4, <2>1
<1>5. CASE p \in {"generic", "multipath"}
  <2>1. StepsOf[p] = <<"numbers", "hctl", "vendor", "model", "rev">>
    BY <1>5 DEF StepsOf
  <2>2. Obtainable[p] = {"numbers"}
    BY <1>5 DEF Obtainable, PassName, Listings
  <2> QED BY <1>5, <2>1, <2>2
<1> QED BY <1>1, <1>2, <1>3, <1>4, <1>5 DEF PassName, Listings

LEMMA ValueType ==
    ASSUME TypeInv, pc \in InRecord, NEW j \in DOMAIN StepsOf[Pass]
    PROVE  /\ Value(j) \in Nat
           /\ j \in Nat /\ 1 <= j /\ j <= Len(StepsOf[Pass])
           /\ \A h \in 1 .. j : h \in DOMAIN StepsOf[Pass]
           /\ rec.name \in Name /\ rec.since \in Nat /\ gen[rec.name] \in Nat
           /\ k \in Nat
<1> USE DEF TypeInv, TypeOK, ControlOK, InPass, InRecord, KernelTypeOK
<1>1. Pass \in PassName
  BY PassType
<1>2. StepsOf[Pass] \in Seq(Fields)
  BY <1>1, StepsOfType
<1>3. rec \in Records
  OBVIOUS
<1>4. rec.val \in [Fields -> Nat] /\ rec.name \in Name /\ rec.since \in Nat
  BY <1>3 DEF Records
<1> QED BY SMTT(30), <1>2, <1>4 DEF Value

\* A step that fills the current field, or leaves it empty, and goes on.
LEMMA FieldFilled ==
    ASSUME TypeInv, pc \in InRecord, RecordOK,
           k \in DOMAIN StepsOf[Pass], Unfilled(k),
           NEW v \in {Missing, gen[rec.name]},
           Steady(rec.name) /\ Field \in Obtainable[Pass] => v = gen[rec.name],
           rec'.name = rec.name, rec'.since = rec.since,
           \A j \in DOMAIN StepsOf[Pass] : Value(j)' = IF j = k THEN v ELSE Value(j),
           \A j \in DOMAIN StepsOf[Pass] : Unfilled(j)' <=> j > k,
           UNCHANGED <<kernel, passes>>
    PROVE  RecordOK'
<1> USE DEF RecordOK, Pass
<1>1. /\ rec'.since <= gen'[rec'.name] /\ gen' = gen /\ life' = life
      /\ touched' = touched /\ Pass' = Pass
  BY DEF kernel
<1>2. SUFFICES ASSUME NEW j \in DOMAIN StepsOf[Pass]
               PROVE  FieldOK(j)'
  BY <1>1
<1>3. \A h \in DOMAIN StepsOf[Pass] :
        Value(h) \in Nat /\ h \in Nat /\ (Value(h) # Missing => Value(h) <= gen[rec.name])
  BY ValueType DEF FieldOK
<1>4. /\ k \in Nat /\ j \in Nat /\ gen[rec.name] \in Nat
      /\ \A h \in 1 .. j : h \in DOMAIN StepsOf[Pass] /\ h \in Nat /\ h <= j
  BY ValueType
<1>5. CASE j < k
  <2>1. ~Unfilled(j) /\ ~Unfilled(j)'
    BY <1>4, <1>5 DEF Unfilled
  <2>2. /\ Value(j)' = Value(j)
        /\ \A h \in 1 .. j : Value(h)' = Value(h)
    BY <1>4, <1>5
  <2> QED BY <1>1, <2>1, <2>2 DEF FieldOK, Steady
<1>6. CASE j = k
  <2>1. /\ ~Unfilled(j)' /\ Value(j)' = v
        /\ \A h \in 1 .. j : Value(h)' = Value(h) \/ Value(h)' = v
    BY <1>4, <1>6
  <2>2. v # Missing => \A h \in 1 .. j : Value(h)' <= v
    BY <1>3, <1>4, <2>1 DEF Missing
  <2>3. StepsOf[Pass][j] = Field
    BY <1>6 DEF Field
  <2> QED BY <1>1, <1>4, <2>1, <2>2, <2>3 DEF FieldOK, Steady
<1>7. CASE j > k
  <2>1. Unfilled(j) /\ Unfilled(j)'
    BY <1>7 DEF Unfilled
  <2>2. Value(j) = Missing /\ Value(j)' = Missing
    BY <1>4, <1>7, <2>1 DEF FieldOK
  <2> QED BY <1>1, <2>1, <2>2 DEF FieldOK
<1> QED BY <1>4, <1>5, <1>6, <1>7

LEMMA FillValues ==
    ASSUME TypeInv, pc \in InRecord, k \in DOMAIN StepsOf[Pass],
           NEW v \in Nat, Fill(Field, v), UNCHANGED passes
    PROVE  /\ rec'.name = rec.name /\ rec'.since = rec.since
           /\ \A j \in DOMAIN StepsOf[Pass] :
                 Value(j)' = IF j = k THEN v ELSE Value(j)
<1>1. Pass \in PassName /\ Pass' = Pass /\ rec \in Records
  BY PassType DEF TypeInv, TypeOK, ControlOK, InPass, InRecord, Pass
<1>2. StepsOf[Pass] \in Seq(Fields)
  BY <1>1, StepsOfType
<1>3. Field \in Fields
  BY <1>1, FieldType
<1>4. /\ rec'.name = rec.name /\ rec'.since = rec.since
      /\ rec'.val = [rec.val EXCEPT ![Field] = v]
      /\ rec.val \in [Fields -> Nat]
  BY <1>1, <1>3, FillType DEF Records
<1>5. SUFFICES ASSUME NEW j \in DOMAIN StepsOf[Pass]
               PROVE  Value(j)' = IF j = k THEN v ELSE Value(j)
  BY <1>4
<1>6. StepsOf[Pass][j] \in Fields
  BY <1>2
<1>7. StepsOf[Pass][j] = Field <=> j = k
  BY <1>1, StepsDistinct DEF Field
<1> QED BY <1>1, <1>3, <1>4, <1>6, <1>7 DEF Value

\* After reading a field, the fields up to it are no longer unfilled.
LEMMA UnfilledAfter ==
    ASSUME TypeInv, pc \in InRecord, k \in DOMAIN StepsOf[Pass], Advance
    PROVE  /\ \A j \in DOMAIN StepsOf[Pass] : Unfilled(j)' <=> j > k
           /\ pc' = "print" => k' = Len(StepsOf[Pass]) + 1
<1>1. k \in Nat /\ \A j \in DOMAIN StepsOf[Pass] : j \in Nat
  BY ValueType
<1> QED BY <1>1 DEF Advance, Unfilled

LEMMA FieldInit == Init => FieldInv
BY DEF Init, FieldInv, InRecord

LEMMA FieldStep ==
    ASSUME TypeInv, FdInv, FieldInv, [Next]_vars
    PROVE  FieldInv'
<1> USE DEF TypeInv, TypeOK, ControlOK, FieldInv, InPass, InRecord, Pass
<1>1. CASE \/ StartListing \/ Exit \/ OpenDir \/ OpenDirFails \/ AllocFails
           \/ LastPass \/ NextPass \/ GetdentsEmit \/ GetdentsReturn \/ Refill
           \/ SkipEntry \/ ReadCrashes \/ PrintRow
  <2>1. pc' \notin InRecord
    BY <1>1 DEF StartListing, Exit, OpenDir, OpenDirFails, AllocFails, LastPass,
                NextPass, GetdentsEmit, GetdentsReturn, Refill, SkipEntry,
                ReadCrashes, PrintRow, EndListing
  <2> QED BY <2>1
<1>2. CASE TakeEntry
  <2>1. PICK n \in Name : rec' = EmptyRecord(n)
    BY <1>2 DEF TakeEntry
  <2>2. /\ rec'.name = n /\ rec'.since = gen[n]
        /\ \A f \in Fields : rec'.val[f] = Missing
    BY <2>1 DEF EmptyRecord
  <2>3. /\ pc' = "read" /\ k' = 1 /\ Pass' = Pass /\ gen' = gen
        /\ gen[n] \in Nat
    BY <1>2 DEF TakeEntry, kernel, KernelTypeOK
  <2>4. Pass \in PassName
    BY <1>2, PassType DEF TakeEntry
  <2>5. StepsOf[Pass] \in Seq(Fields)
    BY <2>4, StepsOfType
  <2>6. ASSUME NEW j \in DOMAIN StepsOf[Pass]
        PROVE  Unfilled(j)' /\ Value(j)' = Missing
    <3>1. StepsOf[Pass][j] \in Fields /\ j \in Nat /\ j >= 1
      BY <2>5
    <3> QED BY <2>2, <2>3, <3>1 DEF Unfilled, Value
  <2> QED BY <2>2, <2>3, <2>6 DEF RecordOK, FieldOK
<1>3. CASE ReadAttribute
  <2> DEFINE v == IF Field \in Obtainable[Pass] /\ HasAttributes(rec.name)
                     THEN gen[rec.name] ELSE Missing
  <2>1. /\ pc \in InRecord /\ k \in DOMAIN StepsOf[Pass] /\ RecordOK
        /\ Unfilled(k) /\ Fill(Field, v) /\ Advance
        /\ UNCHANGED <<kernel, passes>>
    BY <1>3 DEF ReadAttribute, Unfilled
  <2>2. v \in {Missing, gen[rec.name]} /\ v \in Nat
    BY <2>1, ValueType DEF Missing
  <2>3. Steady(rec.name) /\ Field \in Obtainable[Pass] => v = gen[rec.name]
    BY DEF Steady, HasAttributes
  <2> HIDE DEF v
  <2>4. RecordOK'
    BY <2>1, <2>2, <2>3, FillValues, UnfilledAfter, FieldFilled
  <2> QED BY <2>1, <2>4, UnfilledAfter
<1>4. CASE ReadHctl
  <2> DEFINE v == IF /\ "hctl" \in Obtainable[Pass]
                     /\ rec.val["numbers"] # Missing
                     /\ HasAttributes(rec.name)
                    THEN gen[rec.name] ELSE Missing
  <2>1. /\ pc \in InRecord /\ k \in DOMAIN StepsOf[Pass] /\ RecordOK
        /\ Unfilled(k) /\ Fill(Field, v) /\ Advance /\ pc = "read"
        /\ Field = "hctl"
        /\ UNCHANGED <<kernel, passes>>
    BY <1>4 DEF ReadHctl, Unfilled
  <2>2. v \in {Missing, gen[rec.name]} /\ v \in Nat
    BY <2>1, ValueType DEF Missing
  <2>3. Steady(rec.name) /\ Field \in Obtainable[Pass] => v = gen[rec.name]
    <3>1. SUFFICES ASSUME Steady(rec.name), "hctl" \in Obtainable[Pass]
                   PROVE  v = gen[rec.name]
      BY <2>1
    <3>2. /\ 2 \in DOMAIN StepsOf[Pass] /\ StepsOf[Pass][2] = "numbers"
          /\ "numbers" \in Obtainable[Pass] /\ k > 2
      <4>1. Pass \in PassName /\ k \in DOMAIN StepsOf[Pass] /\ StepsOf[Pass][k] = "hctl"
        BY <2>1, PassType DEF Field
      <4>2. /\ "numbers" \in Obtainable[Pass] /\ k > 2
            /\ StepsOf[Pass][2] = "numbers"
        BY <3>1, <4>1, ObtainableSteps
      <4>3. k \in Nat /\ \A h \in 1 .. k : h \in DOMAIN StepsOf[Pass]
        BY <2>1, <4>1, ValueType
      <4> QED BY <4>2, <4>3
    <3>3. ~Unfilled(2)
      BY <2>1, <3>2 DEF Unfilled
    <3>4. Value(2) = gen[rec.name]
      BY <2>1, <3>1, <3>2, <3>3 DEF RecordOK, FieldOK
    <3>5. gen[rec.name] > 0 /\ rec.name \in Name
      BY <2>1, <3>1, <3>2, ValueType DEF Steady, KernelTypeOK
    <3> QED BY <3>1, <3>2, <3>4, <3>5 DEF Value, Missing, Steady, HasAttributes
  <2> HIDE DEF v
  <2>4. RecordOK'
    BY <2>1, <2>2, <2>3, FillValues, UnfilledAfter, FieldFilled
  <2> QED BY <2>1, <2>4, UnfilledAfter
<1>5. CASE StatNode
  <2>1. /\ pc \in InRecord /\ k \in DOMAIN StepsOf[Pass] /\ RecordOK
        /\ Unfilled(k) /\ Field = "numbers"
        /\ pc' = "close" /\ k' = k
        /\ UNCHANGED <<kernel, passes>>
    BY <1>5 DEF StatNode, Unfilled
  <2>2. \A j \in DOMAIN StepsOf[Pass] : Unfilled(j)' <=> j > k
    BY <2>1, ValueType DEF Unfilled
  <2>3. CASE HasNode(rec.name)
    <3>1. Fill(Field, gen[rec.name])
      BY <1>5, <2>1, <2>3 DEF StatNode, FdInv
    <3>2. RecordOK'
      BY <2>1, <2>2, <3>1, ValueType, FillValues, FieldFilled
    <3> QED BY <2>1, <3>2
  <2>4. CASE ~HasNode(rec.name)
    <3>1. rec' = rec
      BY <1>5, <2>4 DEF StatNode
    <3>2. ~Steady(rec.name)
      BY <2>4 DEF Steady, HasNode
    <3>3. Value(k) = Missing
      BY <2>1 DEF RecordOK, FieldOK
    <3>4. \A j \in DOMAIN StepsOf[Pass] :
             Value(j)' = IF j = k THEN Missing ELSE Value(j)
      BY <2>1, <3>1, <3>3 DEF Value
    <3>5. RecordOK'
      BY <2>1, <2>2, <3>1, <3>2, <3>4, FieldFilled
    <3> QED BY <2>1, <3>5
  <2> QED BY <2>3, <2>4
<1>6. CASE OpenNode \/ CloseNode
  <2>1. /\ pc \in InRecord /\ k \in DOMAIN StepsOf[Pass] /\ RecordOK
        /\ UNCHANGED <<kernel, passes, rec>> /\ pc' \in InRecord
    BY <1>6 DEF OpenNode, CloseNode, Advance
  <2>2. \A j \in DOMAIN StepsOf[Pass] : Unfilled(j)' <=> Unfilled(j)
    <3>1. CASE OpenNode
      BY <3>1 DEF OpenNode, Unfilled
    <3>2. CASE CloseNode
      BY <2>1, <3>2, ValueType, UnfilledAfter DEF CloseNode, Unfilled
    <3> QED BY <1>6, <3>1, <3>2
  <2>3. RecordOK'
    BY <2>1, <2>2 DEF RecordOK, FieldOK, Value, Steady, kernel
  <2>4. pc' = "print" => k' = Len(StepsOf[Pass]) + 1
    BY <1>6, <2>1, UnfilledAfter DEF OpenNode, CloseNode
  <2> QED BY <2>1, <2>3, <2>4
<1>7. CASE Kernel
  <2>1. UNCHANGED <<pc, k, rec, passes>>
    BY <1>7 DEF Kernel, proc
  <2>2. SUFFICES ASSUME pc \in InRecord
                 PROVE  RecordOK'
    BY <2>1
  <2>3. rec.name \in Name /\ rec.since \in Nat
    BY <2>2 DEF Records
  <2>4. /\ gen[rec.name] \in Nat /\ gen'[rec.name] \in Nat
        /\ gen[rec.name] <= gen'[rec.name]
        /\ Steady(rec.name)' => Steady(rec.name) /\ gen'[rec.name] = gen[rec.name]
    BY <1>7, <2>1, <2>3, HotplugChanges, KernelTypeStep DEF Kernel, KernelTypeOK, Steady
  <2>5. ASSUME NEW j \in DOMAIN StepsOf[Pass]
        PROVE  FieldOK(j)'
    <3>1. /\ Value(j)' = Value(j) /\ Value(j) \in Nat
          /\ \A h \in 1 .. j : Value(h)' = Value(h)
          /\ Unfilled(j)' <=> Unfilled(j)
      BY <2>1, <2>2, ValueType DEF Unfilled, Value
    <3>2. FieldOK(j)
      BY <2>2 DEF RecordOK
    <3>3. Value(j)' # Missing => rec.since <= Value(j) /\ Value(j) <= gen'[rec.name]
      BY <2>3, <2>4, <3>1, <3>2 DEF FieldOK
    <3> QED BY <2>1, <2>4, <3>1, <3>2, <3>3 DEF FieldOK
  <2>6. rec.since <= gen'[rec.name]
    BY <2>2, <2>3, <2>4 DEF RecordOK
  <2> QED BY <2>1, <2>5, <2>6 DEF RecordOK
<1>8. CASE UNCHANGED vars
  BY <1>8 DEF vars, kernel, proc, RecordOK, FieldOK, Value, Unfilled, Steady
<1> QED
  BY <1>1, <1>2, <1>3, <1>4, <1>5, <1>6, <1>7, <1>8 DEF Next, Process, Finished

-----------------------------------------------------------------------------
(* The rows. *)

\* A record that is printed makes a row as it should be.
LEMMA PrintedRow ==
    ASSUME TypeInv, FieldInv, pc = "print"
    PROVE  /\ Printed(Pass, rec) => RowOK(rec)
           /\ Steady(rec.name) /\ Pass = "controller" =>
                 rec.val["type"] = gen[rec.name]
<1> USE DEF TypeInv, ControlOK, InPass, InRecord
<1>1. Pass \in PassName
  BY PassType DEF TypeOK
<1>2. \A j \in DOMAIN StepsOf[Pass] : ~Unfilled(j) /\ FieldOK(j)
  BY ValueType DEF FieldInv, RecordOK, Unfilled
<1>3. Steady(rec.name) => \A f \in Obtainable[Pass] : rec.val[f] = gen[rec.name]
  BY <1>1, <1>2, ObtainableSteps DEF FieldOK, Value
<1>4. Steady(rec.name) /\ Pass = "controller" => rec.val["type"] = gen[rec.name]
  BY <1>1, <1>3, ObtainableSteps
<1>5. Printed(Pass, rec) /\ Pass = "controller" =>
         /\ Steady(rec.name) => <<rec.name, gen[rec.name]>> \in Arrays
         /\ \E g \in rec.since .. gen[rec.name] : <<rec.name, g>> \in Arrays
  <2> SUFFICES ASSUME Printed(Pass, rec), Pass = "controller"
               PROVE  /\ Steady(rec.name) => <<rec.name, gen[rec.name]>> \in Arrays
                      /\ \E g \in rec.since .. gen[rec.name] : <<rec.name, g>> \in Arrays
    OBVIOUS
  <2>1. <<rec.name, rec.val["type"]>> \in Arrays
    BY DEF Printed
  <2>2. rec.val["type"] # Missing
    BY <2>1, ArraysAssumption DEF Missing
  <2>3. StepsOf[Pass] = <<"type", "numbers", "hctl", "vendor", "model", "rev">>
    BY <1>1 DEF StepsOf
  <2>4. 1 \in DOMAIN StepsOf[Pass] /\ Value(1) = rec.val["type"]
    BY <2>3 DEF Value
  <2>5. rec.since <= rec.val["type"] /\ rec.val["type"] <= gen[rec.name]
    BY <1>2, <2>2, <2>4 DEF FieldOK
  <2>6. rec.val["type"] \in rec.since .. gen[rec.name]
    BY <2>4, <2>5, ValueType
  <2> QED BY <1>4, <2>1, <2>6
<1> QED BY <1>2, <1>3, <1>4, <1>5 DEF RowOK, FieldOK, Value

LEMMA RowInit == Init => RowInv
BY DEF Init, RowInv, InPass

LEMMA RowStep ==
    ASSUME TypeInv, FieldInv, RowInv, [Next]_vars
    PROVE  RowInv'
<1> USE DEF RowInv
<1>1. CASE \/ StartListing \/ Exit \/ OpenDirFails \/ AllocFails
           \/ LastPass \/ NextPass \/ ReadCrashes
  <2>1. pc' \notin InPass
    BY <1>1 DEF StartListing, Exit, OpenDirFails, AllocFails, LastPass, NextPass,
                ReadCrashes, EndListing, InPass
  <2> QED BY <2>1
<1>2. CASE OpenDir
  BY <1>2 DEF OpenDir
<1>3. CASE \/ GetdentsEmit \/ GetdentsReturn \/ Refill \/ SkipEntry \/ TakeEntry
           \/ ReadAttribute \/ OpenNode \/ StatNode \/ CloseNode \/ ReadHctl
  <2>1. pc \in InPass /\ UNCHANGED <<kernel, rows, passes>>
    BY <1>3 DEF GetdentsEmit, GetdentsReturn, Refill, SkipEntry, TakeEntry,
                ReadAttribute, OpenNode, StatNode, CloseNode, ReadHctl, InPass
  <2> QED BY <2>1 DEF RowOK, Steady, kernel, Pass
<1>4. CASE PrintRow
  <2>1. /\ pc = "print" /\ UNCHANGED <<kernel, passes>>
        /\ rec \in Records /\ rows \in Seq(Records) /\ pc \in InPass
    BY <1>4 DEF PrintRow, TypeInv, TypeOK, ControlOK, InRecord, InPass
  <2>2. \A r : RowOK(r) => RowOK(r)'
    BY <2>1 DEF RowOK, Steady, kernel, Pass
  <2>3. CASE rows' = rows
    BY <2>1, <2>2, <2>3
  <2>4. CASE rows' = Append(rows, rec) /\ Printed(Pass, rec)
    <3>1. ASSUME NEW i \in DOMAIN rows' PROVE RowOK(rows'[i])
      <4>1. CASE i \in DOMAIN rows
        BY <2>1, <2>4, <4>1, AppendRows
      <4>2. CASE i = Len(rows) + 1
        BY <2>1, <2>4, <4>2, AppendRows, PrintedRow
      <4> QED BY <2>1, <2>4, <3>1, <4>1, <4>2, AppendRows
    <3> QED BY <2>2, <3>1
  <2> QED BY <1>4, <2>3, <2>4 DEF PrintRow
<1>5. CASE Kernel
  <2>1. SUFFICES ASSUME pc \in InPass, NEW i \in DOMAIN rows
                 PROVE  RowOK(rows[i])'
    BY <1>5 DEF Kernel, proc
  <2>2. rows[i].name \in Name /\ RowOK(rows[i]) /\ UNCHANGED <<rows, passes>>
    BY <1>5, <2>1, RowType DEF Kernel, proc, TypeInv, TypeOK
  <2>3. Steady(rows[i].name)' =>
           Steady(rows[i].name) /\ gen'[rows[i].name] = gen[rows[i].name]
    BY <1>5, <2>2, HotplugChanges DEF Kernel, TypeInv, TypeOK, Steady
  <2>4. /\ gen[rows[i].name] \in Nat /\ gen'[rows[i].name] \in Nat
        /\ gen[rows[i].name] <= gen'[rows[i].name] /\ rows[i].since \in Nat
    <3>1. gen \in [Name -> Nat] /\ gen' \in [Name -> Nat] /\ Hotplug
      BY <1>5, KernelTypeStep DEF Kernel, TypeInv, TypeOK, KernelTypeOK
    <3>2. \A n \in Name : gen[n] <= gen'[n]
      BY <3>1 DEF Hotplug, Add, MakeNode, RemoveNode, Remove, Change
    <3>3. rows[i].since \in Nat
      BY <2>1, RowType DEF TypeInv, TypeOK
    <3> QED BY <2>2, <3>1, <3>2, <3>3
  <2>5. rows[i].since .. gen[rows[i].name] \subseteq rows[i].since .. gen'[rows[i].name]
    BY <2>4
  <2> QED BY <2>2, <2>3, <2>5 DEF RowOK, Pass
<1>6. CASE UNCHANGED vars
  BY <1>6 DEF vars, kernel, proc, RowOK, Steady, Pass
<1> QED
  BY <1>1, <1>2, <1>3, <1>4, <1>5, <1>6 DEF Next, Process, Finished

-----------------------------------------------------------------------------
(* Nothing is left out. *)

\* What is steady and wanted is in the directory.
LEMMA SteadyEntry ==
    ASSUME NEW n \in Name, Steady(n), Wanted(Pass, n)
    PROVE  n \in Entries(DirOf[Pass])
BY DEF Steady, Wanted, Entries

LEMMA CoverInit == Init => CoverInv
BY DEF Init, CoverInv, InPass

LEMMA CoverStep ==
    ASSUME TypeInv, FieldInv, CoverInv, [Next]_vars
    PROVE  CoverInv'
<1> USE HashAssumption DEF CoverInv, Taken, InRecord
<1>1. CASE \/ StartListing \/ Exit \/ OpenDirFails \/ AllocFails
           \/ LastPass \/ NextPass \/ ReadCrashes
  <2>1. pc' \notin InPass
    BY <1>1 DEF StartListing, Exit, OpenDirFails, AllocFails, LastPass, NextPass,
                ReadCrashes, EndListing, InPass
  <2> QED BY <2>1
<1>2. CASE OpenDir
  <2>1. cursor' = 0 /\ pc' = "getdents"
    BY <1>2 DEF OpenDir
  <2>2. \A n \in Name : ~(Hash[n] <= 0)
    OBVIOUS
  <2> QED BY <2>1, <2>2
<1>3. CASE GetdentsEmit
  <2>1. /\ pc = "getdents" /\ pc \in InPass
        /\ UNCHANGED <<kernel, passes, pc, rows>>
    BY <1>3 DEF GetdentsEmit, InPass
  <2>2. PICK n \in Ahead : /\ \A m \in Ahead : Hash[n] <= Hash[m]
                          /\ buf' = buf \cup {n}
                          /\ cursor' = Hash[n]
    BY <1>3 DEF GetdentsEmit, First
  <2>3. n \in Name
    BY EntriesType DEF Ahead, EntriesAfter
  <2>4. SUFFICES ASSUME Complete(Pass), NEW m \in Name, Steady(m), Wanted(Pass, m),
                        Hash[m] <= Hash[n]
                 PROVE  Shown(m) \/ m \in buf \cup {n}
    BY <2>1, <2>2 DEF Steady, Wanted, Matches, Shown, kernel, Pass
  <2>5. CASE Hash[m] <= cursor
    BY <2>1, <2>4, <2>5
  <2>6. CASE m \in Ahead
    BY <2>2, <2>3, <2>4, <2>6
  <2>7. Hash[m] <= cursor \/ Hash[m] > cursor
    BY DEF TypeInv, TypeOK
  <2> QED BY <2>4, <2>5, <2>6, <2>7, SteadyEntry DEF Ahead, EntriesAfter
<1>4. CASE GetdentsReturn
  <2>1. /\ pc = "getdents" /\ pc \in InPass /\ pc' \notin InRecord
        /\ UNCHANGED <<kernel, passes, rows, buf, cursor>>
        /\ pc' = "closedir" => buf = {} /\ Ahead = {}
    BY <1>4 DEF GetdentsReturn, InPass, InRecord
  <2>2. Ahead = {} => \A n \in Name : Steady(n) /\ Wanted(Pass, n) => Hash[n] <= cursor
    BY SteadyEntry DEF Ahead, EntriesAfter, TypeInv, TypeOK
  <2> QED BY <2>1, <2>2 DEF Steady, Wanted, Matches, Shown, kernel, Pass
<1>5. CASE Refill
  BY <1>5 DEF Refill, Steady, Wanted, Matches, Shown, kernel, Pass, InPass
<1>6. CASE SkipEntry
  BY <1>6 DEF SkipEntry, Steady, Wanted, Matches, Shown, kernel, Pass, InPass
<1>7. CASE TakeEntry
  <2>1. \A n : EmptyRecord(n).name = n
    BY DEF EmptyRecord
  <2> QED BY <1>7, <2>1
          DEF TakeEntry, Steady, Wanted, Matches, Shown, kernel, Pass, InPass
<1>8. CASE ReadAttribute \/ StatNode \/ ReadHctl \/ OpenNode \/ CloseNode
  <2>1. /\ pc \in InPass /\ pc \in InRecord /\ pc' \in InRecord
        /\ UNCHANGED <<kernel, passes, rows, buf, cursor>>
        /\ rec'.name = rec.name
    BY <1>8, FillName
       DEF ReadAttribute, StatNode, ReadHctl, OpenNode, CloseNode, Advance,
           InPass, InRecord
  <2> QED BY <2>1 DEF Steady, Wanted, Matches, Shown, kernel, Pass
<1>9. CASE PrintRow
  <2>1. /\ pc = "print" /\ pc \in InPass /\ pc \in InRecord
        /\ UNCHANGED <<kernel, passes, buf, cursor>>
        /\ rec \in Records /\ rows \in Seq(Records)
        /\ rows' = IF Printed(Pass, rec) THEN Append(rows, rec) ELSE rows
        /\ pc' = IF Pass = "enclosure" THEN "closedir" ELSE "readdir"
    BY <1>9 DEF PrintRow, TypeInv, TypeOK, ControlOK, InRecord, InPass
  <2>2. \A n : Shown(n) => Shown(n)'
    BY <2>1, AppendRows DEF Shown
  <2>3. \A n : n = rec.name /\ Printed(Pass, rec) => Shown(n)'
    BY <2>1, AppendRows DEF Shown
  <2>4. Complete(Pass) /\ Steady(rec.name) /\ Wanted(Pass, rec.name) =>
           Printed(Pass, rec)
    BY <2>1, PrintedRow DEF Complete, Wanted, Printed
  <2> QED BY <2>1, <2>2, <2>3, <2>4
          DEF Steady, Wanted, Matches, kernel, Pass, Complete
<1>10. CASE Kernel
  <2>1. UNCHANGED <<pc, passes, rows, buf, cursor, rec>>
    BY <1>10 DEF Kernel, proc
  <2>2. \A n \in Name : Steady(n)' /\ Wanted(Pass, n)' => Steady(n) /\ Wanted(Pass, n)
    BY <1>10, <2>1, HotplugChanges
       DEF Kernel, TypeInv, TypeOK, Steady, Wanted, Matches, Pass
  <2> QED BY <2>1, <2>2 DEF Shown, Pass, InPass
<1>11. CASE UNCHANGED vars
  BY <1>11 DEF vars, kernel, proc, Steady, Wanted, Matches, Shown, Pass, InPass
<1> QED
  BY <1>1, <1>2, <1>3, <1>4, <1>5, <1>6, <1>7, <1>8, <1>9, <1>10, <1>11
     DEF Next, Process, Finished

-----------------------------------------------------------------------------
(* The descriptors that are lost. *)

LEMMA LostFinite == TypeInv => IsFiniteSet(Lost) /\ Cardinality(Lost) \in Nat
<1> SUFFICES ASSUME TypeInv PROVE IsFiniteSet(Lost) /\ Cardinality(Lost) \in Nat
  OBVIOUS
<1>1. IsFiniteSet(0 .. MaxFd)
  BY FS_Interval, FdsAssumption
<1>2. Lost \subseteq 0 .. MaxFd
  BY DEF Lost, TypeInv, TypeOK
<1> QED BY <1>1, <1>2, FS_Subset, FS_CardinalityType

\* A step that loses no descriptor, and one that loses one at most.
LEMMA NoneLost ==
    ASSUME TypeInv, Lost' \subseteq Lost
    PROVE  Cardinality(Lost') <= Cardinality(Lost) /\ Cardinality(Lost') \in Nat
BY LostFinite, FS_Subset, FS_CardinalityType

LEMMA OneLost ==
    ASSUME TypeInv, NEW fd, Lost' \subseteq Lost \cup {fd}
    PROVE  Cardinality(Lost') <= Cardinality(Lost) + 1 /\ Cardinality(Lost') \in Nat
<1>1. /\ IsFiniteSet(Lost \cup {fd})
      /\ Cardinality(Lost \cup {fd}) <= Cardinality(Lost) + 1
      /\ Cardinality(Lost \cup {fd}) \in Nat
  BY LostFinite, FS_AddElement, FS_CardinalityType
<1>2. Cardinality(Lost') <= Cardinality(Lost \cup {fd}) /\ IsFiniteSet(Lost')
  BY <1>1, FS_Subset
<1> QED BY <1>1, <1>2, LostFinite, FS_CardinalityType

LEMMA LostInit == Init => LostInv
<1> SUFFICES ASSUME Init PROVE LostInv
  OBVIOUS
<1>1. Lost = {}
  BY DEF Init, Lost
<1>2. Cardinality(Lost) = 0
  BY <1>1, FS_EmptySet
<1> QED BY <1>2 DEF Init, KernelInit, LostInv, Losing

LEMMA LostStep ==
    ASSUME TypeInv, FdInv, LostInv, [Next]_vars
    PROVE  LostInv'
<1>1. /\ Cardinality(Lost) \in Nat /\ events \in Nat /\ oom \in Nat
      /\ Cardinality(Lost) <= events + oom
  BY LostFinite DEF LostInv, TypeInv, TypeOK, KernelTypeOK
<1>2. CASE \/ StartListing \/ Exit \/ OpenDirFails \/ GetdentsEmit \/ GetdentsReturn
           \/ Refill \/ SkipEntry \/ TakeEntry \/ ReadAttribute \/ ReadCrashes
           \/ ReadHctl \/ PrintRow
  <2>1. /\ Lost' = Lost /\ pc' # "stat"
        /\ UNCHANGED <<kernel, oom>>
    BY <1>2 DEF StartListing, Exit, OpenDirFails, GetdentsEmit, GetdentsReturn,
                Refill, SkipEntry, TakeEntry, ReadAttribute, ReadCrashes, ReadHctl,
                PrintRow, EndListing, Advance, Lost, FdInv, InPass
  <2> QED BY <1>1, <2>1 DEF LostInv, Losing, kernel
<1>3. CASE OpenDir \/ CloseNode \/ NextPass \/ LastPass
  <2>1. /\ Lost' \subseteq Lost /\ pc' # "stat"
        /\ UNCHANGED <<events, oom>>
    BY <1>3 DEF OpenDir, CloseNode, NextPass, LastPass, EndListing, Advance, Lost,
                FdInv, InPass, kernel
  <2> QED BY <1>1, <2>1, NoneLost DEF LostInv, Losing
<1>4. CASE AllocFails
  <2>1. /\ Lost' \subseteq Lost \cup {dirfd} /\ pc' # "stat"
        /\ oom' = oom + 1 /\ UNCHANGED events
    BY <1>4 DEF AllocFails, EndListing, Lost, kernel
  <2>2. Cardinality(Lost') <= Cardinality(Lost) + 1 /\ Cardinality(Lost') \in Nat
    BY <2>1, OneLost
  <2> QED BY <1>1, <2>1, <2>2 DEF LostInv, Losing
<1>5. CASE OpenNode
  <2>1. /\ Lost' \subseteq Lost /\ UNCHANGED <<events, oom>>
        /\ devfd' = NoFd \/ HasNode(rec.name)'
    <3>1. devfd = NoFd /\ NoFd \notin fds
      BY <1>5, FdsAssumption DEF OpenNode, FdInv, TypeInv, TypeOK, NoFd
    <3>2. UNCHANGED <<kernel, rec, oom, dirfd>>
      BY <1>5 DEF OpenNode
    <3>3. CASE devfd' = NoFd /\ UNCHANGED fds
      BY <3>1, <3>2, <3>3 DEF Lost, kernel
    <3>4. CASE HasNode(rec.name) /\ (\E fd \in 0 .. MaxFd :
                  NewFd(fd) /\ fds' = fds \cup {fd} /\ devfd' = fd)
      BY <3>1, <3>2, <3>4 DEF Lost, kernel, HasNode
    <3> QED BY <1>5, <3>3, <3>4 DEF OpenNode
  <2> QED BY <1>1, <2>1, NoneLost DEF LostInv, Losing
<1>6. CASE StatNode
  <2>1. pc' # "stat" /\ UNCHANGED <<events, oom>>
    BY <1>6 DEF StatNode, kernel
  <2>2. CASE Losing
    <3>1. Cardinality(Lost) + 1 <= events + oom
      BY <2>2 DEF LostInv
    <3>2. Lost' \subseteq Lost \cup {devfd}
      BY <1>6 DEF StatNode, Lost
    <3> QED BY <1>1, <2>1, <3>1, <3>2, OneLost DEF LostInv, Losing
  <2>3. CASE ~Losing
    <3>1. Lost' \subseteq Lost
      BY <1>6, <2>3 DEF StatNode, Lost, Losing, FdInv
    <3> QED BY <1>1, <2>1, <3>1, NoneLost DEF LostInv, Losing
  <2> QED BY <2>2, <2>3
<1>7. CASE Kernel
  <2>1. events' = events + 1 /\ oom' = oom /\ Lost' = Lost
    BY <1>7 DEF Kernel, proc, Hotplug, Add, MakeNode, RemoveNode, Remove, Change, Lost
  <2> QED BY <1>1, <2>1 DEF LostInv
<1>8. CASE UNCHANGED vars
  BY <1>8 DEF vars, kernel, proc, LostInv, Lost, Losing, HasNode
<1> QED
  BY <1>2, <1>3, <1>4, <1>5, <1>6, <1>7, <1>8 DEF Next, Process, Finished

-----------------------------------------------------------------------------
(* Theorems. *)

LEMMA SafetyInit == Init => SafetyInv
BY InitType, FdInit, OrderInit, PresentInit, FieldInit, RowInit, CoverInit
   DEF SafetyInv

LEMMA SafetyStep == SafetyInv /\ [Next]_vars => SafetyInv'
BY TypeStep, FdStep, OrderStep, PresentStep, FieldStep, RowStep, CoverStep
   DEF SafetyInv

THEOREM SafetyInvariant == Spec => []SafetyInv
BY SafetyInit, SafetyStep, PTL DEF Spec

\* No pass lists a device twice: the rows are in the order of the directory.
THEOREM NoDuplicates == Spec => []NoDuplicateRows
<1>1. SafetyInv => NoDuplicateRows
  <2> SUFFICES ASSUME SafetyInv, NEW i \in DOMAIN rows, NEW j \in DOMAIN rows,
                      rows[i].name = rows[j].name, i # j
               PROVE  FALSE
    BY DEF NoDuplicateRows
  <2>1. i \in Nat /\ j \in Nat /\ rows[i].name \in Name
    BY RowType DEF SafetyInv, TypeInv, TypeOK
  <2>2. Hash[rows[i].name] \in Nat
    BY <2>1, HashAssumption
  <2> QED BY <2>1, <2>2 DEF SafetyInv, OrderInv
<1> QED BY <1>1, SafetyInvariant, PTL

\* The row of a device nobody touched shows that device, in every listing.
THEOREM RowsAreTrue == Spec => []SteadyRowsTrue
<1>1. SafetyInv => SteadyRowsTrue
  BY DEF SafetyInv, RowInv, RowOK, SteadyRowsTrue
<1> QED BY <1>1, SafetyInvariant, PTL

\* `list controller' lists array controllers only: what nobody touched is one, and
\* a name that was taken over was one's since its entry was taken.
THEOREM ControllersAreArrays == Spec => []ListedAreArrays
<1>1. SafetyInv => ListedAreArrays
  BY DEF SafetyInv, RowInv, RowOK, ListedAreArrays
<1> QED BY <1>1, SafetyInvariant, PTL

\* The fields of a row never go back in time.
THEOREM FieldsAreInOrder == Spec => []FieldsInOrder
<1>1. SafetyInv => FieldsInOrder
  BY DEF SafetyInv, RowInv, RowOK, FieldsInOrder
<1> QED BY <1>1, SafetyInvariant, PTL

\* open() of a node never returns descriptor 0.
THEOREM NodeDescriptor == Spec => []NodeIsNotDescriptorZero
<1>1. SafetyInv => NodeIsNotDescriptorZero
  BY DEF SafetyInv, FdInv, NodeIsNotDescriptorZero
<1> QED BY <1>1, SafetyInvariant, PTL

\* A descriptor is lost only to a node removed between open() and stat() or to
\* an allocation that failed in the middle of a listing.
THEOREM LossIsAccounted == Spec => []LostIsAccounted
<1>1. SafetyInv /\ LostInv => LostIsAccounted
  <2> SUFFICES ASSUME SafetyInv, LostInv PROVE LostIsAccounted
    OBVIOUS
  <2>1. Cardinality(Lost) \in Nat /\ events \in Nat /\ oom \in Nat
    BY LostFinite DEF SafetyInv, TypeInv, TypeOK, KernelTypeOK
  <2> QED BY <2>1 DEF LostInv, LostIsAccounted
<1>2. SafetyInv /\ LostInv /\ [Next]_vars => LostInv'
  BY LostStep DEF SafetyInv
<1> QED BY <1>1, <1>2, LostInit, SafetyInvariant, PTL DEF Spec

-----------------------------------------------------------------------------
(* Complete passes, and those that do not die on a quiet host. *)

\* A pass that comes to its closedir() has shown every device that was there
\* all the time, unless it is that of the enclosures or of the CD-ROM drives.
THEOREM SteadyShown == Spec => []SteadyDevicesShown
<1>1. SafetyInv => SteadyDevicesShown
  BY DEF SafetyInv, CoverInv, SteadyDevicesShown, Taken, InPass, InRecord
<1> QED BY <1>1, SafetyInvariant, PTL

\* The passes that ask for no file that is never there.
SoundPasses == {"sd", "nvme", "controller"}

LEMMA SoundSteps ==
    ASSUME NEW p \in SoundPasses, NEW j \in DOMAIN StepsOf[p]
    PROVE  StepsOf[p][j] \in Obtainable[p] \cup {"numbers", "hctl"}
<1>1. CASE p = "nvme"
  <2>1. StepsOf[p] = <<"numbers", "hctl", "model", "rev">>
    BY <1>1 DEF StepsOf, PassName
  <2>2. Obtainable[p] = {"numbers", "model", "rev"}
    BY <1>1 DEF Obtainable, PassName, Listings
  <2> QED BY <2>1, <2>2
<1>2. CASE p \in {"sd", "controller"}
  <2>1. StepsOf[p] = <<"type", "numbers", "hctl", "vendor", "model", "rev">>
    BY <1>2 DEF StepsOf, PassName, Listings
  <2>2. {"type", "vendor", "model", "rev"} \subseteq Obtainable[p]
    BY <1>2 DEF Obtainable, PassName, Listings
  <2> QED BY <2>1, <2>2
<1> QED BY <1>1, <1>2 DEF SoundPasses

LEMMA CrashStep ==
    ASSUME SafetyInv, CrashNeedsUnplug, [Next]_vars
    PROVE  CrashNeedsUnplug'
<1> USE DEF CrashNeedsUnplug, SoundPasses
<1>1. CASE Process /\ ~ReadCrashes
  <2>1. pc' # "crashed"
    BY <1>1 DEF Process, StartListing, Exit, OpenDir, OpenDirFails, AllocFails, LastPass,
                EndListing, GetdentsEmit, GetdentsReturn, Refill, SkipEntry, TakeEntry,
                ReadAttribute, OpenNode, StatNode, CloseNode, ReadHctl, PrintRow,
                NextPass, Advance
  <2> QED BY <2>1
<1>2. CASE ReadCrashes
  <2>1. /\ pc = "read" /\ k \in DOMAIN StepsOf[Pass]
        /\ Field \notin {"numbers", "hctl"}
        /\ ~(Field \in Obtainable[Pass] /\ HasAttributes(rec.name))
        /\ UNCHANGED <<kernel, passes, rec>>
    BY <1>2 DEF ReadCrashes, SafetyInv, TypeInv, ControlOK
  <2>2. SUFFICES ASSUME Pass \in SoundPasses PROVE rec.name \in touched
    BY <2>1 DEF kernel, Pass
  <2>3. ~HasAttributes(rec.name)
    BY <2>1, <2>2, SoundSteps DEF Field
  <2> QED BY <2>1, <2>3 DEF SafetyInv, PresentInv, Taken, InPass, InRecord, HasAttributes
<1>3. CASE Kernel
  <2>1. touched \subseteq touched' /\ UNCHANGED <<pc, passes, rec>>
    BY <1>3, HotplugChanges DEF Kernel, proc, SafetyInv, TypeInv, TypeOK
  <2> QED BY <2>1 DEF Pass
<1>4. CASE UNCHANGED vars
  BY <1>4 DEF vars, kernel, proc, Pass
<1> QED BY <1>1, <1>2, <1>3, <1>4 DEF Next, Finished

\* `list disk' and `list controller' die only of a device that was pulled, in
\* whatever sequence of listings they come.
THEOREM CrashIsUnplug == Spec => []CrashNeedsUnplug
<1>1. Init => CrashNeedsUnplug
  BY DEF Init, CrashNeedsUnplug
<1> QED BY <1>1, CrashStep, SafetyInvariant, PTL DEF Spec

-----------------------------------------------------------------------------
(* Listing implements Enumeration. *)

\* The names shown, as a sequence.
LEMMA ShownType ==
    ASSUME TypeInv
    PROVE  /\ ShownNames \in Seq(Name)
           /\ DOMAIN ShownNames = DOMAIN rows
           /\ \A i \in DOMAIN rows : ShownNames[i] = rows[i].name
<1>1. \A i \in DOMAIN rows : rows[i].name \in Name
  BY RowType DEF TypeInv, TypeOK
<1>2. DOMAIN rows = 1 .. Len(rows) /\ Len(rows) \in Nat
  BY DEF TypeInv, TypeOK
<1> QED BY <1>1, <1>2 DEF ShownNames

LEMMA EnumInit == Init => Enum!Init
BY DEF Init, Enum!Init, Status, SteadyWanted, ShownNames, InPass

\* A row that is printed is a thing shown that was not shown before.
LEMMA EnumShow ==
    ASSUME SafetyInv, PrintRow
    PROVE  [Enum!Next]_Enum!vars
<1>1. /\ pc = "print" /\ pc \in InPass /\ pc \in InRecord
      /\ rec \in Records /\ rec.name \in Name /\ rows \in Seq(Records)
      /\ UNCHANGED <<kernel, passes>>
      /\ rows' = IF Printed(Pass, rec) THEN Append(rows, rec) ELSE rows
  BY DEF PrintRow, SafetyInv, TypeInv, TypeOK, ControlOK, InPass, InRecord, Records
<1>2. pc' \in InPass /\ (pc' = "closedir" => ~Complete(Pass)) /\ Pass' = Pass
  BY <1>1 DEF PrintRow, Complete, InPass, Pass
<1>3. Status = "open" /\ Status' = "open"
  BY <1>1, <1>2 DEF Status, InPass
<1>4. SteadyWanted' = SteadyWanted
  BY <1>1, <1>2 DEF SteadyWanted, Steady, Wanted, Matches, kernel, Pass
<1>5. CASE rows' = rows
  BY <1>3, <1>4, <1>5 DEF Enum!vars, ShownNames
<1>6. CASE rows' = Append(rows, rec)
  <2>1. /\ ShownNames \in Seq(Name) /\ DOMAIN ShownNames = DOMAIN rows
        /\ \A i \in DOMAIN rows : ShownNames[i] = rows[i].name
        /\ DOMAIN rows = 1 .. Len(rows) /\ Len(rows) \in Nat
    BY <1>1, ShownType DEF SafetyInv
  <2>2. Len(ShownNames) = Len(rows)
    BY <2>1
  <2>3. ShownNames' = [i \in 1 .. (Len(rows) + 1) |->
                          IF i = Len(rows) + 1 THEN rec.name ELSE ShownNames[i]]
    <3>1. DOMAIN rows' = 1 .. (Len(rows) + 1)
      <4>1. rows' \in Seq(Records) /\ Len(rows') = Len(rows) + 1
        BY <1>1, <1>6, AppendProperties
      <4> QED BY <4>1
    <3>2. \A i \in DOMAIN rows' :
             rows'[i].name = IF i = Len(rows) + 1 THEN rec.name ELSE ShownNames[i]
      BY <1>1, <1>6, <2>1, <3>1, AppendRows
    <3> QED BY <3>1, <3>2 DEF ShownNames
  <2>4. ShownNames' = Append(ShownNames, rec.name)
    <3>1. /\ Append(ShownNames, rec.name) \in Seq(Name)
          /\ Len(Append(ShownNames, rec.name)) = Len(rows) + 1
          /\ \A i \in 1 .. (Len(rows) + 1) :
                Append(ShownNames, rec.name)[i] =
                   IF i = Len(rows) + 1 THEN rec.name ELSE ShownNames[i]
      BY <1>1, <2>1, <2>2
    <3> QED BY <2>3, <3>1
  <2>5. \A i \in DOMAIN rows : rows[i].name # rec.name
    <3>1. \A i \in DOMAIN rows : Hash[rows[i].name] < Hash[rec.name]
      BY <1>1 DEF SafetyInv, OrderInv, Taken
    <3>2. Hash[rec.name] \in Nat
      BY <1>1, HashAssumption
    <3> QED BY <3>1, <3>2
  <2>6. rec.name \notin Enum!Members(ShownNames)
    BY <2>1, <2>5 DEF Enum!Members
  <2> QED BY <1>1, <1>3, <1>4, <2>4, <2>6 DEF Enum!Next, Enum!Show
<1> QED BY <1>1, <1>5, <1>6

LEMMA EnumStep ==
    ASSUME SafetyInv, SafetyInv', [Next]_vars
    PROVE  [Enum!Next]_Enum!vars
<1>1. CASE StartListing \/ Exit \/ OpenDirFails
  BY <1>1 DEF StartListing, Exit, OpenDirFails, EndListing, Status, SteadyWanted,
              ShownNames, InPass, Enum!vars
<1>2. CASE OpenDir
  <2>1. /\ Status = "idle" /\ Status' = "open"
        /\ SteadyWanted' \subseteq Name
    BY <1>2 DEF OpenDir, Status, SteadyWanted, InPass
  <2>2. ShownNames' = <<>>
    BY <1>2 DEF OpenDir, ShownNames
  <2> QED BY <2>1, <2>2 DEF Enum!Next, Enum!Begin
<1>3. CASE GetdentsReturn
  <2>1. /\ pc = "getdents" /\ pc' \in {"closedir", "readdir"}
        /\ UNCHANGED <<kernel, passes, rows>>
    BY <1>3 DEF GetdentsReturn
  <2>2. /\ Status = "open" /\ SteadyWanted' = SteadyWanted
        /\ ShownNames' = ShownNames
    BY <2>1 DEF Status, SteadyWanted, Steady, Wanted, Matches, kernel, Pass, InPass,
                ShownNames
  <2>3. CASE pc' = "readdir" \/ ~Complete(Pass)
    BY <2>1, <2>2, <2>3 DEF Status, InPass, Pass, Enum!vars
  <2>4. CASE pc' = "closedir" /\ Complete(Pass)
    <3>1. Status' = "complete"
      BY <2>1, <2>4 DEF Status, InPass, Pass
    <3>2. SteadyDevicesShown'
      <4>1. Complete(Pass)' /\ pc' \in InPass
        BY <2>1, <2>4 DEF InPass, Pass
      <4> QED BY <2>4, <4>1
              DEF SafetyInv, CoverInv, SteadyDevicesShown, Taken, InRecord
    <3>3. SteadyWanted' \subseteq Enum!Members(ShownNames)'
      BY <2>1, <2>4, <3>2, ShownType
         DEF SteadyDevicesShown, SteadyWanted, Shown, Enum!Members, InPass, Pass,
             SafetyInv, ShownNames
    <3>4. Enum!Members(ShownNames)' = Enum!Members(ShownNames)
      BY <2>2 DEF Enum!Members
    <3> QED BY <2>2, <3>1, <3>3, <3>4 DEF Enum!Next, Enum!Complete
  <2> QED BY <2>1, <2>3, <2>4
<1>4. CASE \/ GetdentsEmit \/ Refill \/ SkipEntry \/ TakeEntry \/ ReadAttribute
           \/ OpenNode \/ StatNode \/ CloseNode \/ ReadHctl
  <2>1. /\ pc \in InPass \ {"closedir"} /\ pc' \in InPass \ {"closedir"}
        /\ UNCHANGED <<kernel, passes, rows>>
    BY <1>4 DEF GetdentsEmit, Refill, SkipEntry, TakeEntry, ReadAttribute, OpenNode,
                StatNode, CloseNode, ReadHctl, Advance, InPass
  <2> QED BY <2>1 DEF Status, SteadyWanted, Steady, Wanted, Matches, kernel, Pass,
                      ShownNames, Enum!vars
<1>5. CASE AllocFails \/ ReadCrashes
  <2>1. /\ pc \in InPass \ {"closedir"} /\ pc' \notin InPass /\ pc' # "closedir"
        /\ UNCHANGED rows
    BY <1>5 DEF AllocFails, ReadCrashes, EndListing, InPass
  <2> QED BY <2>1 DEF Status, SteadyWanted, ShownNames, Enum!Next, Enum!Abort
<1>6. CASE PrintRow
  BY <1>6, EnumShow
<1>7. CASE NextPass \/ LastPass
  <2>1. pc = "closedir" /\ pc \in InPass /\ pc' \notin InPass /\ UNCHANGED rows
    BY <1>7 DEF NextPass, LastPass, EndListing, InPass
  <2>2. Status \in {"open", "complete"} /\ Status' = "idle"
    BY <2>1 DEF Status
  <2> QED BY <2>1, <2>2
          DEF SteadyWanted, ShownNames, Enum!Next, Enum!Close, Enum!Abort
<1>8. CASE Kernel
  <2>1. UNCHANGED <<pc, passes, rows>>
    BY <1>8 DEF Kernel, proc
  <2>2. Status' = Status /\ ShownNames' = ShownNames
    BY <2>1 DEF Status, ShownNames, Pass
  <2>3. SteadyWanted' \subseteq SteadyWanted
    BY <1>8, <2>1, HotplugChanges
       DEF Kernel, SteadyWanted, Steady, Wanted, Matches, Pass, SafetyInv, TypeInv, TypeOK
  <2>4. CASE pc \in InPass
    <3>1. Status \in {"open", "complete"}
      BY <2>4 DEF Status
    <3> QED BY <2>2, <2>3, <3>1 DEF Enum!Next, Enum!Disturb
  <2>5. CASE pc \notin InPass
    BY <2>1, <2>2, <2>5 DEF SteadyWanted, Enum!vars
  <2> QED BY <2>4, <2>5
<1>9. CASE UNCHANGED vars
  BY <1>9 DEF vars, kernel, proc, Status, SteadyWanted, Steady, Wanted, Matches,
              Pass, ShownNames, Enum!vars
<1> QED
  BY <1>1, <1>2, <1>3, <1>4, <1>5, <1>6, <1>7, <1>8, <1>9 DEF Next, Process, Finished

\* Each pass of each listing is an enumeration, through every step of the program
\* and the kernel.
THEOREM ImplementsEnumeration == Spec => EnumeratesSteadyDevices
BY SafetyInvariant, EnumInit, EnumStep, PTL
   DEF Spec, EnumeratesSteadyDevices, Enum!Spec

=============================================================================
