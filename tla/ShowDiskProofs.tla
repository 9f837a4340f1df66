--------------------------- MODULE ShowDiskProofs ---------------------------
(***************************************************************************)
(* Theorems about ShowDisk, for any disks, arguments, lists of attribute   *)
(* files and bounds: its type invariant, what it shows of a disk, and its  *)
(* pass over the directory, which counts every entry the argument begins   *)
(* once and so implements Enumeration.                                     *)
(***************************************************************************)
EXTENDS ShowDisk, TLAPS, SequenceTheorems, FiniteSetTheorems

\* While a file is read there is one to read, for the entry at hand.
ControlOK ==
    /\ pc \in {"read", "print"} => entry \in Name
    /\ pc = "read" => k \in DOMAIN Files
    /\ pc = "print" => k = Len(Files) + 1
    /\ pc = "opendir" => details = <<>>

TypeInv == TypeOK /\ ControlOK

-----------------------------------------------------------------------------
(* The type invariant. *)

LEMMA FilesType ==
    /\ Files \in Seq(Attributes)
    /\ Len(Files) \in Nat \ {0}
<1> DEFINE Own == IF asked \in NvmeRequests THEN NvmeFiles ELSE ScsiFiles
<1>1. Own \in Seq(Attributes) /\ QueueFiles \in Seq(Attributes)
  BY FilesAssumption
<1>2. Len(QueueFiles) # 0
  BY FilesAssumption, EmptySeq
<1>3. /\ Own \o QueueFiles \in Seq(Attributes)
      /\ Len(Own \o QueueFiles) = Len(Own) + Len(QueueFiles)
  <2> HIDE DEF Own
  <2> QED BY <1>1, ConcatProperties
<1>4. Len(Own) \in Nat /\ Len(QueueFiles) \in Nat
  <2> HIDE DEF Own
  <2> QED BY <1>1, LenProperties
<1>5. Files = Own \o QueueFiles
  BY DEF Files
<1> HIDE DEF Own
<1> QED BY <1>2, <1>3, <1>4, <1>5

LEMMA InitType == Init => TypeInv
BY FilesAssumption, LivesAssumption
   DEF Init, TypeInv, TypeOK, ControlOK, KernelInit, KernelTypeOK, InPass,
       Values, Missing, NoEntry

LEMMA KernelTypeStep ==
    ASSUME KernelTypeOK, Hotplug
    PROVE  KernelTypeOK'
BY DEF KernelTypeOK, Hotplug, Add, MakeNode, RemoveNode, Remove, Change

LEMMA AdvanceType ==
    ASSUME k \in DOMAIN Files, Advance, UNCHANGED asked
    PROVE  /\ k' \in Nat
           /\ \/ pc' = "print" /\ k' = Len(Files') + 1
              \/ pc' = "read" /\ k' \in DOMAIN Files'
BY FilesType DEF Advance, Files

LEMMA ProcessTypeStep ==
    ASSUME TypeInv, Process
    PROVE  TypeInv'
<1> USE DEF TypeInv, TypeOK, ControlOK, InPass
<1>1. CASE OpenDir
  BY <1>1 DEF OpenDir, KernelTypeOK
<1>2. CASE OpenDirFails
  BY <1>2 DEF OpenDirFails, kernel, KernelTypeOK
<1>3. CASE GetdentsEmit
  BY <1>3, HashAssumption
     DEF GetdentsEmit, Ahead, EntriesAfter, Entries, kernel, KernelTypeOK
<1>4. CASE GetdentsReturn
  BY <1>4 DEF GetdentsReturn, kernel, KernelTypeOK
<1>5. CASE Refill
  BY <1>5 DEF Refill, kernel, KernelTypeOK
<1>6. CASE SkipEntry
  BY <1>6 DEF SkipEntry, kernel, KernelTypeOK
<1>7. CASE TakeEntry
  <2>1. 1 \in DOMAIN Files'
    BY <1>7, FilesType DEF TakeEntry, Files
  <2> QED BY <1>7, <2>1 DEF TakeEntry, First, kernel, KernelTypeOK
<1>8. CASE ReadFile
  <2>1. val' \in Values
    BY <1>8 DEF ReadFile, Readable, Entries, Values, Missing, KernelTypeOK
  <2>2. /\ k' \in Nat
        /\ \/ pc' = "print" /\ k' = Len(Files') + 1
           \/ pc' = "read" /\ k' \in DOMAIN Files'
    BY <1>8, AdvanceType DEF ReadFile
  <2> QED BY <1>8, <2>1, <2>2 DEF ReadFile, kernel, KernelTypeOK
<1>9. CASE ReadCrashes
  BY <1>9 DEF ReadCrashes, kernel, KernelTypeOK
<1>10. CASE PrintDetails
  <2>1. details' \in Seq([entry : Name, val : Values])
    BY <1>10, AppendProperties DEF PrintDetails
  <2> QED BY <1>10, <2>1 DEF PrintDetails, kernel, KernelTypeOK
<1>11. CASE CloseDir
  BY <1>11 DEF CloseDir, kernel, KernelTypeOK
<1> QED
  BY <1>1, <1>2, <1>3, <1>4, <1>5, <1>6, <1>7, <1>8, <1>9, <1>10, <1>11 DEF Process

LEMMA TypeStep ==
    ASSUME TypeInv, [Next]_vars
    PROVE  TypeInv'
<1>1. CASE Process
  BY <1>1, ProcessTypeStep
<1>2. CASE Kernel
  BY <1>2, KernelTypeStep DEF Kernel, proc, TypeInv, TypeOK, ControlOK, Files
<1>3. CASE UNCHANGED vars
  BY <1>3 DEF vars, proc, kernel, KernelTypeOK, TypeInv, TypeOK, ControlOK, Files
<1> QED BY <1>1, <1>2, <1>3 DEF Next, Finished

THEOREM TypeInvariant == Spec => []TypeInv
BY InitType, TypeStep, PTL DEF Spec

\* Every variable of the program keeps its type, for whatever lists of files a
\* disk is described by.
THEOREM TypeCorrect == Spec => []TypeOK
BY TypeInvariant, PTL DEF TypeInv

-----------------------------------------------------------------------------
(* The strengthening of the safety properties. *)

\* Nothing that was read is newer than the disk that bears the name now, and
\* nothing at all was read for a name that no disk bears.
Newest == IF asked \in Name THEN gen[asked] ELSE Missing

NewestInv ==
    /\ \A f \in Attributes : val[f] <= Newest
    /\ \A i \in DOMAIN details, f \in Attributes : details[i].val[f] <= Newest

\* v is what is to be shown for the file f.
Fits(v, f) ==
    /\ asked \in Name /\ Steady(asked) =>
           v = IF f \in Supported[asked] THEN gen[asked] ELSE Missing
    /\ asked \notin Name => v = Missing

\* The details printed fit, and so does what is in the record of the files
\* read so far; what it holds of the others is from an entry before.
FitsInv ==
    /\ \A i \in DOMAIN details, j \in DOMAIN Files :
           Fits(details[i].val[Files[j]], Files[j])
    /\ pc \in {"read", "print"} =>
           \A j \in DOMAIN Files : j < k => Fits(val[Files[j]], Files[j])

\* What was read for this entry is no older than anything printed or than what
\* was read for it before.
OrderInv ==
    /\ DetailsInOrder
    /\ pc \in {"read", "print"} =>
           \A g \in DOMAIN Files :
               g < k /\ val[Files[g]] # Missing =>
                   /\ \A h \in DOMAIN details, f \in DOMAIN Files :
                          details[h].val[Files[f]] <= val[Files[g]]
                   /\ \A f \in DOMAIN Files :
                          f < g => val[Files[f]] <= val[Files[g]]

SafetyInv == TypeInv /\ NewestInv /\ FitsInv /\ OrderInv /\ CrashNeedsMissingFile

-----------------------------------------------------------------------------
(* What a step does to the record, the details and the kernel. *)

LEMMA DistinctFiles ==
    \A i, j \in DOMAIN Files : Files[i] = Files[j] => i = j
<1>1. CASE asked \in NvmeRequests
  BY <1>1, DistinctAssumption DEF Files
<1>2. CASE asked \notin NvmeRequests
  BY <1>2, DistinctAssumption DEF Files
<1> QED BY <1>1, <1>2

LEMMA FileType == \A j \in DOMAIN Files : Files[j] \in Attributes /\ j \in Nat \ {0}
BY FilesType

\* All steps of the program but two leave the record and the details alone, and
\* only the first changes what has been touched, before anything is printed.
LEMMA QuietSteps ==
    ASSUME TypeInv, Process
    PROVE  /\ UNCHANGED <<life, gen, asked>>
           /\ \/ ReadFile
              \/ PrintDetails
              \/ UNCHANGED <<touched, val, details>> /\ pc' \notin {"read", "print"}
              \/ UNCHANGED <<touched, val, details>> /\ pc' = "read" /\ k' = 1
              \/ /\ UNCHANGED <<val, details>> /\ details = <<>>
                 /\ pc' = "getdents"
BY DEF Process, TypeInv, ControlOK, OpenDir, OpenDirFails, GetdentsEmit, GetdentsReturn,
       Refill, SkipEntry, TakeEntry, ReadFile, ReadCrashes, PrintDetails, CloseDir,
       kernel

LEMMA HotplugStep ==
    ASSUME TypeInv, Hotplug, UNCHANGED proc
    PROVE  /\ \A n \in Name : gen[n] <= gen'[n]
           /\ \A n \in Name : Steady(n)' => Steady(n) /\ gen'[n] = gen[n]
<1>1. PICK m \in Name : Add(m) \/ MakeNode(m) \/ RemoveNode(m) \/ Remove(m)
  BY DEF Hotplug
<1>2. /\ touched' = touched \cup {m}
      /\ \A n \in Name : n # m => life'[n] = life[n] /\ gen'[n] = gen[n]
      /\ gen[m] <= gen'[m]
  BY <1>1 DEF Add, MakeNode, RemoveNode, Remove, Change, TypeInv, TypeOK, KernelTypeOK
<1>3. \A n \in Name : gen[n] <= gen'[n]
  BY <1>2 DEF TypeInv, TypeOK, KernelTypeOK
<1> QED BY <1>2, <1>3 DEF Steady, Entries

\* The details after PrintDetails: those before, and the record.
LEMMA PrintStep ==
    ASSUME TypeInv, PrintDetails
    PROVE  /\ UNCHANGED <<kernel, asked, val, k>>
           /\ pc = "print" /\ k = Len(Files) + 1 /\ pc' = "readdir"
           /\ \A i \in DOMAIN details' :
                  \/ i \in DOMAIN details /\ details'[i] = details[i]
                  \/ /\ i = Len(details) + 1
                     /\ details'[i].val = val
           /\ \A i \in DOMAIN details : i \in Nat /\ i <= Len(details)
<1> DEFINE new == [entry |-> entry, val |-> val]
<1>1. /\ details \in Seq([entry : Name, val : Values])
      /\ new \in [entry : Name, val : Values]
      /\ details' = Append(details, new)
      /\ new.val = val
  BY DEF TypeInv, TypeOK, ControlOK, PrintDetails
<1>2. /\ Len(details') = Len(details) + 1
      /\ \A i \in 1 .. Len(details) : details'[i] = details[i]
      /\ details'[Len(details) + 1] = new
      /\ DOMAIN details' = 1 .. Len(details')
      /\ DOMAIN details = 1 .. Len(details)
      /\ Len(details) \in Nat
  <2> HIDE DEF new
  <2>1. details' \in Seq([entry : Name, val : Values])
    BY <1>1, AppendProperties
  <2> QED BY <1>1, <2>1, AppendProperties, LenProperties
<1>3. \A i \in DOMAIN details' : i \in DOMAIN details \/ i = Len(details) + 1
  BY <1>2
<1>4. /\ \A i \in DOMAIN details : details'[i] = details[i]
      /\ \A i \in DOMAIN details : i \in Nat /\ i <= Len(details)
  BY <1>2
<1>5. details'[Len(details) + 1].val = val
  BY <1>1, <1>2
<1>6. \A i \in DOMAIN details' :
          \/ i \in DOMAIN details /\ details'[i] = details[i]
          \/ i = Len(details) + 1 /\ details'[i].val = val
  BY <1>3, <1>4, <1>5
<1> QED BY <1>4, <1>6 DEF PrintDetails, TypeInv, ControlOK

\* The record after ReadFile: the value of the file just read is what the disk
\* has to show now, the others are as before.
LEMMA ReadStep ==
    ASSUME TypeInv, ReadFile
    PROVE  /\ UNCHANGED <<kernel, asked, details>>
           /\ pc = "read" /\ k \in DOMAIN Files /\ k' = k + 1
           /\ val'[Files[k]] \in {Missing, Newest}
           /\ Fits(val'[Files[k]], Files[k])
           /\ \A f \in Attributes : f # Files[k] => val'[f] = val[f]
<1> DEFINE v == IF Readable(Files[k]) THEN gen[asked] ELSE Missing
<1>1. /\ UNCHANGED <<kernel, asked, details>>
      /\ pc = "read" /\ k \in DOMAIN Files /\ k' = k + 1
      /\ val' = [val EXCEPT ![Files[k]] = v]
      /\ val \in Values
  BY DEF TypeInv, TypeOK, ControlOK, ReadFile, Advance
<1>2. val'[Files[k]] = v /\ \A f \in Attributes : f # Files[k] => val'[f] = val[f]
  <2> HIDE DEF v
  <2> QED BY <1>1, FileType DEF Values
<1>3. v \in {Missing, Newest} /\ Fits(v, Files[k])
  BY DEF Fits, Steady, Readable, Newest, Entries
<1> HIDE DEF v
<1> QED BY <1>1, <1>2, <1>3

-----------------------------------------------------------------------------
(* The invariants, one by one. *)

LEMMA ValueTypes ==
    ASSUME TypeInv
    PROVE  /\ \A f \in Attributes : val[f] \in Nat
           /\ \A i \in DOMAIN details, f \in Attributes : details[i].val[f] \in Nat
           /\ Newest \in Nat
<1>1. \A f \in Attributes : val[f] \in Nat
  BY DEF TypeInv, TypeOK, Values
<1>2. \A i \in DOMAIN details : details[i] \in [entry : Name, val : Values]
  BY ElementOfSeq, LenProperties DEF TypeInv, TypeOK
<1>3. \A i \in DOMAIN details, f \in Attributes : details[i].val[f] \in Nat
  BY <1>2 DEF Values
<1>4. Newest \in Nat
  BY DEF Newest, Missing, TypeInv, TypeOK, KernelTypeOK
<1> QED BY <1>1, <1>3, <1>4

LEMMA NewestStep ==
    ASSUME TypeInv, NewestInv, [Next]_vars
    PROVE  NewestInv'
<1>1. CASE Process
  <2>1. Newest' = Newest
    BY <1>1, QuietSteps DEF Newest
  <2>2. CASE ReadFile
    <3>1. \A f \in Attributes : val'[f] <= Newest
      <4>1. Missing <= Newest /\ Newest <= Newest
        BY ValueTypes DEF Missing
      <4>2. val'[Files[k]] <= Newest
        BY <2>2, <4>1, ReadStep
      <4>3. \A f \in Attributes : f # Files[k] => val'[f] = val[f]
        BY <2>2, ReadStep
      <4> QED BY <4>2, <4>3 DEF NewestInv
    <3>2. details' = details
      BY <2>2, ReadStep
    <3> QED BY <2>1, <3>1, <3>2 DEF NewestInv
  <2>3. CASE PrintDetails
    <3>1. /\ val' = val
          /\ \A i \in DOMAIN details' :
                 (i \in DOMAIN details /\ details'[i] = details[i]) \/ details'[i].val = val
      BY <2>3, PrintStep
    <3> QED BY <2>1, <3>1 DEF NewestInv
  <2>4. CASE UNCHANGED <<val, details>>
    BY <2>1, <2>4 DEF NewestInv
  <2> QED BY <1>1, <2>2, <2>3, <2>4, QuietSteps
<1>2. CASE Kernel
  <2>1. /\ \A n \in Name : gen[n] <= gen'[n]
        /\ UNCHANGED <<asked, val, details>>
    BY <1>2, HotplugStep DEF Kernel, proc
  <2>2. Newest <= Newest' /\ Newest' \in Nat
    <3>1. KernelTypeOK'
      BY <1>2, TypeStep DEF TypeInv, TypeOK
    <3> QED BY <2>1, <3>1 DEF Newest, Missing, KernelTypeOK
  <2>3. \A x \in Nat : x <= Newest => x <= Newest'
    BY <2>2, ValueTypes
  <2>4. \A f \in Attributes : val[f] <= Newest'
    BY <2>3, ValueTypes DEF NewestInv
  <2>5. \A i \in DOMAIN details, f \in Attributes : details[i].val[f] <= Newest'
    BY <2>3, ValueTypes DEF NewestInv
  <2> QED BY <2>1, <2>4, <2>5 DEF NewestInv
<1>3. CASE UNCHANGED vars
  BY <1>3 DEF vars, proc, kernel, NewestInv, Newest
<1> QED BY <1>1, <1>2, <1>3 DEF Next, Finished

LEMMA FitsStep ==
    ASSUME TypeInv, FitsInv, [Next]_vars
    PROVE  FitsInv'
<1>1. CASE Process
  <2>1. UNCHANGED <<life, gen, asked>> /\ Files' = Files
    BY <1>1, QuietSteps DEF Files
  <2>2. CASE ReadFile
    <3>1. /\ UNCHANGED <<touched, details>> /\ pc = "read"
          /\ k \in DOMAIN Files /\ k' = k + 1
          /\ Fits(val'[Files[k]], Files[k])
          /\ \A f \in Attributes : f # Files[k] => val'[f] = val[f]
      BY <2>2, ReadStep DEF kernel
    <3>2. \A v, f : Fits(v, f) => Fits(v, f)'
      BY <2>1, <3>1 DEF Fits, Steady, Entries
    <3>3. \A j \in DOMAIN Files : j < k + 1 => Fits(val'[Files[j]], Files[j])
      <4>1. SUFFICES ASSUME NEW j \in DOMAIN Files, j < k + 1, j # k
                     PROVE  Fits(val'[Files[j]], Files[j])
        BY <3>1
      <4>2. j < k
        BY <3>1, <4>1, FileType
      <4>3. val'[Files[j]] = val[Files[j]]
        BY <3>1, <4>1, DistinctFiles, FileType
      <4> QED BY <3>1, <4>2, <4>3 DEF FitsInv
    <3> QED BY <2>1, <3>1, <3>2, <3>3 DEF FitsInv, Fits, Steady, Entries
  <2>3. CASE PrintDetails
    <3>1. /\ UNCHANGED <<kernel, val>>
          /\ pc = "print" /\ k = Len(Files) + 1 /\ pc' = "readdir"
          /\ \A i \in DOMAIN details' :
                 (i \in DOMAIN details /\ details'[i] = details[i]) \/ details'[i].val = val
      BY <2>3, PrintStep
    <3>2. \A j \in DOMAIN Files : Fits(val[Files[j]], Files[j])
      <4>1. \A j \in DOMAIN Files : j < k
        BY <3>1, FilesType
      <4> QED BY <3>1, <4>1 DEF FitsInv
    <3>3. \A i \in DOMAIN details', j \in DOMAIN Files :
              Fits(details'[i].val[Files[j]], Files[j])
      BY <3>1, <3>2 DEF FitsInv
    <3> QED BY <2>1, <3>1, <3>3 DEF FitsInv, Fits, Steady, Entries, kernel
  <2>4. CASE UNCHANGED <<touched, val, details>> /\ pc' \notin {"read", "print"}
    BY <2>1, <2>4 DEF FitsInv, Fits, Steady, Entries
  <2>5. CASE UNCHANGED <<touched, val, details>> /\ pc' = "read" /\ k' = 1
    <3>1. \A j \in DOMAIN Files : ~(j < 1)
      BY FileType
    <3> QED BY <2>1, <2>5, <3>1 DEF FitsInv, Fits, Steady, Entries
  <2>6. CASE UNCHANGED <<val, details>> /\ details = <<>> /\ pc' = "getdents"
    <3>1. DOMAIN details' = {}
      BY <2>6
    <3> QED BY <2>6, <3>1 DEF FitsInv
  <2> QED BY <1>1, <2>2, <2>3, <2>4, <2>5, <2>6, QuietSteps
<1>2. CASE Kernel
  <2>1. /\ UNCHANGED <<asked, pc, k, val, details>> /\ Files' = Files
        /\ \A n \in Name : Steady(n)' => Steady(n) /\ gen'[n] = gen[n]
    BY <1>2, HotplugStep DEF Kernel, proc, Files
  <2>2. \A v, f : Fits(v, f) => Fits(v, f)'
    BY <2>1 DEF Fits
  <2> QED BY <2>1, <2>2 DEF FitsInv
<1>3. CASE UNCHANGED vars
  BY <1>3 DEF vars, proc, kernel, FitsInv, Fits, Steady, Entries, Files
<1> QED BY <1>1, <1>2, <1>3 DEF Next, Finished

LEMMA OrderStep ==
    ASSUME TypeInv, NewestInv, OrderInv, [Next]_vars
    PROVE  OrderInv'
<1>1. CASE ReadFile
  <2>1. /\ UNCHANGED <<asked, details>> /\ pc = "read"
        /\ k \in DOMAIN Files /\ k' = k + 1
        /\ val'[Files[k]] \in {Missing, Newest}
        /\ \A f \in Attributes : f # Files[k] => val'[f] = val[f]
    BY <1>1, ReadStep
  <2>2. Files' = Files /\ DetailsInOrder'
    BY ZenonT(40), <2>1 DEF Files, OrderInv, DetailsInOrder
  <2>3. \A j \in DOMAIN Files : j # k => val'[Files[j]] = val[Files[j]]
    BY <2>1, DistinctFiles, FileType
  <2>4. SUFFICES ASSUME NEW g \in DOMAIN Files, g < k + 1, val'[Files[g]] # Missing
                 PROVE  /\ \A h \in DOMAIN details, f \in DOMAIN Files :
                               details[h].val[Files[f]] <= val'[Files[g]]
                        /\ \A f \in DOMAIN Files :
                               f < g => val'[Files[f]] <= val'[Files[g]]
    BY <2>1, <2>2 DEF OrderInv
  <2>5. CASE g = k
    <3>1. val'[Files[g]] = Newest
      BY <2>1, <2>4, <2>5
    <3>2. \A f \in DOMAIN Files : f < g => f # k
      BY <2>5, FileType
    <3> QED BY <2>3, <3>1, <3>2, FileType DEF NewestInv
  <2>6. CASE g # k
    <3>1. g < k /\ val'[Files[g]] = val[Files[g]]
      BY <2>1, <2>3, <2>4, <2>6, FileType
    <3>2. \A f \in DOMAIN Files : f < g => f # k
      BY <3>1, FileType, <2>1
    <3> QED BY <2>1, <2>3, <2>4, <3>1, <3>2 DEF OrderInv
  <2> QED BY <2>5, <2>6
<1>2. CASE PrintDetails
  <2>1. /\ UNCHANGED <<asked, val>> /\ Files' = Files
        /\ pc = "print" /\ k = Len(Files) + 1 /\ pc' = "readdir"
        /\ \A i \in DOMAIN details' :
               \/ i \in DOMAIN details /\ details'[i] = details[i]
               \/ i = Len(details) + 1 /\ details'[i].val = val
        /\ \A i \in DOMAIN details : i \in Nat /\ i <= Len(details)
    BY <1>2, PrintStep DEF Files
  <2>2. \A g \in DOMAIN Files :
            val[Files[g]] # Missing =>
                /\ \A h \in DOMAIN details, f \in DOMAIN Files :
                       details[h].val[Files[f]] <= val[Files[g]]
                /\ \A f \in DOMAIN Files :
                       f < g => val[Files[f]] <= val[Files[g]]
    <3>1. \A g \in DOMAIN Files : g < k
      BY <2>1, FilesType
    <3> QED BY <2>1, <3>1 DEF OrderInv
  <2>3. SUFFICES ASSUME NEW h \in DOMAIN details', NEW i \in DOMAIN details',
                        NEW f \in DOMAIN Files, NEW g \in DOMAIN Files,
                        h < i \/ (h = i /\ f < g),
                        details'[i].val[Files[g]] # Missing
                 PROVE  details'[h].val[Files[f]] <= details'[i].val[Files[g]]
    BY <2>1 DEF OrderInv, DetailsInOrder
  <2>4. CASE i \in DOMAIN details /\ details'[i] = details[i]
    <3>1. h \in DOMAIN details /\ details'[h] = details[h]
      <4>1. Len(details) \in Nat
        BY LenProperties DEF TypeInv, TypeOK
      <4>2. h # Len(details) + 1
        BY <2>1, <2>3, <2>4, <4>1
      <4> QED BY <2>1, <4>2
    <3> QED BY <2>3, <2>4, <3>1 DEF OrderInv, DetailsInOrder
  <2>5. CASE i = Len(details) + 1 /\ details'[i].val = val
    <3>1. CASE h \in DOMAIN details /\ details'[h] = details[h]
      BY <2>2, <2>3, <2>5, <3>1
    <3>2. CASE h = Len(details) + 1 /\ details'[h].val = val
      <4>1. f < g
        BY <2>3, <2>5, <3>2, LenProperties DEF TypeInv, TypeOK
      <4> QED BY <2>2, <2>3, <2>5, <3>2, <4>1
    <3> QED BY <2>1, <3>1, <3>2
  <2> QED BY <2>1, <2>4, <2>5
<1>3. CASE UNCHANGED <<asked, val, details>> /\ pc' \notin {"read", "print"}
  BY <1>3 DEF OrderInv, DetailsInOrder, Files
<1>4. CASE UNCHANGED <<asked, val, details>> /\ pc' = "read" /\ k' = 1
  <2>1. Files' = Files /\ \A j \in DOMAIN Files : ~(j < 1)
    BY <1>4, FileType DEF Files
  <2> QED BY <1>4, <2>1 DEF OrderInv, DetailsInOrder
<1>5. CASE UNCHANGED <<asked, val, details, pc, k>>
  BY ZenonT(40), <1>5 DEF OrderInv, DetailsInOrder, Files
<1>6. CASE Process
  BY <1>1, <1>2, <1>3, <1>4, <1>6, QuietSteps
<1> QED BY <1>5, <1>6 DEF Next, Kernel, Finished, vars, proc

LEMMA CrashStep ==
    ASSUME TypeInv, CrashNeedsMissingFile, [Next]_vars
    PROVE  CrashNeedsMissingFile'
<1>1. CASE ReadCrashes
  BY <1>1 DEF ReadCrashes, CrashNeedsMissingFile, Readable, Steady, Entries, Files, kernel
<1>2. CASE Process /\ ~ReadCrashes
  <2>1. pc' # "crashed"
    BY <1>2 DEF Process, OpenDir, OpenDirFails, GetdentsEmit, GetdentsReturn, Refill,
       SkipEntry, TakeEntry, ReadFile, Advance, PrintDetails, CloseDir, TypeInv,
       TypeOK, InPass
  <2> QED BY <2>1 DEF CrashNeedsMissingFile
<1>3. CASE Kernel
  BY <1>3, HotplugStep DEF Kernel, proc, CrashNeedsMissingFile, Files
<1>4. CASE UNCHANGED vars
  BY <1>4 DEF vars, proc, kernel, CrashNeedsMissingFile, Files, Steady, Entries
<1> QED BY <1>1, <1>2, <1>3, <1>4 DEF Next, Finished

-----------------------------------------------------------------------------
(* The theorems. *)

LEMMA InitSafety == Init => SafetyInv
<1> SUFFICES ASSUME Init PROVE SafetyInv
  OBVIOUS
<1>1. TypeInv
  BY InitType
<1>2. /\ details = <<>> /\ DOMAIN details = {} /\ pc = "opendir"
      /\ \A f \in Attributes : val[f] = Missing
  BY DEF Init
<1>3. NewestInv
  <2>1. Missing <= Newest
    BY <1>1, ValueTypes DEF Missing
  <2> QED BY <1>2, <2>1 DEF NewestInv
<1> QED BY <1>1, <1>2, <1>3
       DEF SafetyInv, FitsInv, OrderInv, DetailsInOrder, CrashNeedsMissingFile

THEOREM SafetyInvariant == Spec => []SafetyInv
<1>1. SafetyInv /\ [Next]_vars => SafetyInv'
  BY TypeStep, NewestStep, FitsStep, OrderStep, CrashStep DEF SafetyInv
<1> QED BY <1>1, InitSafety, PTL DEF Spec

\* show disk never shows the attributes of another disk as those of the disk
\* asked for, if that stays in place.
THEOREM DetailsAreTrue == Spec => []DetailsTrue
<1>1. SafetyInv => DetailsTrue
  BY DEF SafetyInv, FitsInv, Fits, DetailsTrue
<1> QED BY <1>1, SafetyInvariant, PTL

\* The details of a disk that is replaced meanwhile never go back in time, from
\* file to file and from one entry to the next.
THEOREM DetailsAreInOrder == Spec => []DetailsInOrder
<1>1. SafetyInv => DetailsInOrder
  BY DEF SafetyInv, OrderInv
<1> QED BY <1>1, SafetyInvariant, PTL

\* A disk that stays and has all the files never makes the program die.
THEOREM CrashIsMissingFile == Spec => []CrashNeedsMissingFile
<1>1. SafetyInv => CrashNeedsMissingFile
  BY DEF SafetyInv
<1> QED BY <1>1, SafetyInvariant, PTL

-----------------------------------------------------------------------------
(* The pass over the directory. *)

InRecord == pc \in {"read", "print"}

\* A disk with an entry is there, or something has happened to it since.
Met(n) == n \in touched \/ n \in Entries("block")

\* What is buffered lies behind the cursor, the entry at hand before that, ...
BufInv ==
    /\ \A n \in buf : Hash[n] <= cursor /\ Met(n)
    /\ InRecord => /\ entry \in BeginsWith[asked] /\ Met(entry)
                   /\ Hash[entry] <= cursor
                   /\ \A n \in buf : Hash[entry] < Hash[n]

\* ... and what has been shown before both, in this order.
ShownInv ==
    /\ \A i \in DOMAIN details :
           LET n == details[i].entry
           IN  /\ n \in BeginsWith[asked] /\ Met(n) /\ Hash[n] <= cursor
               /\ \A m \in buf : Hash[n] < Hash[m]
               /\ InRecord => Hash[n] < Hash[entry]
    /\ \A i, j \in DOMAIN details :
           i < j => Hash[details[i].entry] < Hash[details[j].entry]

Seen(n) == \E i \in DOMAIN details : details[i].entry = n

\* Every steady disk behind the cursor is buffered, at hand or shown ...
CoverInv ==
    pc # "crashed" =>
        \A n \in BeginsWith[asked] :
            Steady(n) /\ Hash[n] <= cursor =>
                n \in buf \/ (InRecord /\ n = entry) \/ Seen(n)

\* ... and in the end they are all behind the cursor.
EndInv ==
    pc = "closedir" \/ (pc = "done" /\ cursor # 0) =>
        /\ buf = {}
        /\ \A n \in BeginsWith[asked] : Steady(n) => Hash[n] <= cursor

CountInv ==
    /\ count = Len(details)
    /\ pc = "opendir" => buf = {} /\ cursor = 0
    /\ pc = "done" /\ cursor # 0 => result \in {"1", "ENODEV"}
    /\ pc = "done" /\ result = "1" => count = 1
    /\ pc = "done" /\ cursor # 0 /\ result = "ENODEV" => count # 1

PassInv == BufInv /\ ShownInv /\ CoverInv /\ EndInv /\ CountInv

-----------------------------------------------------------------------------
LEMMA Orders ==
    ASSUME TypeInv
    PROVE  /\ \A n \in Name : Hash[n] \in Nat \ {0}
           /\ \A m, n \in Name : Hash[m] = Hash[n] => m = n
           /\ buf \subseteq Name /\ cursor \in Nat
           /\ BeginsWith[asked] \subseteq Name
           /\ DOMAIN details = 1 .. Len(details) /\ Len(details) \in Nat
           /\ \A i \in DOMAIN details : details[i].entry \in Name
<1>1. details \in Seq([entry : Name, val : Values])
  BY DEF TypeInv, TypeOK
<1>2. DOMAIN details = 1 .. Len(details) /\ Len(details) \in Nat
  BY <1>1, LenProperties
<1>3. \A i \in DOMAIN details : details[i] \in [entry : Name, val : Values]
  BY <1>1, <1>2, ElementOfSeq
<1> QED
  BY <1>2, <1>3, HashAssumption, RequestsAssumption DEF TypeInv, TypeOK

LEMMA PassInit == Init => PassInv
BY HashAssumption, RequestsAssumption
   DEF Init, PassInv, BufInv, ShownInv, CoverInv, EndInv, CountInv, InRecord

\* Hot-plug touches what it changes.
LEMMA HotplugPass ==
    ASSUME TypeInv, PassInv, Hotplug, UNCHANGED proc
    PROVE  PassInv'
<1>1. \A n \in Name : Steady(n)' => Steady(n)
  BY HotplugStep
<1>2. \A n \in Name : Met(n) => Met(n)'
  BY DEF Hotplug, Add, MakeNode, RemoveNode, Remove, Change, Met, Entries, TypeInv,
         TypeOK, KernelTypeOK
<1>3. /\ UNCHANGED <<asked, pc, cursor, buf, entry, count, details, result>>
      /\ InRecord' = InRecord /\ \A n : Seen(n)' = Seen(n)
  BY DEF proc, InRecord, Seen
<1>4. BufInv'
  BY <1>2, <1>3, Orders DEF PassInv, BufInv
<1>5. ShownInv'
  BY <1>2, <1>3, Orders DEF PassInv, ShownInv
<1>6. CoverInv'
  BY <1>1, <1>3, Orders DEF PassInv, CoverInv
<1>7. EndInv' /\ CountInv'
  BY <1>1, <1>3, Orders DEF PassInv, EndInv, CountInv
<1> QED BY <1>4, <1>5, <1>6, <1>7 DEF PassInv

\* The steps of the program that leave the kernel and the history alone.
LEMMA PassQuiet ==
    ASSUME TypeInv, PassInv, UNCHANGED <<kernel, asked, cursor, buf, details, count>>,
           InRecord' => InRecord /\ entry' = entry,
           pc' # "crashed" => pc # "crashed" /\ InRecord' = InRecord,
           pc' # "opendir",
           pc' = "closedir" =>
               buf = {} /\ \A n \in BeginsWith[asked] : Steady(n) => Hash[n] <= cursor,
           pc' = "done" /\ cursor # 0 =>
               /\ pc = "closedir"
               /\ result' = IF count = 1 THEN "1" ELSE "ENODEV",
           pc' = "done" /\ cursor = 0 /\ result' = "1" => count = 1
    PROVE  PassInv'
<1>1. \A n : (Met(n)' <=> Met(n)) /\ (Steady(n)' <=> Steady(n)) /\ (Seen(n)' <=> Seen(n))
  BY DEF Met, Steady, Seen, kernel, Entries
<1>2. BufInv'
  BY <1>1 DEF PassInv, BufInv
<1>3. ShownInv'
  BY <1>1 DEF PassInv, ShownInv
<1>4. CoverInv'
  BY <1>1 DEF PassInv, CoverInv, InRecord
<1>5. EndInv' /\ CountInv'
  BY <1>1 DEF PassInv, EndInv, CountInv
<1> QED BY <1>2, <1>3, <1>4, <1>5 DEF PassInv

LEMMA ProcessPass ==
    ASSUME TypeInv, PassInv, Process
    PROVE  PassInv'
<1> USE Orders
<1>0. UNCHANGED <<life, asked>>
  BY DEF Process, OpenDir, OpenDirFails, GetdentsEmit, GetdentsReturn, Refill, SkipEntry,
         TakeEntry, ReadFile, ReadCrashes, PrintDetails, CloseDir, kernel
<1>1. CASE OpenDir
  <2>1. /\ pc = "opendir" /\ pc' = "getdents" /\ cursor' = 0 /\ buf' = {}
        /\ details' = <<>> /\ count' = 0
    BY <1>1 DEF OpenDir, PassInv, CountInv, TypeInv, ControlOK
  <2>2. DOMAIN details' = {} /\ Len(details') = 0
    BY <2>1
  <2> QED BY <1>0, <2>1, <2>2
     DEF PassInv, BufInv, ShownInv, CoverInv, EndInv, CountInv, InRecord
<1>2. CASE OpenDirFails
  <2>1. /\ pc = "opendir" /\ pc' = "done" /\ cursor = 0 /\ result' = "ENODEV"
    BY <1>2 DEF OpenDirFails, PassInv, CountInv
  <2> QED BY <1>2, <2>1, PassQuiet DEF OpenDirFails, InRecord
<1>3. CASE GetdentsEmit
  <2>1. PICK n \in Ahead : First(n, Ahead) /\ buf' = buf \cup {n} /\ cursor' = Hash[n]
    BY <1>3 DEF GetdentsEmit
  <2>2. /\ n \in Name /\ n \in Entries("block") /\ Hash[n] > cursor
        /\ \A m \in Entries("block") : Hash[m] > cursor => Hash[n] <= Hash[m]
    BY <2>1 DEF Ahead, EntriesAfter, First, Entries
  <2>3. /\ pc = "getdents" /\ pc' = pc /\ UNCHANGED <<kernel, entry, count, details>>
    BY <1>3 DEF GetdentsEmit
  <2>4. \A m : (Met(m)' <=> Met(m)) /\ (Steady(m)' <=> Steady(m)) /\ (Seen(m)' <=> Seen(m))
    BY <2>3 DEF Met, Steady, Seen, kernel, Entries
  <2>5. Met(n)
    BY <2>2 DEF Met
  <2>6. BufInv'
    BY <2>1, <2>2, <2>3, <2>4, <2>5 DEF PassInv, BufInv, InRecord
  <2>7. ShownInv'
    <3>1. \A i \in DOMAIN details : Hash[details[i].entry] < Hash[n]
      BY <2>2 DEF PassInv, ShownInv
    <3> QED BY <1>0, <2>1, <2>2, <2>3, <2>4, <3>1 DEF PassInv, ShownInv, InRecord
  <2>8. CoverInv'
    <3>1. \A m \in BeginsWith[asked] :
              Steady(m) /\ Hash[m] <= Hash[n] => Hash[m] <= cursor \/ m = n
      BY <2>2 DEF Steady
    <3> QED BY <1>0, <2>1, <2>3, <2>4, <3>1 DEF PassInv, CoverInv, InRecord
  <2>9. EndInv' /\ CountInv'
    BY <2>3 DEF PassInv, EndInv, CountInv
  <2> QED BY <2>6, <2>7, <2>8, <2>9 DEF PassInv
<1>4. CASE GetdentsReturn
  <2>1. pc' = "closedir" =>
            buf = {} /\ \A n \in BeginsWith[asked] : Steady(n) => Hash[n] <= cursor
    BY <1>4 DEF GetdentsReturn, Ahead, EntriesAfter, Steady
  <2> QED BY <1>4, <2>1, PassQuiet DEF GetdentsReturn, InRecord
<1>5. CASE Refill
  BY <1>5, PassQuiet DEF Refill, InRecord
<1>6. CASE SkipEntry \/ TakeEntry
  <2>1. PICK n \in buf : First(n, buf) /\ buf' = buf \ {n}
                         /\ (TakeEntry => n \in BeginsWith[asked] /\ entry' = n)
                         /\ (SkipEntry => n \notin BeginsWith[asked])
    BY <1>6 DEF SkipEntry, TakeEntry
  <2>2. /\ n \in Name /\ Hash[n] <= cursor /\ Met(n)
        /\ \A m \in buf' : m \in buf /\ Hash[n] < Hash[m]
    BY <2>1 DEF First, PassInv, BufInv
  <2>3. /\ pc = "readdir" /\ UNCHANGED <<kernel, cursor, count, details>>
        /\ (TakeEntry => pc' = "read") /\ (SkipEntry => pc' = "readdir")
    BY <1>6 DEF SkipEntry, TakeEntry
  <2>4. \A m : (Met(m)' <=> Met(m)) /\ (Steady(m)' <=> Steady(m)) /\ (Seen(m)' <=> Seen(m))
    BY <2>3 DEF Met, Steady, Seen, kernel, Entries
  <2>5. BufInv'
    BY <1>0, <1>6, <2>1, <2>2, <2>3, <2>4 DEF PassInv, BufInv, InRecord
  <2>6. ShownInv'
    <3>1. \A i \in DOMAIN details : Hash[details[i].entry] < Hash[n]
      BY <2>1 DEF PassInv, ShownInv
    <3> QED BY <1>0, <1>6, <2>1, <2>2, <2>3, <2>4, <3>1 DEF PassInv, ShownInv, InRecord
  <2>7. CoverInv'
    BY <1>0, <1>6, <2>1, <2>3, <2>4 DEF PassInv, CoverInv, InRecord
  <2>8. EndInv' /\ CountInv'
    BY <1>6, <2>3 DEF PassInv, EndInv, CountInv
  <2> QED BY <2>5, <2>6, <2>7, <2>8 DEF PassInv
<1>7. CASE ReadFile
  BY <1>7, PassQuiet DEF ReadFile, Advance, InRecord
<1>8. CASE ReadCrashes
  BY <1>8, PassQuiet DEF ReadCrashes, InRecord
<1>9. CASE PrintDetails
  <2>1. /\ pc = "print" /\ pc' = "readdir" /\ entry \in Name
        /\ UNCHANGED <<kernel, cursor, buf, entry>> /\ count' = count + 1
    BY <1>9 DEF PrintDetails, TypeInv, ControlOK
  <2>2. /\ DOMAIN details' = 1 .. (Len(details) + 1) /\ Len(details') = Len(details) + 1
        /\ \A i \in DOMAIN details : details'[i] = details[i]
        /\ details'[Len(details) + 1].entry = entry
    <3> DEFINE new == [entry |-> entry, val |-> val]
    <3>1. /\ details \in Seq([entry : Name, val : Values])
          /\ new \in [entry : Name, val : Values]
          /\ details' = Append(details, new)
          /\ new.entry = entry
      BY <1>9, <2>1 DEF TypeInv, TypeOK, PrintDetails
    <3> HIDE DEF new
    <3>2. /\ Len(details') = Len(details) + 1
          /\ \A i \in 1 .. Len(details) : details'[i] = details[i]
          /\ details'[Len(details) + 1] = new
      BY <3>1, AppendProperties
    <3>3. details' \in Seq([entry : Name, val : Values])
      BY <3>1, AppendProperties
    <3> QED BY <3>1, <3>2, <3>3, LenProperties
  <2>3. \A i \in DOMAIN details' :
            \/ i \in DOMAIN details /\ details'[i].entry = details[i].entry
            \/ i = Len(details) + 1 /\ details'[i].entry = entry
    BY <2>2
  <2>4. \A m : (Met(m)' <=> Met(m)) /\ (Steady(m)' <=> Steady(m))
    BY <2>1 DEF Met, Steady, kernel, Entries
  <2>5. \A m : Seen(m) \/ m = entry => Seen(m)'
    BY <2>2 DEF Seen
  <2>6. BufInv'
    BY <2>1, <2>4 DEF PassInv, BufInv, InRecord
  <2>7. ShownInv'
    <3>1. \A i \in DOMAIN details : Hash[details[i].entry] < Hash[entry]
      BY <2>1 DEF PassInv, ShownInv, InRecord
    <3>2. \A i, j \in DOMAIN details' :
              i < j => Hash[details'[i].entry] < Hash[details'[j].entry]
      BY <2>2, <2>3, <3>1 DEF PassInv, ShownInv
    <3>3. \A i \in DOMAIN details' :
              LET n == details'[i].entry
              IN  /\ n \in BeginsWith[asked] /\ Met(n) /\ Hash[n] <= cursor
                  /\ \A m \in buf : Hash[n] < Hash[m]
      BY <2>1, <2>3 DEF PassInv, ShownInv, BufInv, InRecord
    <3> QED BY <1>0, <2>1, <2>4, <3>2, <3>3 DEF ShownInv, InRecord
  <2>8. CoverInv'
    BY <1>0, <2>1, <2>4, <2>5 DEF PassInv, CoverInv, InRecord
  <2>9. EndInv' /\ CountInv'
    BY <2>1, <2>2 DEF PassInv, EndInv, CountInv
  <2> QED BY <2>6, <2>7, <2>8, <2>9 DEF PassInv
<1>10. CASE CloseDir
  <2>1. pc = "closedir" => count = 1 \/ count # 1
    OBVIOUS
  <2>2. EndInv
    BY DEF PassInv
  <2> QED BY <1>10, <2>1, <2>2, PassQuiet DEF CloseDir, InRecord
<1> QED
  BY <1>1, <1>2, <1>3, <1>4, <1>5, <1>6, <1>7, <1>8, <1>9, <1>10 DEF Process

LEMMA PassStep ==
    ASSUME TypeInv, PassInv, [Next]_vars
    PROVE  PassInv'
<1>1. CASE Process
  BY <1>1, ProcessPass
<1>2. CASE Kernel
  BY <1>2, HotplugPass DEF Kernel
<1>3. CASE UNCHANGED vars
  BY <1>3 DEF vars, proc, kernel, PassInv, BufInv, ShownInv, CoverInv, EndInv, CountInv,
              InRecord, Met, Steady, Seen, Entries
<1> QED BY <1>1, <1>2, <1>3 DEF Next, Finished

THEOREM PassInvariant == Spec => [](TypeInv /\ PassInv)
<1>1. Init => TypeInv /\ PassInv
  BY InitType, PassInit
<1>2. TypeInv /\ PassInv /\ [Next]_vars => (TypeInv /\ PassInv)'
  BY TypeStep, PassStep
<1> QED BY <1>1, <1>2, PTL DEF Spec

-----------------------------------------------------------------------------
(* The answer. *)

\* In the end the steady disks that the argument begins have been shown, all
\* of them once, and nothing was shown that was never there.
LEMMA EndShown ==
    ASSUME TypeInv, PassInv, pc = "closedir" \/ (pc = "done" /\ cursor # 0)
    PROVE  /\ \A n \in BeginsWith[asked] : Steady(n) => Seen(n)
           /\ \A i \in DOMAIN details :
                  details[i].entry \in BeginsWith[asked] /\ Met(details[i].entry)
           /\ \A i, j \in DOMAIN details :
                  details[i].entry = details[j].entry => i = j
<1>1. \A n \in BeginsWith[asked] : Steady(n) => Seen(n)
  BY DEF PassInv, CoverInv, EndInv, InRecord
<1>2. ASSUME NEW i \in DOMAIN details, NEW j \in DOMAIN details, i < j
      PROVE  details[i].entry # details[j].entry
  BY <1>2, Orders DEF PassInv, ShownInv
<1>3. \A i, j \in DOMAIN details : i < j \/ j < i \/ i = j
  BY Orders
<1> QED BY <1>1, <1>2, <1>3 DEF PassInv, ShownInv

\* `No Valid Device found' is said only if the argument begins no steady disk or
\* several, or one of those came or went; and details without this message stand
\* for one disk.
THEOREM AnswerIsTrue == Spec => []AnswerFits
<1>1. TypeInv /\ PassInv => AnswerFits
  <2> DEFINE S == {n \in BeginsWith[asked] : Steady(n)}
             T == BeginsWith[asked] \cap touched
  <2> SUFFICES ASSUME TypeInv, PassInv, pc = "done", cursor # 0
               PROVE  /\ result = "1" => Cardinality(S) <= 1 /\ S \cup T # {}
                      /\ result = "ENODEV" => Cardinality(S) # 1 \/ T # {}
    BY DEF AnswerFits
  <2>1. /\ \A n \in S : Seen(n)
        /\ \A i \in DOMAIN details : details[i].entry \in S \cup T
        /\ \A i, j \in DOMAIN details : details[i].entry = details[j].entry => i = j
    BY EndShown DEF Met, Steady
  <2>2. /\ DOMAIN details = 1 .. count /\ count \in Nat
        /\ result = "1" => count = 1
        /\ result = "ENODEV" => count # 1
    BY Orders DEF PassInv, CountInv
  <2> HIDE DEF S, T
  <2>3. ASSUME result = "1" PROVE Cardinality(S) <= 1 /\ S \cup T # {}
    <3>1. DOMAIN details = {1}
      BY <2>2, <2>3
    <3>2. S \subseteq {details[1].entry} /\ S \cup T # {}
      BY <2>1, <3>1 DEF Seen
    <3>3. S = {} \/ S = {details[1].entry}
      BY <3>2
    <3>4. S = {} => Cardinality(S) = 0
      BY FS_EmptySet, Zenon
    <3>5. S = {details[1].entry} => Cardinality(S) = 1
      BY FS_Singleton, Zenon
    <3> QED BY <3>2, <3>3, <3>4, <3>5
  <2>4. ASSUME result = "ENODEV", Cardinality(S) = 1, T = {} PROVE FALSE
    <3>1. IsFiniteSet(S)
      <4> DEFINE Shown == {details[i].entry : i \in 1 .. count}
                 f == [i \in 1 .. count |-> details[i].entry]
      <4>1. IsFiniteSet(1 .. count)
        <5>1. 1 \in Int /\ count \in Int
          BY <2>2
        <5> QED BY <5>1, FS_Interval
      <4>2. f \in Surjection(1 .. count, Shown)
        BY DEF Surjection
      <4>3. S \subseteq Shown
        BY <2>1, <2>2 DEF Seen
      <4> HIDE DEF f, Shown
      <4>4. IsFiniteSet(Shown)
        BY <4>1, <4>2, FS_Surjection
      <4> QED BY <4>3, <4>4, FS_Subset
    <3>2. PICK x : S = {x}
      <4>1. \E x : S = {x}
        BY <2>4, <3>1, FS_Singleton, Zenon
      <4> QED BY <4>1
    <3>3. PICK i \in DOMAIN details : details[i].entry = x
      BY <2>1, <3>2 DEF Seen
    <3>4. \A j \in DOMAIN details : j = i
      BY <2>1, <2>4, <3>2, <3>3
    <3>5. count >= 1 /\ 1 \in 1 .. count /\ count \in 1 .. count
      BY <2>2, <3>3
    <3>6. count = 1
      BY <2>2, <3>4, <3>5
    <3> QED BY <2>2, <2>4, <3>6
  <2> QED BY <2>3, <2>4
<1> QED BY <1>1, PassInvariant, PTL

-----------------------------------------------------------------------------
(* ShowDisk implements Enumeration. *)

LEMMA EnumInit == Init => Enum!Init
BY DEF Init, Enum!Init, Status, SteadyWanted, ShownNames, InPass

\* The details that are printed are of an entry that was not shown before.
LEMMA EnumShow ==
    ASSUME TypeInv, PassInv, PrintDetails
    PROVE  [Enum!Next]_Enum!vars
<1>1. /\ pc = "print" /\ pc' = "readdir" /\ entry \in Name /\ UNCHANGED <<kernel, asked>>
  BY DEF PrintDetails, TypeInv, ControlOK
<1>2. Status = "open" /\ Status' = "open" /\ SteadyWanted' = SteadyWanted
  BY <1>1 DEF Status, InPass, SteadyWanted, Steady, Entries, kernel
<1>3. /\ DOMAIN details' = 1 .. (Len(details) + 1)
      /\ \A i \in DOMAIN details : details'[i] = details[i]
      /\ details'[Len(details) + 1].entry = entry
  <2> DEFINE new == [entry |-> entry, val |-> val]
  <2>1. /\ details \in Seq([entry : Name, val : Values])
        /\ new \in [entry : Name, val : Values]
        /\ details' = Append(details, new)
        /\ new.entry = entry
    BY <1>1 DEF TypeInv, TypeOK, PrintDetails
  <2> HIDE DEF new
  <2>2. /\ Len(details') = Len(details) + 1
        /\ \A i \in 1 .. Len(details) : details'[i] = details[i]
        /\ details'[Len(details) + 1] = new
    BY <2>1, AppendProperties
  <2>3. details' \in Seq([entry : Name, val : Values])
    BY <2>1, AppendProperties
  <2> QED BY <2>1, <2>2, <2>3, LenProperties
<1>4. /\ ShownNames \in Seq(Name) /\ DOMAIN ShownNames = DOMAIN details
      /\ \A i \in DOMAIN details : ShownNames[i] = details[i].entry
      /\ Len(ShownNames) = Len(details) /\ Len(details) \in Nat
      /\ DOMAIN details = 1 .. Len(details)
  <2>1. DOMAIN details = 1 .. Len(details) /\ Len(details) \in Nat
        /\ \A i \in DOMAIN details : details[i].entry \in Name
    BY Orders
  <2> QED BY <2>1 DEF ShownNames
<1>5. ShownNames' = [i \in 1 .. (Len(details) + 1) |->
                        IF i = Len(details) + 1 THEN entry ELSE ShownNames[i]]
  <2>1. \A i \in DOMAIN details' :
           details'[i].entry = IF i = Len(details) + 1 THEN entry ELSE ShownNames[i]
    BY <1>3, <1>4
  <2> QED BY <1>3, <2>1 DEF ShownNames
<1>6. ShownNames' = Append(ShownNames, entry)
  <2>1. /\ Append(ShownNames, entry) \in Seq(Name)
        /\ Len(Append(ShownNames, entry)) = Len(details) + 1
        /\ \A i \in 1 .. (Len(details) + 1) :
              Append(ShownNames, entry)[i] =
                 IF i = Len(details) + 1 THEN entry ELSE ShownNames[i]
    BY <1>1, <1>4, AppendProperties
  <2>2. /\ ShownNames' \in Seq(Name)
        /\ Len(ShownNames') = Len(details) + 1
    <3> DEFINE e(i) == IF i = Len(details) + 1 THEN entry ELSE ShownNames[i]
    <3>1. Len(details) + 1 \in Nat
      BY <1>4
    <3>2. \A i \in 1 .. (Len(details) + 1) : e(i) \in Name
      BY <1>1, <1>4, ElementOfSeq
    <3>3. ShownNames' = [i \in 1 .. (Len(details) + 1) |-> e(i)]
      BY <1>5
    <3> HIDE DEF e
    <3>4. ShownNames' \in Seq(Name)
      BY <3>1, <3>2, <3>3
    <3> QED BY <3>1, <3>3, <3>4, LenProperties
  <2>3. \A i \in 1 .. Len(ShownNames') : ShownNames'[i] = Append(ShownNames, entry)[i]
    BY <1>5, <2>1, <2>2
  <2> QED BY <2>1, <2>2, <2>3, SeqEqual
<1>7. entry \notin Enum!Members(ShownNames)
  <2>1. \A i \in DOMAIN details : details[i].entry # entry
    BY <1>1, Orders DEF PassInv, ShownInv, InRecord
  <2> QED BY <1>4, <2>1 DEF Enum!Members
<1> QED BY <1>1, <1>2, <1>6, <1>7 DEF Enum!Next, Enum!Show

LEMMA EnumStep ==
    ASSUME TypeInv, PassInv, TypeInv', PassInv', [Next]_vars
    PROVE  [Enum!Next]_Enum!vars
<1>1. CASE OpenDirFails
  BY <1>1 DEF OpenDirFails, Status, SteadyWanted, ShownNames, InPass, Enum!vars
<1>2. CASE OpenDir
  <2>1. /\ Status = "idle" /\ Status' = "open" /\ SteadyWanted' \subseteq Name
    BY <1>2, RequestsAssumption DEF OpenDir, Status, SteadyWanted, InPass, Steady, Entries
  <2>2. ShownNames' = <<>>
    BY <1>2 DEF OpenDir, ShownNames, TypeInv, ControlOK
  <2> QED BY <2>1, <2>2 DEF Enum!Next, Enum!Begin
<1>3. CASE GetdentsReturn
  <2>1. /\ pc = "getdents" /\ pc' \in {"closedir", "readdir"}
        /\ UNCHANGED <<kernel, asked, details>>
    BY <1>3 DEF GetdentsReturn
  <2>2. Status = "open" /\ SteadyWanted' = SteadyWanted /\ ShownNames' = ShownNames
    BY <2>1 DEF Status, SteadyWanted, Steady, Entries, kernel, InPass, ShownNames
  <2>3. CASE pc' = "readdir"
    BY <2>2, <2>3 DEF Status, InPass, Enum!vars
  <2>4. CASE pc' = "closedir"
    <3>1. Status' = "complete"
      BY <2>4 DEF Status
    <3>2. (\A n \in BeginsWith[asked] : Steady(n) => Seen(n))'
      BY <2>4 DEF PassInv, CoverInv, EndInv, InRecord
    <3>3. \A n \in SteadyWanted' : \E i \in DOMAIN details' : details'[i].entry = n
      BY <3>2 DEF SteadyWanted, Seen
    <3>4. SteadyWanted' \subseteq Enum!Members(ShownNames)
      BY <2>1, <3>3 DEF Enum!Members, ShownNames
    <3> QED BY <2>2, <3>1, <3>4 DEF Enum!Next, Enum!Complete
  <2> QED BY <2>1, <2>3, <2>4
<1>4. CASE GetdentsEmit \/ Refill \/ SkipEntry \/ TakeEntry \/ ReadFile
  <2>1. /\ pc \in InPass \ {"closedir"} /\ pc' \in InPass \ {"closedir"}
        /\ UNCHANGED <<kernel, asked, details>>
    BY <1>4 DEF GetdentsEmit, Refill, SkipEntry, TakeEntry, ReadFile, Advance, InPass
  <2> QED BY <2>1 DEF Status, SteadyWanted, Steady, Entries, kernel, ShownNames, Enum!vars
<1>5. CASE ReadCrashes
  <2>1. /\ pc \in InPass \ {"closedir"} /\ pc' \notin InPass /\ UNCHANGED details
    BY <1>5 DEF ReadCrashes, InPass
  <2> QED BY <2>1 DEF Status, SteadyWanted, ShownNames, Enum!Next, Enum!Abort, InPass
<1>6. CASE PrintDetails
  BY <1>6, EnumShow
<1>7. CASE CloseDir
  <2>1. pc = "closedir" /\ pc' \notin InPass /\ UNCHANGED details
    BY <1>7 DEF CloseDir, InPass
  <2> QED BY <2>1 DEF Status, SteadyWanted, ShownNames, Enum!Next, Enum!Close, InPass
<1>8. CASE Kernel
  <2>1. UNCHANGED <<pc, asked, details>>
    BY <1>8 DEF Kernel, proc
  <2>2. Status' = Status /\ ShownNames' = ShownNames
    BY <2>1 DEF Status, ShownNames
  <2>3. SteadyWanted' \subseteq SteadyWanted
    <3>1. \A n \in BeginsWith[asked] : Steady(n)' => Steady(n)
      BY <1>8, HotplugStep, Orders DEF Kernel
    <3> QED BY <2>1, <3>1 DEF SteadyWanted
  <2>4. CASE pc \in InPass
    <3>1. Status \in {"open", "complete"}
      BY <2>4 DEF Status, InPass
    <3> QED BY <2>2, <2>3, <3>1 DEF Enum!Next, Enum!Disturb
  <2>5. CASE pc \notin InPass
    BY <2>1, <2>2, <2>5 DEF SteadyWanted, Enum!vars
  <2> QED BY <2>4, <2>5
<1>9. CASE UNCHANGED vars
  BY <1>9 DEF vars, kernel, proc, Status, SteadyWanted, Steady, Entries, ShownNames, Enum!vars
<1> QED
  BY <1>1, <1>2, <1>3, <1>4, <1>5, <1>6, <1>7, <1>8, <1>9 DEF Next, Process, Finished

\* The pass of show disk is an enumeration of the entries that its argument
\* begins, through every step of the program and the kernel.
THEOREM ImplementsEnumeration == Spec => EnumeratesEntries
BY PassInvariant, EnumInit, EnumStep, PTL
   DEF Spec, EnumeratesEntries, Enum!Spec

=============================================================================
