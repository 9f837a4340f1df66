--------------------------- MODULE DispatchProofs ---------------------------
(***************************************************************************)
(* Theorems about Dispatch, for any set of command lines.                  *)
(*                                                                         *)
(* The strengthening has a part for each question: what is still untouched *)
(* before a command is chosen (Untouched), what each value of ret says     *)
(* (RetInv), who owns the record (InfoInv), and how far the six listings   *)
(* have come (FallbackInv).                                                *)
(***************************************************************************)
EXTENDS Dispatch, TLAPS, SequenceTheorems

\* The command lines of the six listings.
Fallback == argv.cmd \in {"list", "show", "reset", "stats"} /\ argv.sub = "none"

Untouched ==
    said = {} /\ done = <<>> /\ info = "none" /\ written = "no" /\ ret = "0"

ControlInv ==
    /\ pc \in {"main", "handle"} => sdev = "none"
    /\ pc \in {"parse", "cmd", "list"} => sdev = "live"
    /\ pc \in {"main", "handle", "parse", "cmd"} => Untouched
    /\ pc = "cmd" => argv.cmd \in Cmds
    /\ pc = "collect" => argv.cmd \in {"show", "stats"} /\ ValidSub
    /\ pc = "reset" => /\ argv.cmd = "reset" /\ argv.sub = "adapter"
                       /\ argv.dev = "hostN" /\ ~argv.dashes
                       /\ info = "none" /\ done = <<>> /\ written = "no"
    /\ pc = "list" => info = "none"
    /\ pc \in {"list", "collect", "reset"} => ret \notin {"EAGAIN", "ENOENT"}
    /\ pc = "exit" => status = IF ret = "0" THEN "0" ELSE "1"

\* EAGAIN and ENOENT come before anything has been done, a positive value only
\* after something has, and after handle_cmd() every other failure is explained.
RetInv ==
    /\ ret \in {"EAGAIN", "ENOENT"} =>
           done = <<>> /\ info = "none" /\ written = "no" /\ pc = "report"
    /\ ret = "positive" => done # <<>>
    /\ pc \in {"free", "exit"} /\ ret # "0" /\ said = {} =>
           done # <<>> \/ sdev = "none"
    /\ said \cap {"no command", "no sub-command"} # {} =>
           /\ done = <<>> /\ info = "none" /\ written = "no"
           /\ pc \in {"free", "exit"} /\ ret = "EINVAL"

InfoInv ==
    /\ pc = "collect" => info = "live"
    /\ info = "live" /\ pc # "collect" =>
           pc \in {"report", "free", "exit"} /\ argv.cmd = "show" /\ Failed(ret)
    /\ pc = "exit" => sdev # "live"

\* The first n of the six have been performed, and the others are waiting.
Performed(n) ==
    /\ Len(done) = n
    /\ \A i \in 1..n : done[i] = [what |-> "list", on |-> SixListings[i]]

Waiting(n) ==
    /\ Len(queue) = 6 - n
    /\ \A i \in 1..(6 - n) : queue[i] = SixListings[n + i]

FallbackInv ==
    Fallback =>
        /\ pc \in {"list", "report", "free", "exit"} /\ sdev # "none" =>
               written = "no" /\ info = "none" /\ said = {}
        /\ pc = "list" => /\ ret = "0" /\ sdev # "none"
                          /\ \E n \in 0..6 : Performed(n) /\ Waiting(n)
        /\ pc \in {"report", "free", "exit"} /\ sdev # "none" =>
               ret = "0" /\ Performed(6)

Inv == ControlInv /\ RetInv /\ InfoInv /\ FallbackInv

-----------------------------------------------------------------------------
(* The tables. *)

LEMMA Tables ==
    /\ SubsOf["list"] = {"cd-rom", "tape", "medium-changer", "enclosure",
                         "fc_hba", "iscsi", "disk", "controller", "generic",
                         "multipath"}
    /\ SubsOf["show"] = {"disk", "fc_port", "iscsi"}
    /\ SubsOf["scan"] = {"block", "fc_hba"}
    /\ SubsOf["reset"] = {"adapter", "port", "issue_logo", "issue_lip"}
    /\ SubsOf["stats"] = {"disk", "fc_port"}
    /\ \A c \in {"alias", "errors", "online", "offline"} : SubsOf[c] = {}
BY DEF SubsOf, Cmds

LEMMA SubsOfSubs == \A c \in Cmds : SubsOf[c] \subseteq Subs /\ "none" \notin SubsOf[c]
<1>1. \A c \in Cmds : SubsOf[c] \subseteq Subs
  BY DEF Subs
<1>2. \A c \in Cmds : "none" \notin SubsOf[c]
  BY Tables DEF Cmds
<1> QED BY <1>1, <1>2

LEMMA ListResultsType ==
    \A l \in SubsOf["list"] :
        ListResults[l] \subseteq Rets \ {"EAGAIN", "ENOENT"}
BY Tables DEF ListResults, Rets

LEMMA ShowResultsType ==
    \A s \in SubsOf["show"] : ShowResults[s] \subseteq Rets \ {"EAGAIN", "ENOENT"}
BY Tables DEF ShowResults, Rets

LEMMA StatsResultsType ==
    \A s \in SubsOf["stats"] : StatsResults[s] \subseteq Rets
BY Tables DEF StatsResults, Rets

LEMMA SixListingsType ==
    /\ SixListings \in Seq(SubsOf["list"])
    /\ Len(SixListings) = 6
    /\ DOMAIN SixListings = 1..6
BY Tables DEF SixListings

LEMMA ArgvType ==
    ASSUME argv \in Argvs
    PROVE  /\ argv.dashes \in BOOLEAN
           /\ argv.cmd \in Cmds \cup {"help", "version", "other", "none"}
           /\ argv.sub \in Subs \cup {"none"}
           /\ argv.dev \in {"none", "hostN", "host", "name"}
           /\ argv.sub = "none" => argv.dev = "none"
BY ArgvsAssumption DEF ArgvSpace

-----------------------------------------------------------------------------
(* The type invariant. *)

LEMMA OneElement == ASSUME NEW S, NEW x \in S PROVE <<x>> \in Seq(S)
OBVIOUS

LEMMA AppendCall ==
    ASSUME done \in Seq(Calls), NEW w \in {"list", "show", "stats", "write"},
           NEW s \in Subs, done' = Append(done, [what |-> w, on |-> s])
    PROVE  /\ done' \in Seq(Calls)
           /\ done' # <<>>
           /\ Len(done') = Len(done) + 1
           /\ \A i \in 1..Len(done) : done'[i] = done[i]
           /\ done'[Len(done) + 1] = [what |-> w, on |-> s]
<1>1. [what |-> w, on |-> s] \in Calls
  BY DEF Calls
<1> DEFINE new == [what |-> w, on |-> s]
<1>2. new \in Calls /\ new.on = s /\ done' = Append(done, new)
  BY <1>1
<1> HIDE DEF new
<1>3. /\ done' \in Seq(Calls)
      /\ Len(done') = Len(done) + 1
      /\ \A i \in 1..Len(done) : done'[i] = done[i]
      /\ done'[Len(done) + 1] = new
  BY <1>2, AppendProperties
<1>4. done' # <<>>
  BY <1>2, AppendProperties
<1> QED BY <1>2, <1>3, <1>4

\* A listing takes the first of the queue and appends it to what has been done.
LEMMA ListTakes ==
    ASSUME TypeOK, List
    PROVE  /\ Head(queue) \in SubsOf["list"] /\ Head(queue) \in Subs
           /\ queue' \in Seq(SubsOf["list"])
           /\ done' \in Seq(Calls) /\ done' # <<>>
           /\ ret' \in (Rets \ {"EAGAIN", "ENOENT"}) \cup {ret}
           /\ argv.sub = "none" => ret' = ret
<1>1. queue \in Seq(SubsOf["list"]) /\ queue # <<>> /\ done \in Seq(Calls)
  BY DEF TypeOK, List
<1>2. Head(queue) \in SubsOf["list"] /\ Tail(queue) \in Seq(SubsOf["list"])
  BY <1>1, HeadTailProperties
<1>3. Head(queue) \in Subs
  BY <1>2, SubsOfSubs DEF Cmds
<1>4. done' \in Seq(Calls) /\ done' # <<>>
  BY <1>1, <1>3, AppendCall DEF List
<1>5. /\ ret' \in (Rets \ {"EAGAIN", "ENOENT"}) \cup {ret}
      /\ argv.sub = "none" => ret' = ret
  BY <1>2, ListResultsType DEF List
<1> QED BY <1>2, <1>3, <1>4, <1>5 DEF List

LEMMA InitType == Init => TypeOK
<1>1. ASSUME Init PROVE queue \in Seq(SubsOf["list"]) /\ done \in Seq(Calls)
  BY <1>1, EmptySeq DEF Init
<1> QED BY <1>1 DEF Init, TypeOK, PCs, Rets

LEMMA TypeStep ==
    ASSUME TypeOK, Inv, [Next]_vars
    PROVE  TypeOK'
<1>1. CASE UNCHANGED vars
  BY <1>1 DEF vars, TypeOK
<1> USE DEF TypeOK, PCs, Rets, Messages
<1>2. CASE Main \/ NoMemory \/ HandleCmd \/ ParseCmd
  BY ZenonT(40), <1>2 DEF Main, NoMemory, HandleCmd, ParseCmd, Say, Return
<1>3. CASE RejectSub \/ Unsupported \/ NoDevice \/ BadAdapter \/ CmdReset
  BY ZenonT(40), <1>3 DEF RejectSub, BadSub, Unsupported, NoDevice, BadAdapter, CmdReset,
              Say, Return
<1>4. CASE HandleCmdErrors
  BY <1>4, SixListingsType DEF HandleCmdErrors
<1>5. CASE CmdList
  <2>1. argv.sub \in SubsOf["list"] /\ queue' = <<argv.sub>>
    BY <1>5 DEF CmdList, ValidSub
  <2>2. queue' \in Seq(SubsOf["list"])
    BY <2>1, OneElement
  <2> QED BY <1>5, <2>2 DEF CmdList
<1>6. CASE List
  BY ZenonT(40), <1>6, ListTakes DEF List
<1>7. CASE ListEnd \/ AllocInfo \/ AllocInfoFails \/ FcHbaResetNoFile
  BY ZenonT(40), <1>7 DEF ListEnd, AllocInfo, AllocInfoFails, FcHbaResetNoFile, Return
<1>8. CASE CmdShow
  <2>1. argv.sub \in SubsOf["show"] /\ argv.sub \in Subs
    BY <1>8, SubsOfSubs DEF CmdShow, Inv, ControlInv, ValidSub, Cmds
  <2>2. ret' \in Rets
    BY <1>8, <2>1, ShowResultsType DEF CmdShow, Return
  <2>3. done' \in Seq(Calls)
    BY <1>8, <2>1, AppendCall DEF CmdShow
  <2> QED BY <1>8, <2>2, <2>3 DEF CmdShow, Return
<1>9. CASE CmdStats
  <2>1. argv.sub \in Subs
    BY <1>9, SubsOfSubs DEF CmdStats, Inv, ControlInv, ValidSub, Cmds
  <2>2. done' \in Seq(Calls)
    BY <1>9, <2>1, AppendCall DEF CmdStats
  <2> QED BY <1>9, <2>2 DEF CmdStats, Return, Say
<1>10. CASE FcHbaReset
  <2>1. argv.sub \in Subs
    BY <1>10, SubsOfSubs, Tables DEF FcHbaReset, Inv, ControlInv, Cmds
  <2>2. done' \in Seq(Calls)
    BY <1>10, <2>1, AppendCall DEF FcHbaReset
  <2> QED BY <1>10, <2>2 DEF FcHbaReset, Return, Say
<1>11. CASE Report
  BY <1>11 DEF Report, Say
<1>12. CASE Exit
  BY <1>12 DEF Exit
<1> QED
  BY <1>1, <1>2, <1>3, <1>4, <1>5, <1>6, <1>7, <1>8, <1>9, <1>10, <1>11, <1>12
     DEF Next, Step, Finished


-----------------------------------------------------------------------------
(* The strengthening, one part at a time. *)

LEMMA InitInv == Init => Inv
BY DEF Init, Inv, ControlInv, Untouched, RetInv, InfoInv, FallbackInv, Failed

LEMMA ControlStep ==
    ASSUME TypeOK, Inv, [Next]_vars
    PROVE  ControlInv'
<1> USE DEF Inv, ControlInv, Untouched, ValidSub
<1>1. CASE UNCHANGED vars
  BY <1>1 DEF vars
<1>2. CASE Main \/ NoMemory \/ HandleCmd \/ ParseCmd
  BY <1>2 DEF Main, NoMemory, HandleCmd, ParseCmd, Say, Return
<1>3. CASE RejectSub \/ Unsupported \/ NoDevice \/ BadAdapter
  BY <1>3 DEF RejectSub, BadSub, Unsupported, NoDevice, BadAdapter, Return
<1>4. CASE HandleCmdErrors \/ CmdList \/ ListEnd
  BY <1>4 DEF HandleCmdErrors, CmdList, ListEnd
<1>5. CASE List
  BY <1>5, ListTakes DEF List
<1>6. CASE AllocInfo \/ AllocInfoFails
  BY <1>6 DEF AllocInfo, AllocInfoFails, Return
<1>7. CASE CmdShow \/ CmdStats
  BY <1>7 DEF CmdShow, CmdStats, Return
<1>8. CASE CmdReset
  BY <1>8 DEF CmdReset, Return
<1>9. CASE FcHbaReset \/ FcHbaResetNoFile
  BY <1>9 DEF FcHbaReset, FcHbaResetNoFile, Return
<1>10. CASE Report \/ Exit
  BY <1>10 DEF Report, Exit
<1> QED
  BY <1>1, <1>2, <1>3, <1>4, <1>5, <1>6, <1>7, <1>8, <1>9, <1>10
     DEF Next, Step, Finished

LEMMA RetStep ==
    ASSUME TypeOK, Inv, [Next]_vars
    PROVE  RetInv'
<1> USE DEF Inv, RetInv
<1>1. CASE UNCHANGED vars
  BY <1>1 DEF vars
<1>2. CASE Main \/ NoMemory \/ HandleCmd \/ ParseCmd
  BY <1>2, ArgvType
     DEF Main, NoMemory, HandleCmd, ParseCmd, Say, Return, ControlInv, Untouched, TypeOK
<1>3. CASE RejectSub \/ Unsupported \/ NoDevice \/ BadAdapter
  BY <1>3 DEF RejectSub, BadSub, Unsupported, NoDevice, BadAdapter, Say, Return,
              ControlInv, Untouched
<1>4. CASE HandleCmdErrors \/ CmdList \/ ListEnd
  BY <1>4 DEF HandleCmdErrors, CmdList, ListEnd, ControlInv
<1>5. CASE List
  BY <1>5, ListTakes DEF List
<1>6. CASE AllocInfo \/ AllocInfoFails
  BY <1>6 DEF AllocInfo, AllocInfoFails, Return, ControlInv, Untouched
<1>7. CASE CmdShow
  <2>1. done \in Seq(Calls) /\ argv.sub \in SubsOf["show"] /\ argv.sub \in Subs
    BY <1>7, SubsOfSubs DEF TypeOK, CmdShow, ControlInv, ValidSub, Cmds
  <2>2. done' # <<>>
    BY <1>7, <2>1, AppendCall DEF CmdShow
  <2>3. ret' \notin {"EAGAIN", "ENOENT"}
    BY <1>7, <2>1, ShowResultsType DEF CmdShow, Return
  <2> QED BY <1>7, <2>2, <2>3 DEF CmdShow, Return
<1>8. CASE CmdStats
  BY <1>8 DEF CmdStats, Return, Say
<1>9. CASE CmdReset
  BY <1>9 DEF CmdReset, Return, ControlInv, Untouched
<1>10. CASE FcHbaReset \/ FcHbaResetNoFile
  BY <1>10 DEF FcHbaReset, FcHbaResetNoFile, Return, Say
<1>11. CASE Report
  BY <1>11 DEF Report, Say, Failed, TypeOK, Rets
<1>12. CASE Exit
  BY <1>12 DEF Exit
<1> QED
  BY <1>1, <1>2, <1>3, <1>4, <1>5, <1>6, <1>7, <1>8, <1>9, <1>10, <1>11, <1>12
     DEF Next, Step, Finished

LEMMA InfoStep ==
    ASSUME TypeOK, Inv, [Next]_vars
    PROVE  InfoInv'
<1> USE DEF Inv, InfoInv, Failed
<1>1. CASE UNCHANGED vars
  BY <1>1 DEF vars
<1>2. CASE Main \/ NoMemory \/ HandleCmd \/ ParseCmd
  BY <1>2 DEF Main, NoMemory, HandleCmd, ParseCmd, Say, Return, ControlInv, Untouched
<1>3. CASE RejectSub \/ Unsupported \/ NoDevice \/ BadAdapter \/ CmdReset
  BY <1>3 DEF RejectSub, BadSub, Unsupported, NoDevice, BadAdapter, CmdReset,
              Return, ControlInv, Untouched
<1>4. CASE HandleCmdErrors \/ CmdList \/ List \/ ListEnd
  BY <1>4 DEF HandleCmdErrors, CmdList, List, ListEnd, ControlInv, Untouched
<1>5. CASE AllocInfo \/ AllocInfoFails
  BY <1>5 DEF AllocInfo, AllocInfoFails, Return, ControlInv, Untouched
<1>6. CASE CmdShow \/ CmdStats
  BY <1>6 DEF CmdShow, CmdStats, Return
<1>7. CASE FcHbaReset \/ FcHbaResetNoFile
  BY <1>7 DEF FcHbaReset, FcHbaResetNoFile, Return, ControlInv
<1>8. CASE Report \/ Exit
  BY <1>8 DEF Report, Exit
<1> QED
  BY <1>1, <1>2, <1>3, <1>4, <1>5, <1>6, <1>7, <1>8 DEF Next, Step, Finished

\* One listing more has been performed, and one less is waiting.
LEMMA ListAdvances ==
    ASSUME TypeOK, List, NEW n \in 0..6, Performed(n), Waiting(n)
    PROVE  n + 1 \in 0..6 /\ Performed(n + 1)' /\ Waiting(n + 1)'
<1>1. queue \in Seq(SubsOf["list"]) /\ queue # <<>> /\ done \in Seq(Calls)
  BY DEF TypeOK, List
<1>2. Len(queue) \in Nat \ {0} /\ Head(queue) = queue[1]
  BY <1>1, EmptySeq, LenProperties
<1>3. n + 1 \in 0..6
  BY <1>2 DEF Waiting
<1>4. /\ Len(Tail(queue)) = Len(queue) - 1
      /\ \A i \in 1..(Len(queue) - 1) : Tail(queue)[i] = queue[i + 1]
  BY <1>1, <1>2, HeadTailProperties
<1>5. Waiting(n + 1)'
  <2>1. queue' = Tail(queue)
    BY DEF List
  <2> QED BY <1>2, <1>3, <1>4, <2>1 DEF Waiting
<1>6. /\ Len(done') = Len(done) + 1
      /\ \A i \in 1..Len(done) : done'[i] = done[i]
      /\ done'[Len(done) + 1] = [what |-> "list", on |-> Head(queue)]
  BY <1>1, ListTakes, AppendCall DEF List
<1>7. Head(queue) = SixListings[n + 1]
  BY <1>2, <1>3 DEF Waiting
<1>8. Performed(n + 1)'
  BY <1>3, <1>6, <1>7 DEF Performed
<1> QED BY <1>3, <1>5, <1>8

LEMMA FallbackStep ==
    ASSUME TypeOK, Inv, [Next]_vars
    PROVE  FallbackInv'
<1> SUFFICES ASSUME Fallback' PROVE FallbackInv'
  BY DEF FallbackInv
<1>0. Fallback /\ argv \in Argvs /\ argv' = argv
  BY DEF Next, Step, Finished, vars, TypeOK, Fallback, Main, NoMemory, HandleCmd,
         ParseCmd, RejectSub, BadSub, HandleCmdErrors, Unsupported, NoDevice,
         CmdList, List, ListEnd, AllocInfo, AllocInfoFails, CmdShow, CmdStats,
         BadAdapter, CmdReset, FcHbaResetNoFile, FcHbaReset, Report, Exit
<1>00. argv.dev = "none" /\ argv.sub = "none" /\ ~ValidSub
  BY <1>0, ArgvType, SubsOfSubs DEF Fallback, ValidSub, Cmds
<1> USE DEF Inv, FallbackInv
<1>1. CASE UNCHANGED vars
  BY <1>1 DEF vars, Fallback, Performed, Waiting
<1>2. CASE Main \/ NoMemory \/ HandleCmd \/ ParseCmd
  BY <1>2, <1>0 DEF Main, NoMemory, HandleCmd, ParseCmd, Fallback, ControlInv, Cmds
<1>3. CASE RejectSub \/ Unsupported \/ NoDevice \/ BadAdapter \/ CmdReset
  BY <1>3, <1>0, <1>00
     DEF RejectSub, BadSub, Unsupported, NoDevice, BadAdapter, CmdReset, Fallback
<1>4. CASE HandleCmdErrors
  <2>1. /\ ret' = "0" /\ pc' = "list" /\ queue' = SixListings /\ done' = <<>>
        /\ written' = "no" /\ info' = "none" /\ said' = {} /\ sdev' # "none"
    BY <1>4 DEF HandleCmdErrors, ControlInv, Untouched
  <2>2. Performed(0)' /\ Waiting(0)'
    BY <2>1, SixListingsType, EmptySeq DEF Performed, Waiting
  <2> QED BY <2>1, <2>2
<1>5. CASE CmdList \/ AllocInfo \/ AllocInfoFails
  BY <1>5, <1>00 DEF CmdList, AllocInfo, AllocInfoFails
<1>6. CASE List
  <2>1. PICK n \in 0..6 : Performed(n) /\ Waiting(n)
    BY <1>6, <1>0 DEF List
  <2>2. n + 1 \in 0..6 /\ Performed(n + 1)' /\ Waiting(n + 1)'
    BY <1>6, <2>1, ListAdvances
  <2>3. /\ ret' = "0" /\ pc' = "list" /\ pc = "list"
        /\ UNCHANGED <<written, info, said, sdev>>
    BY <1>6, <1>0, <1>00, ListTakes DEF List
  <2> QED BY <1>0, <2>2, <2>3
<1>7. CASE ListEnd
  <2>1. PICK n \in 0..6 : Performed(n) /\ Waiting(n)
    BY <1>7, <1>0 DEF ListEnd
  <2>2. n = 6
    BY <1>7, <2>1, EmptySeq DEF ListEnd, Waiting
  <2>3. /\ Performed(6)' /\ ret' = "0" /\ pc' = "report" /\ pc = "list"
        /\ UNCHANGED <<written, info, said, sdev>>
    BY <1>7, <1>0, <2>1, <2>2 DEF ListEnd, Performed
  <2> QED BY <1>0, <2>3
<1>8. CASE CmdShow \/ CmdStats \/ FcHbaReset \/ FcHbaResetNoFile
  BY <1>8, <1>00 DEF CmdShow, CmdStats, FcHbaReset, FcHbaResetNoFile, ControlInv
<1>9. CASE Report \/ Exit
  BY <1>9, <1>0 DEF Report, Exit, Failed, Performed
<1> QED
  BY <1>1, <1>2, <1>3, <1>4, <1>5, <1>6, <1>7, <1>8, <1>9 DEF Next, Step, Finished

THEOREM Invariant == Spec => [](TypeOK /\ Inv)
<1>1. Init => TypeOK /\ Inv
  BY InitType, InitInv
<1>2. TypeOK /\ Inv /\ [Next]_vars => (TypeOK /\ Inv)'
  BY TypeStep, ControlStep, RetStep, InfoStep, FallbackStep DEF Inv
<1> QED BY <1>1, <1>2, PTL DEF Spec


-----------------------------------------------------------------------------
(* The properties. *)

\* Every variable of the program keeps its type, for whatever command lines.
THEOREM TypeCorrect == Spec => []TypeOK
BY Invariant, PTL

\* A command line that is refused has listed, allocated and written nothing.
THEOREM RefusalIsClean == Spec => []RefusedHasNoEffect
<1>1. TypeOK /\ Inv => RefusedHasNoEffect
  BY DEF Inv, ControlInv, RetInv, RefusedHasNoEffect
<1> QED BY <1>1, Invariant, PTL

\* Of the records only that of a `show' that failed is left over.
THEOREM NoLeakButFailedShow == Spec => []RecordsReleased
<1>1. TypeOK /\ Inv => RecordsReleased
  BY DEF Inv, ControlInv, InfoInv, RecordsReleased, Failed
<1> QED BY <1>1, Invariant, PTL

\* Without a sub-command the six listings are performed, each once and in order,
\* whichever of them fail, nothing else is done, and the exit status is 0.
THEOREM FallbackComplete == Spec => []FallbackListsSix
<1>1. ASSUME TypeOK, Inv PROVE FallbackListsSix
  <2> SUFFICES ASSUME pc = "exit", Fallback, sdev # "none"
               PROVE  /\ done = [i \in 1 .. 6 |->
                                    [what |-> "list", on |-> SixListings[i]]]
                      /\ written = "no" /\ info = "none" /\ said = {}
                      /\ status = "0"
    BY DEF FallbackListsSix, Fallback
  <2>1. /\ status = "0" /\ Performed(6)
        /\ written = "no" /\ info = "none" /\ said = {}
    BY <1>1 DEF Inv, ControlInv, FallbackInv
  <2>2. DOMAIN done = 1..6 /\ done = [i \in DOMAIN done |-> done[i]]
    BY <1>1, <2>1, LenProperties DEF Performed, TypeOK
  <2>3. done = [i \in 1 .. 6 |-> [what |-> "list", on |-> SixListings[i]]]
    BY <2>1, <2>2 DEF Performed
  <2> QED BY <2>1, <2>3
<1> QED BY <1>1, Invariant, PTL

\* An exit status of 1 without a word comes after the work was done, or when
\* there was no memory to begin with.
THEOREM SilentOneIsDone == Spec => []SilentOneMeansDone
<1>1. TypeOK /\ Inv => SilentOneMeansDone
  BY DEF Inv, ControlInv, RetInv, SilentOneMeansDone
<1> QED BY <1>1, Invariant, PTL

\* A call that is performed is the one that is appended, and only a write writes.
LEMMA CallWrites ==
    ASSUME TypeOK, NEW w \in {"list", "show", "stats"}, NEW s \in Subs,
           done' = Append(done, [what |-> w, on |-> s]), UNCHANGED written
    PROVE  ~Writes
<1>1. /\ Len(done') = Len(done) + 1 /\ Len(done) \in Nat
      /\ done'[Len(done) + 1] = [what |-> w, on |-> s]
      /\ DOMAIN done = 1 .. Len(done) /\ DOMAIN done' = 1 .. Len(done')
  BY AppendCall, LenProperties DEF TypeOK
<1>2. DOMAIN done' \ DOMAIN done = {Len(done) + 1}
  BY <1>1
<1>3. [what |-> w, on |-> s].what = w
  OBVIOUS
<1> QED BY <1>1, <1>2, <1>3 DEF Writes

\* Whatever the command line, the program writes to sysfs only for a reset of
\* an adapter that was asked for by the name of a host, and it writes once.
THEOREM OnlyResetWrites == Spec => WritesOnlyToReset
<1>1. ASSUME TypeOK, Inv, Next
      PROVE  Writes => /\ argv.cmd = "reset" /\ argv.sub = "adapter"
                       /\ argv.dev = "hostN" /\ ~argv.dashes
                       /\ written = "no" /\ done = <<>>
  <2>1. CASE FcHbaReset
    BY <1>1, <2>1 DEF Inv, ControlInv, FcHbaReset
  <2>2. CASE List
    <3>1. Head(queue) \in Subs
      BY <1>1, <2>2, ListTakes
    <3> QED BY <1>1, <2>2, <3>1, CallWrites DEF List
  <2>3. CASE CmdShow
    <3>1. argv.sub \in Subs
      BY <1>1, <2>3, SubsOfSubs DEF CmdShow, Inv, ControlInv, ValidSub, Cmds
    <3> QED BY <1>1, <2>3, <3>1, CallWrites DEF CmdShow
  <2>4. CASE CmdStats
    <3>1. argv.sub \in Subs
      BY <1>1, <2>4, SubsOfSubs DEF CmdStats, Inv, ControlInv, ValidSub, Cmds
    <3>2. CASE done' = done
      BY <2>4, <3>2 DEF CmdStats, Writes
    <3>3. CASE done' = Append(done, [what |-> "stats", on |-> argv.sub])
      BY <1>1, <2>4, <3>1, <3>3, CallWrites DEF CmdStats
    <3> QED BY <2>4, <3>2, <3>3 DEF CmdStats
  <2>5. CASE ~(FcHbaReset \/ List \/ CmdShow \/ CmdStats)
    <3>1. UNCHANGED <<written, done>>
      BY <1>1, <2>5
         DEF Next, Step, Finished, vars, Main, NoMemory, HandleCmd, ParseCmd,
             RejectSub, BadSub, HandleCmdErrors, Unsupported, NoDevice, CmdList,
             ListEnd, AllocInfo, AllocInfoFails, BadAdapter, CmdReset,
             FcHbaResetNoFile, Report, Exit
    <3> QED BY <3>1 DEF Writes
  <2> QED BY <2>1, <2>2, <2>3, <2>4, <2>5
<1>2. ASSUME TypeOK, Inv, [Next]_vars
      PROVE  [Writes => /\ argv.cmd = "reset" /\ argv.sub = "adapter"
                        /\ argv.dev = "hostN" /\ ~argv.dashes
                        /\ written = "no" /\ done = <<>>]_vars
  BY <1>1, <1>2
<1> QED BY <1>2, Invariant, PTL DEF Spec, WritesOnlyToReset

=============================================================================
