------------------------------ MODULE Dispatch ------------------------------
(***************************************************************************)
(* The command line of scsi-cli: from main() to the exit status, through   *)
(* the tables of commands and sub-commands of scsi_test.c, the nine cmd_*  *)
(* functions, and the one function that writes to sysfs, fc_hba_reset().   *)
(*                                                                         *)
(* What the listings and the detail functions do with devices is left to   *)
(* other modules: here they are calls that return one of their results.    *)
(***************************************************************************)
EXTENDS Naturals, Sequences

CONSTANT Argvs      \* the command lines to consider

Cmds == {"alias", "errors", "list", "online", "offline", "reset", "stats",
         "show", "scan"}

\* sub_cmd_str: the sub-commands a command knows.  Four commands know none.
SubsOf ==
    [c \in Cmds |->
        CASE c = "list"  -> {"cd-rom", "tape", "medium-changer", "enclosure",
                             "fc_hba", "iscsi", "disk", "controller", "generic",
                             "multipath"}
          [] c = "show"  -> {"disk", "fc_port", "iscsi"}
          [] c = "scan"  -> {"block", "fc_hba"}
          [] c = "reset" -> {"adapter", "port", "issue_logo", "issue_lip"}
          [] c = "stats" -> {"disk", "fc_port"}
          [] OTHER       -> {}]

Subs == UNION {SubsOf[c] : c \in Cmds} \cup {"other"}

\* A command line.  "none" is an argument that is not there; "help" and
\* "version" stand for every word that begins with an h or a v, "other" for any
\* word that nothing matches.  A device is "host" followed by something, the bare
\* word "host", or another name.
ArgvSpace ==
    {a \in [dashes : BOOLEAN,
            cmd : Cmds \cup {"help", "version", "other", "none"},
            sub : Subs \cup {"none"},
            dev : {"none", "hostN", "host", "name"}] :
        /\ a.cmd = "none" => a.sub = "none" /\ ~a.dashes
        /\ a.sub = "none" => a.dev = "none"}

ASSUME ArgvsAssumption == Argvs \subseteq ArgvSpace

\* The six listings of handle_cmd_errors(), which a command without a
\* sub-command performs.  Those of CD-ROM drives, tapes and generic devices are
\* not among them, although the manual page of `list' promises `all the devices'.
SixListings ==
    <<"enclosure", "controller", "disk", "multipath", "fc_hba", "iscsi">>

Rets == {"0", "positive", "EINVAL", "EIO", "ENODEV", "ENOSPC", "ENOENT", "EAGAIN"}

Failed(r) == r \notin {"0", "positive"}

\* What a listing may return.  list_fc_adapters() and list_iscsi_devs() return
\* the number of hosts; the former 0 for an empty directory, the latter never.
ListResults ==
    [l \in SubsOf["list"] |->
        CASE l = "fc_hba"                   -> {"0", "positive", "ENODEV"}
          [] l = "iscsi"                    -> {"positive", "ENODEV", "EINVAL"}
          [] l \in {"disk", "enclosure", "generic", "multipath", "cd-rom", "tape"} ->
                 {"0", "ENODEV", "ENOSPC"}
          [] l = "controller"               -> {"0", "ENODEV"}
          [] l = "medium-changer"           -> {"0"}]

\* What collecting the data of a device may return, of `show' and of `stats'.
ShowResults ==
    [s \in SubsOf["show"] |->
        CASE s = "disk"    -> {"positive", "ENODEV"}
          [] s = "fc_port" -> {"0"}
          [] s = "iscsi"   -> {"0", "ENODEV"}]

StatsResults ==
    [s \in SubsOf["stats"] |->
        IF s = "disk" THEN {"0", "positive", "EIO"} ELSE {"0"}]

-----------------------------------------------------------------------------
VARIABLES
    argv,      \* the command line
    pc,        \* where the program is
    ret,       \* the value being returned
    queue,     \* the listings still to perform
    done,      \* the calls performed that show or change something
    sdev,      \* the list head of handle_cmd(): "none", "live" or "freed"
    info,      \* the record of `show' and `stats': likewise
    said,      \* what the user has been told: a set of messages
    written,   \* history: did a write reach the kernel, and was it accepted
    status     \* the exit status, or "none"

vars == <<argv, pc, ret, queue, done, sdev, info, said, written, status>>

Messages == {"help", "version", "unsupported", "give a device", "bad adapter",
             "no statistics", "issued", "no device", "no command",
             "no sub-command", "error"}

Calls == [what : {"list", "show", "stats", "write"}, on : Subs]

PCs == {"main", "handle", "parse", "cmd", "list", "collect", "reset",
        "report", "free", "exit"}

TypeOK ==
    /\ argv \in Argvs
    /\ pc \in PCs
    /\ ret \in Rets
    /\ queue \in Seq(SubsOf["list"])
    /\ done \in Seq(Calls)
    /\ sdev \in {"none", "live", "freed"}
    /\ info \in {"none", "live", "freed"}
    /\ said \subseteq Messages
    /\ written \in {"no", "accepted", "refused"}
    /\ status \in {"none", "0", "1"}

Init ==
    /\ argv \in Argvs
    /\ pc = "main"
    /\ ret = "0"
    /\ queue = <<>>
    /\ done = <<>>
    /\ sdev = "none"
    /\ info = "none"
    /\ said = {}
    /\ written = "no"
    /\ status = "none"

Say(m) == said' = said \cup {m}

Return(r) == ret' = r /\ pc' = "report"

-----------------------------------------------------------------------------
Main ==
    /\ pc = "main"
    /\ IF argv.cmd = "none"
         THEN Say("help") /\ pc' = "exit" /\ status' = "0"
         ELSE pc' = "handle" /\ UNCHANGED <<said, status>>
    /\ UNCHANGED <<argv, ret, queue, done, sdev, info, written>>

NoMemory ==
    /\ pc = "handle"
    /\ ret' = "EINVAL"
    /\ pc' = "free"
    /\ UNCHANGED <<argv, queue, done, sdev, info, said, written, status>>

\* Dashes before the command are skipped.
HandleCmd ==
    /\ pc = "handle"
    /\ sdev' = "live"
    /\ IF argv.cmd \in {"help", "version"}
         THEN Say(argv.cmd) /\ pc' = "free"
         ELSE pc' = "parse" /\ UNCHANGED said
    /\ UNCHANGED <<argv, ret, queue, done, info, written, status>>

\* Mutant: an unknown command is looked up again.
ParseCmdAgain ==
    /\ pc = "parse"
    /\ IF argv.cmd \in Cmds
         THEN pc' = "cmd" /\ UNCHANGED ret
         ELSE UNCHANGED <<pc, ret>>
    /\ UNCHANGED <<argv, queue, done, sdev, info, said, written, status>>

\* ... here too.
ParseCmd ==
    /\ pc = "parse"
    /\ IF argv.cmd \in Cmds
         THEN pc' = "cmd" /\ UNCHANGED ret
         ELSE Return("EAGAIN")
    /\ UNCHANGED <<argv, queue, done, sdev, info, said, written, status>>

\* validate_subcommand() compares argv[1] as it was typed, dashes and all.
ValidSub == ~argv.dashes /\ argv.sub \in SubsOf[argv.cmd]

BadSub(cmds) ==
    /\ pc = "cmd"
    /\ argv.cmd \in cmds
    /\ argv.sub # "none"
    /\ ~ValidSub
    /\ Return("ENOENT")
    /\ UNCHANGED <<argv, queue, done, sdev, info, said, written, status>>

\* Mutant: cmd_show() goes on with a sub-command it has just refused.
RejectSubLate ==
    \/ BadSub({"list", "reset", "alias", "errors", "online", "offline"})
    \/ argv.dev # "none" /\ BadSub({"stats"})
    \/ /\ pc = "cmd" /\ argv.cmd = "show"
       /\ argv.sub # "none" /\ ~ValidSub
       /\ info' = "live"
       /\ Return("ENOENT")
       /\ UNCHANGED <<argv, queue, done, sdev, said, written, status>>

\* cmd_stats() asks for the device before it looks at the sub-command.
RejectSub ==
    \/ BadSub({"list", "show", "reset", "alias", "errors", "online", "offline"})
    \/ argv.dev # "none" /\ BadSub({"stats"})

\* A command without a sub-command performs six listings, whatever it was to do.
HandleCmdErrors ==
    /\ pc = "cmd"
    /\ argv.cmd \in {"list", "show", "reset", "stats"}
    /\ argv.sub = "none"
    /\ queue' = SixListings
    /\ pc' = "list"
    /\ UNCHANGED <<argv, ret, done, sdev, info, said, written, status>>

\* cmd_alias(), cmd_errors(), cmd_online(), cmd_offline() without a sub-command;
\* cmd_scan() always, as its test is `argc < 2'.
Unsupported ==
    /\ pc = "cmd"
    /\ \/ argv.cmd \in {"alias", "errors", "online", "offline"} /\ argv.sub = "none"
       \/ argv.cmd = "scan"
    /\ Say("unsupported")
    /\ Return("0")
    /\ UNCHANGED <<argv, queue, done, sdev, info, written, status>>

CmdList ==
    /\ pc = "cmd"
    /\ argv.cmd = "list"
    /\ argv.sub # "none" /\ ValidSub
    /\ queue' = <<argv.sub>>
    /\ pc' = "list"
    /\ UNCHANGED <<argv, ret, done, sdev, info, said, written, status>>

\* Mutant: the first listing that fails ends the command.
ListStops ==
    /\ pc = "list"
    /\ queue # <<>>
    /\ done' = Append(done, [what |-> "list", on |-> Head(queue)])
    /\ \E r \in ListResults[Head(queue)] :
          /\ ret' = r
          /\ queue' = IF Failed(r) THEN <<>> ELSE Tail(queue)
    /\ UNCHANGED <<argv, pc, sdev, info, said, written, status>>

\* cmd_list() returns what its listing returns, handle_cmd_errors() nothing.
List ==
    /\ pc = "list"
    /\ queue # <<>>
    /\ queue' = Tail(queue)
    /\ done' = Append(done, [what |-> "list", on |-> Head(queue)])
    /\ \E r \in ListResults[Head(queue)] :
          ret' = IF argv.sub = "none" THEN ret ELSE r
    /\ UNCHANGED <<argv, pc, sdev, info, said, written, status>>

ListEnd ==
    /\ pc = "list"
    /\ queue = <<>>
    /\ pc' = "report"
    /\ UNCHANGED <<argv, ret, queue, done, sdev, info, said, written, status>>

\* `show', `reset' and `stats' want a device and return 0 without one.
NoDevice ==
    /\ pc = "cmd"
    /\ argv.cmd \in {"show", "reset", "stats"}
    /\ argv.sub # "none" /\ argv.dev = "none"
    /\ argv.cmd # "stats" => ValidSub
    /\ Say("give a device")
    /\ Return("0")
    /\ UNCHANGED <<argv, queue, done, sdev, info, written, status>>

\* `show' and `stats' allocate a record for the device ...
AllocInfo ==
    /\ pc = "cmd"
    /\ argv.cmd \in {"show", "stats"}
    /\ argv.dev # "none" /\ ValidSub
    /\ info' = "live"
    /\ pc' = "collect"
    /\ UNCHANGED <<argv, ret, queue, done, sdev, said, written, status>>

\* ... if there is memory.  cmd_stats() then returns 0, the value that
\* validate_subcommand() left in err.
AllocInfoFails ==
    /\ pc = "cmd"
    /\ argv.cmd \in {"show", "stats"}
    /\ argv.dev # "none" /\ ValidSub
    /\ Return(CASE argv.cmd = "stats"   -> "0"
                [] argv.sub = "fc_port" -> "EIO"
                [] OTHER                -> "EINVAL")
    /\ UNCHANGED <<argv, queue, done, sdev, info, said, written, status>>

\* cmd_show() keeps the record when it fails.
CmdShow ==
    /\ pc = "collect"
    /\ argv.cmd = "show"
    /\ done' = Append(done, [what |-> "show", on |-> argv.sub])
    /\ \E r \in ShowResults[argv.sub] :
          /\ Return(r)
          /\ info' = IF Failed(r) THEN info ELSE "freed"
    /\ UNCHANGED <<argv, queue, sdev, said, written, status>>

\* Mutant: cmd_stats() returns at once when it has no statistics.
CmdStatsLeaks ==
    /\ pc = "collect"
    /\ argv.cmd = "stats"
    /\ \E r \in StatsResults[argv.sub] :
          IF Failed(r)
            THEN Say("no statistics") /\ UNCHANGED <<done, info>>
            ELSE /\ done' = Append(done, [what |-> "stats", on |-> argv.sub])
                 /\ info' = "freed"
                 /\ UNCHANGED said
    /\ Return("0")
    /\ UNCHANGED <<argv, queue, sdev, written, status>>

\* cmd_stats() frees it and returns 0, come what may.
CmdStats ==
    /\ pc = "collect"
    /\ argv.cmd = "stats"
    /\ \E r \in StatsResults[argv.sub] :
          IF Failed(r)
            THEN Say("no statistics") /\ UNCHANGED done
            ELSE /\ done' = Append(done, [what |-> "stats", on |-> argv.sub])
                 /\ UNCHANGED said
    /\ info' = "freed"
    /\ Return("0")
    /\ UNCHANGED <<argv, queue, sdev, written, status>>

\* The device without its last character must still begin with "host".
BadAdapter ==
    /\ pc = "cmd"
    /\ argv.cmd = "reset"
    /\ ValidSub
    /\ argv.dev \in {"host", "name"}
    /\ Say("bad adapter")
    /\ Return("0")
    /\ UNCHANGED <<argv, queue, done, sdev, info, written, status>>

\* Of the four resets only one calls fc_hba_reset().
CmdReset ==
    /\ pc = "cmd"
    /\ argv.cmd = "reset"
    /\ ValidSub
    /\ argv.dev = "hostN"
    /\ IF argv.sub = "adapter"
         THEN pc' = "reset" /\ UNCHANGED ret
         ELSE Return("0")
    /\ UNCHANGED <<argv, queue, done, sdev, info, said, written, status>>

FcHbaResetNoFile ==
    /\ pc = "reset"
    /\ Return("EINVAL")
    /\ UNCHANGED <<argv, queue, done, sdev, info, said, written, status>>

\* Mutant: a reset that the kernel refuses is tried again.
FcHbaResetAgain ==
    /\ pc = "reset"
    /\ done' = Append(done, [what |-> "write", on |-> argv.sub])
    /\ Say("issued")
    /\ \/ written' \in {"accepted", "refused"} /\ Return("0")
       \/ done = <<>> /\ written' = "refused" /\ UNCHANGED <<pc, ret>>
    /\ UNCHANGED <<argv, queue, sdev, info, status>>

\* The 1 is buffered by fprintf() and written by fclose(); neither is checked.
FcHbaReset ==
    /\ pc = "reset"
    /\ done' = Append(done, [what |-> "write", on |-> argv.sub])
    /\ written' \in {"accepted", "refused"}
    /\ Say("issued")
    /\ Return("0")
    /\ UNCHANGED <<argv, queue, sdev, info, status>>

\* Mutant: only the errors with a text of their own are explained.
ReportKnown ==
    /\ pc = "report"
    /\ IF Failed(ret)
         THEN /\ said' = said \cup (CASE ret = "ENODEV" -> {"no device"}
                                     [] ret = "EAGAIN" -> {"no command"}
                                     [] ret = "ENOENT" -> {"no sub-command"}
                                     [] OTHER          -> {})
              /\ ret' = "EINVAL"
         ELSE UNCHANGED <<said, ret>>
    /\ pc' = "free"
    /\ UNCHANGED <<argv, queue, done, sdev, info, written, status>>

\* handle_cmd() explains a failure and makes one value of them all.
Report ==
    /\ pc = "report"
    /\ IF Failed(ret)
         THEN /\ Say(CASE ret = "ENODEV" -> "no device"
                       [] ret = "EAGAIN" -> "no command"
                       [] ret = "ENOENT" -> "no sub-command"
                       [] OTHER          -> "error")
              /\ ret' = "EINVAL"
         ELSE UNCHANGED <<said, ret>>
    /\ pc' = "free"
    /\ UNCHANGED <<argv, queue, done, sdev, info, written, status>>

\* Mutant: main() returns the error code itself.
ExitWithCode ==
    /\ pc = "free"
    /\ sdev' = IF sdev = "live" THEN "freed" ELSE sdev
    /\ status' = ret
    /\ pc' = "exit"
    /\ UNCHANGED <<argv, ret, queue, done, info, said, written>>

\* handle_cmd() frees sdev, and main() makes an exit status of the result.
Exit ==
    /\ pc = "free"
    /\ sdev' = IF sdev = "live" THEN "freed" ELSE sdev
    /\ status' = IF ret = "0" THEN "0" ELSE "1"
    /\ pc' = "exit"
    /\ UNCHANGED <<argv, ret, queue, done, info, said, written>>

Step ==
    \/ Main \/ NoMemory \/ HandleCmd \/ ParseCmd
    \/ RejectSub \/ HandleCmdErrors \/ Unsupported \/ NoDevice
    \/ CmdList \/ List \/ ListEnd
    \/ AllocInfo \/ AllocInfoFails \/ CmdShow \/ CmdStats
    \/ BadAdapter \/ CmdReset \/ FcHbaResetNoFile \/ FcHbaReset
    \/ Report \/ Exit

Finished == pc = "exit" /\ UNCHANGED vars

Next == Step \/ Finished

Spec == Init /\ [][Next]_vars

FairSpec == Spec /\ WF_vars(Step)

-----------------------------------------------------------------------------
(* Properties. *)

\* A command line the tables do not know has no effect: nothing is listed,
\* allocated or written before it is refused, and the exit status says so.
RefusedHasNoEffect ==
    said \cap {"no command", "no sub-command"} # {} =>
        /\ done = <<>> /\ info = "none" /\ written = "no"
        /\ pc = "exit" => status = "1"

\* Records: handle_cmd() releases its own on every path, the record of `show'
\* or `stats' is there while it is used and is left over only by a `show' that
\* failed.
RecordsReleased ==
    /\ pc = "collect" => info = "live"
    /\ pc = "exit" => /\ sdev # "live"
                      /\ info = "live" => argv.cmd = "show" /\ status = "1"

\* Without a sub-command the six listings are performed, each of them once and
\* in order, whichever of those before it fail; `reset' and the others do nothing
\* else, and the program succeeds without a message.
FallbackListsSix ==
    pc = "exit" /\ argv.cmd \in {"list", "show", "reset", "stats"}
            /\ argv.sub = "none" /\ sdev # "none" =>
        /\ done = [i \in 1 .. 6 |-> [what |-> "list", on |-> SixListings[i]]]
        /\ written = "no" /\ info = "none" /\ said = {}
        /\ status = "0"

\* An exit status of 1 that comes without an explanation is no failure: the
\* work has been done.  (Or there was no memory to begin with.)
SilentOneMeansDone ==
    pc = "exit" /\ status = "1" /\ said = {} => done # <<>> \/ sdev = "none"

\* A step that writes to sysfs, whether or not the outcome is that of a write
\* before.
Writes ==
    \/ written' # written
    \/ \E i \in DOMAIN done' \ DOMAIN done : done'[i].what = "write"

\* The program writes to sysfs only for `reset adapter' with the name of a
\* host, never on the way to anything else; and it writes once: nothing was
\* written, listed or shown before.
WritesOnlyToReset ==
    [][Writes =>
        /\ argv.cmd = "reset" /\ argv.sub = "adapter" /\ argv.dev = "hostN"
        /\ ~argv.dashes
        /\ written = "no" /\ done = <<>>]_vars

\* Every command line comes to an exit.
Ends == <>(pc = "exit")

-----------------------------------------------------------------------------
(* What the repository says and the code does not do. *)

\* A reset that is said to have been issued was accepted by the kernel.
IssuedIsTrue == "issued" \in said => written = "accepted"

=============================================================================
