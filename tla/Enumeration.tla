---------------------------- MODULE Enumeration ----------------------------
(***************************************************************************)
(* What a pass over a directory promises, whatever devices it meets: it    *)
(* shows things one by one, none of them twice, and is complete only when  *)
(* it has shown everything that stayed in place since it began.  It may    *)
(* show some of the things that came or went, and it may be aborted.       *)
(* Listing implements this.                                                *)
(***************************************************************************)
EXTENDS Sequences

CONSTANT Thing

VARIABLES
    status,   \* of the pass: "idle", "open" or "complete"
    steady,   \* the things that have been there since the pass began
    shown     \* the things shown, in order

vars == <<status, steady, shown>>

Members(s) == {s[i] : i \in DOMAIN s}

Init == status = "idle" /\ steady = {} /\ shown = <<>>

Begin ==
    /\ status = "idle"
    /\ status' = "open"
    /\ steady' \in SUBSET Thing
    /\ shown' = <<>>

Show(n) ==
    /\ status = "open"
    /\ n \notin Members(shown)
    /\ shown' = Append(shown, n)
    /\ UNCHANGED <<status, steady>>

\* Something that was there all the time is pulled.
Disturb ==
    /\ status \in {"open", "complete"}
    /\ steady' \in SUBSET steady
    /\ UNCHANGED <<status, shown>>

Complete ==
    /\ status = "open"
    /\ steady \subseteq Members(shown)
    /\ status' = "complete"
    /\ UNCHANGED <<steady, shown>>

\* The pass gives up and says so: it has promised nothing.
Abort ==
    /\ status = "open"
    /\ status' = "idle"
    /\ steady' = {}
    /\ UNCHANGED shown

Close ==
    /\ status = "complete"
    /\ status' = "idle"
    /\ steady' = {}
    /\ UNCHANGED shown

Next ==
    \/ Begin \/ Disturb \/ Complete \/ Abort \/ Close
    \/ \E n \in Thing : Show(n)

Spec == Init /\ [][Next]_vars

=============================================================================
