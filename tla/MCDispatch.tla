----------------------------- MODULE MCDispatch -----------------------------
(* Command lines for Dispatch: all of them, or those of one command. *)
EXTENDS Dispatch

Of(cmd) == {a \in ArgvSpace : a.cmd = cmd}

ResetArgvs == Of("reset")
=============================================================================
