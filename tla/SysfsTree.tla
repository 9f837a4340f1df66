----------------------------- MODULE SysfsTree -----------------------------
(***************************************************************************)
(* The kernel side of the Fibre Channel and iSCSI commands: hosts and what *)
(* is below them (remote ports; sessions, connections, targets, LUNs), as  *)
(* directories of sysfs that come and go.  None of this is code of the     *)
(* program; it is modelled from the paths it opens.                        *)
(*                                                                         *)
(* As in Sysfs, names are reused, gen counts the objects that have borne a *)
(* name, and a value read from an attribute is the generation it was read  *)
(* from.                                                                   *)
(***************************************************************************)
EXTENDS Naturals, FiniteSets

CONSTANTS
    Object,      \* names of objects
    Kind,        \* what a name stands for; "other" is anything else that a loop
                 \* comes to: power and the like, and in a loop without
                 \* for_each_dir() . and .., too
    Parent,      \* the directory an object is in, an object or Root
    Hash,        \* where the name comes in its directory's order
    Root,        \* the directory of the hosts
    MaxEvents    \* bound: hot-plug steps in a behaviour

Kinds == {"host", "rport", "session", "connection", "target", "lun", "other"}

ASSUME TreeAssumption ==
    /\ Root \notin Object
    /\ Kind \in [Object -> Kinds]
    /\ Parent \in [Object -> Object \cup {Root}]
    /\ \A o \in Object : Kind[o] = "host" <=> Parent[o] = Root
ASSUME HashAssumption ==
    /\ Hash \in [Object -> Nat \ {0}]
    /\ \A o, p \in Object : Hash[o] = Hash[p] => o = p
ASSUME FiniteAssumption == IsFiniteSet(Object)
ASSUME MaxEventsAssumption == MaxEvents \in Nat

VARIABLES
    present,  \* the objects that exist
    gen,      \* the generation of the object that last bore the name
    events,   \* hot-plug steps so far
    touched   \* history: the names that came or went while the program ran

kernel == <<present, gen, events, touched>>

Children(dir) == {o \in Object : Parent[o] = dir}

KernelTypeOK ==
    /\ present \subseteq Object
    /\ gen \in [Object -> Nat]
    /\ events \in Nat
    /\ touched \subseteq Object
    /\ \A o \in present : gen[o] > 0

\* Everything is below something that exists, and "other" entries are there
\* as soon and as long as their directory is.
WellFormed(objects) ==
    \A o \in Object :
        /\ o \in objects => Parent[o] \in objects \cup {Root}
        /\ Kind[o] = "other" /\ Parent[o] \in objects => o \in objects

KernelInit ==
    /\ present \in {objects \in SUBSET Object : WellFormed(objects)}
    /\ gen = [o \in Object |-> IF o \in present THEN 1 ELSE 0]
    /\ events = 0
    /\ touched = {}

Others(o) == {c \in Children(o) : Kind[c] = "other"}

\* A host is found, a port or a target logs in, a LUN is scanned.
Appear(o) ==
    /\ events < MaxEvents
    /\ o \notin present
    /\ Kind[o] # "other"
    /\ Parent[o] \in present \cup {Root}
    /\ LET come == {o} \cup Others(o)
       IN  /\ present' = present \cup come
           /\ gen' = [p \in Object |-> IF p \in come THEN gen[p] + 1 ELSE gen[p]]
           /\ touched' = touched \cup come
    /\ events' = events + 1

\* It goes away, after everything below it.
Vanish(o) ==
    /\ events < MaxEvents
    /\ o \in present
    /\ Kind[o] # "other"
    /\ Children(o) \cap present \subseteq Others(o)
    /\ present' = present \ ({o} \cup Others(o))
    /\ touched' = touched \cup {o} \cup Others(o)
    /\ events' = events + 1
    /\ UNCHANGED gen

Hotplug == \E o \in Object : Appear(o) \/ Vanish(o)

Steady(o) == o \in present /\ o \notin touched

-----------------------------------------------------------------------------
(* Directory streams.  A directory is read in the order of the hashes. The *)
(* C library takes several entries at once from the kernel, so a name may  *)
(* be old when readdir() returns it; how many, and when, is left open.     *)

Streams == [dir : Object \cup {Root}, gen : Nat, cursor : Nat, buf : SUBSET Object]

Exists(dir) == dir \in present \cup {Root}

GenOf(dir) == IF dir = Root THEN 1 ELSE gen[dir]

Opened(dir) == [dir |-> dir, gen |-> GenOf(dir), cursor |-> 0, buf |-> {}]

\* What is ahead of a stream: nothing if its directory has been removed, even
\* if there is a new one of the same name.
Ahead(s) ==
    IF Exists(s.dir) /\ GenOf(s.dir) = s.gen
      THEN {o \in Children(s.dir) \cap present : Hash[o] > s.cursor} ELSE {}

IsFirst(o, S) == o \in S /\ \A p \in S : Hash[o] <= Hash[p]

\* getdents() copies one more entry.
Fetched(s, o) == [s EXCEPT !.cursor = Hash[o], !.buf = s.buf \cup {o}]

\* readdir() returns one.
Taken(s, o) == [s EXCEPT !.buf = s.buf \ {o}]

AtEnd(s) == s.buf = {} /\ Ahead(s) = {}

=============================================================================
