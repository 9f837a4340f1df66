------------------------------- MODULE Format -------------------------------
(***************************************************************************)
(* The numbers that `show disk' and `stats fc_port' print: sizes, that is  *)
(* calculate_size() of scsi_print.c and the lines of its callers, some of  *)
(* which call it twice, and the counters of get_fc_dev_stats().            *)
(*                                                                         *)
(* calculate_size() returns a buffer of its own, and C leaves open which   *)
(* argument of printf() is evaluated first.  A text is the number and the  *)
(* unit that are printed.                                                  *)
(***************************************************************************)
EXTENDS Naturals, Sequences

CONSTANTS
    Half,      \* bound: half as many as the values of a u64
    KB,        \* KB_SIZE
    Unit,      \* the bytes in each unit, from B to TiB
    Sector,    \* the bytes that `size' of a block device counts by: 512
    Sizes,     \* the fields that are sizes
    Unread,    \* those of them that are printed and never read: discard_granularity
    Counters,  \* the fields that are counters of an FC port
    Samples,   \* bound: the numbers that the files of sysfs may hold
    Lines      \* the lines printed, each with the fields it shows

Word == 0 .. 2 * Half - 1

\* The bytes of a disk, calculated as logical_block_size * size.
Capacity == "capacity"

ASSUME WordAssumption == Half \in Nat \ {0} /\ KB \in Nat \ {0, 1}
ASSUME UnitAssumption ==
    /\ Unit \in Seq(Nat \ {0}) /\ Unit # <<>>
    /\ Unit[1] = 1 /\ \A n \in 2 .. Len(Unit) : Unit[n] = KB * Unit[n - 1]
\* The kernel holds the bytes of a disk in a signed number.
ASSUME FieldsAssumption ==
    /\ {"logical_block_size", "size"} \subseteq Sizes \ Unread /\ Sector \in Nat
    /\ Capacity \notin Sizes \cup Counters /\ Sizes \cap Counters = {}
    /\ Samples \subseteq [Sizes \cup Counters -> Word]
    /\ \A s \in Samples : s["size"] * Sector < Half
    /\ Lines \in Seq(((SUBSET (Sizes \cup {Capacity})) \cup (SUBSET Counters)) \ {{}})

VARIABLES
    file,      \* the numbers in the files of sysfs
    line,      \* the line that is being printed
    left,      \* its sizes that have not been calculated yet
    pc,        \* "printf", or in calculate_size() "divide" or "snprintf"
    size,      \* the local variables of calculate_size(): the size of this round,
    dbl_size,  \* ... what is printed of it
    i,         \* ... and its unit
    result,    \* the buffer of calculate_size()
    shown      \* history: the texts on every line so far

locals == <<size, dbl_size, i>>
vars == <<file, line, left, pc, locals, result, shown>>

-----------------------------------------------------------------------------
(* Conversions. *)

\* Mutant: what does not fit a signed number wraps around.
strtol_wrap(n) == n % Half

\* What does not fit a signed number is the largest one.
strtol(n) == IF n < Half THEN n ELSE Half - 1

\* What is passed to calculate_size(): a field that is not read is 0 as
\* alloc_scsi_dev() left it.
Value(f) ==
    IF f = Capacity THEN (file["logical_block_size"] * file["size"]) % (2 * Half)
    ELSE IF f \in Unread THEN 0 ELSE file[f]

-----------------------------------------------------------------------------
SizesOf(n) == IF n <= Len(Lines) THEN Lines[n] \ Counters ELSE {}

Init ==
    /\ file \in Samples
    /\ line = 1
    /\ left = SizesOf(1)
    /\ pc = "printf"
    /\ size = 0 /\ dbl_size = 0 /\ i = 0
    /\ result = <<0, 0>>
    /\ shown = <<>>

\* One argument of printf() is evaluated: calculate_size() is called.
Evaluate(f) ==
    /\ pc = "printf"
    /\ left' = left \ {f}
    /\ size' = Value(f) /\ dbl_size' = Value(f) /\ i' = 0
    /\ pc' = IF Value(f) > KB THEN "divide" ELSE "snprintf"
    /\ UNCHANGED <<file, line, result, shown>>

\* Mutant: what is printed is the size before the division.
DivideLate ==
    /\ pc = "divide"
    /\ IF size \div KB > 0 /\ i < Len(Unit) - 1
       THEN size' = size \div KB /\ dbl_size' = size /\ i' = i + 1 /\ UNCHANGED pc
       ELSE pc' = "snprintf" /\ UNCHANGED locals
    /\ UNCHANGED <<file, line, left, result, shown>>

\* A round of its loop, or the end of it.
Divide ==
    /\ pc = "divide"
    /\ IF size \div KB > 0 /\ i < Len(Unit) - 1
       THEN size' = size \div KB /\ dbl_size' = size \div KB /\ i' = i + 1 /\ UNCHANGED pc
       ELSE pc' = "snprintf" /\ UNCHANGED locals
    /\ UNCHANGED <<file, line, left, result, shown>>

\* Its result.
WriteResult ==
    /\ pc = "snprintf"
    /\ result' = <<dbl_size, i>>
    /\ pc' = "printf"
    /\ UNCHANGED <<file, line, left, locals, shown>>

\* printf() itself: all its sizes are the one buffer.
PrintLine ==
    /\ pc = "printf" /\ line <= Len(Lines) /\ left = {}
    /\ shown' = Append(shown, [f \in Lines[line] |->
                                  IF f \in Counters THEN <<strtol(file[f]), 0>> ELSE result])
    /\ line' = line + 1
    /\ left' = SizesOf(line + 1)
    /\ UNCHANGED <<file, pc, locals, result>>

Finished == line > Len(Lines) /\ UNCHANGED vars

Next == (\E f \in left : Evaluate(f)) \/ Divide \/ WriteResult \/ PrintLine \/ Finished

Spec == Init /\ [][Next]_vars

-----------------------------------------------------------------------------
(* Properties. *)

\* The text is the value v, rounded down to the largest unit that it fills; only
\* exactly one KiB is left in bytes.
Tells(text, v) ==
    LET unit == Unit[text[2] + 1]
    IN  /\ text[1] * unit <= v /\ v < (text[1] + 1) * unit
        /\ text[2] > 0 => text[1] > 0
        /\ text[1] < KB \/ text[2] = Len(Unit) - 1 \/ v = KB

\* The capacity of a disk whose logical blocks are sectors, and every size that is
\* read and is on a line of its own, is printed as what it is: never as what is
\* left in the buffer from another line, and never for want of range.
SizesTrue ==
    \A n \in DOMAIN shown :
        /\ Lines[n] = {Capacity} /\ file["logical_block_size"] = Sector =>
               Tells(shown[n][Capacity], file["size"] * Sector)
        /\ \A f \in Sizes \ Unread : Lines[n] = {f} => Tells(shown[n][f], file[f])

\* Violated.  Every size that is read is printed after its own label, also where
\* two are on one line: scsi_print.c calls them WriteSame and Write Zeroes.
LabelsTrue ==
    \A n \in DOMAIN shown : \A f \in Lines[n] \cap (Sizes \ Unread) : Tells(shown[n][f], file[f])

\* Counters keep their order, and are what they are up to half the range of 64
\* bits: one that counts on is never printed as less than before.
CountersInOrder ==
    \A m, n \in DOMAIN shown : \A f \in Lines[m] \cap Counters, g \in Lines[n] \cap Counters :
        /\ file[f] <= file[g] => shown[m][f][1] <= shown[n][g][1]
        /\ shown[m][f][1] <= file[f]
        /\ shown[m][f][1] < file[f] => file[f] >= Half

=============================================================================
