---------------------------- MODULE FormatProofs ----------------------------
(***************************************************************************)
(* Theorems about Format, for any width of a word, units, fields, samples  *)
(* and lines.                                                              *)
(***************************************************************************)
EXTENDS Format, TLAPS, SequenceTheorems

\* A text: a number and the unit after it.
Text == Nat \X (0 .. Len(Unit) - 1)

Fields == Sizes \cup {Capacity} \cup Counters

TypeInv ==
    /\ file \in Samples /\ file \in [Sizes \cup Counters -> Word]
    /\ line \in 1 .. Len(Lines) + 1
    /\ left \subseteq SizesOf(line)
    /\ pc \in {"printf", "divide", "snprintf"}
    /\ size \in Nat /\ dbl_size \in Nat /\ i \in 0 .. Len(Unit) - 1
    /\ result \in Text
    /\ Len(shown) = line - 1
    /\ shown \in Seq(UNION {[S -> Text] : S \in SUBSET Fields})

\* What calculate_size() has found out about its argument v.
Calculates(v) ==
    /\ dbl_size = size
    /\ size * Unit[i + 1] <= v /\ v < (size + 1) * Unit[i + 1]
    /\ i > 0 => size > 0
    /\ pc = "snprintf" => size < KB \/ i = Len(Unit) - 1 \/ v = KB

\* The buffer holds what has been calculated last of this line, if anything has;
\* every line printed is the text of one of its sizes, or of its counters.
CallInv ==
    /\ pc # "printf" => \E f \in SizesOf(line) \ left : Calculates(Value(f))
    /\ pc = "printf" /\ left # SizesOf(line) =>
           \E f \in SizesOf(line) \ left : Tells(result, Value(f))

CountersShown ==
    \A n \in DOMAIN shown : \A f \in Lines[n] \cap Counters :
        shown[n][f] = <<strtol(file[f]), 0>>

\* Sizes on one line share the buffer: whichever is calculated last, they are all
\* printed as what one of them is.
LineIsOneSize ==
    \A n \in DOMAIN shown :
        Lines[n] \cap Counters = {} =>
            \E f \in Lines[n] : \A g \in Lines[n] : Tells(shown[n][g], Value(f))

FormatInv == CallInv /\ LineIsOneSize /\ CountersShown

-----------------------------------------------------------------------------
(* Arithmetic. *)

LEMMA TimesMonotone ==
    ASSUME NEW a \in Nat, NEW b \in Nat, NEW u \in Nat, a <= b
    PROVE  a * u <= b * u
<1>1. PICK d \in Nat : b = a + d
  <2>1. b - a \in Nat /\ b = a + (b - a)
    OBVIOUS
  <2> QED BY <2>1
<1>2. b * u = a * u + d * u
  BY <1>1
<1>3. d * u >= 0 /\ d * u \in Int /\ a * u \in Int
  OBVIOUS
<1> QED BY <1>2, <1>3

LEMMA TimesAssociative ==
    ASSUME NEW a \in Nat, NEW b \in Nat, NEW u \in Nat
    PROVE  (a * b) * u = a * (b * u)
OBVIOUS

LEMMA Quotient ==
    ASSUME NEW n \in Nat, NEW k \in Nat \ {0}
    PROVE  /\ n \div k \in Nat
           /\ (n \div k) * k <= n
           /\ n + 1 <= ((n \div k) + 1) * k
           /\ n \div k = 0 => n < k
OBVIOUS

LEMMA Constants ==
    /\ Half \in Nat /\ Half > 0 /\ KB \in Nat /\ KB > 1
    /\ Len(Unit) \in Nat \ {0}
    /\ \A n \in 1 .. Len(Unit) : Unit[n] \in Nat /\ Unit[n] > 0
    /\ Len(Lines) \in Nat
    /\ \A n \in 1 .. Len(Lines) :
           /\ Lines[n] # {}
           /\ Lines[n] \subseteq Sizes \cup {Capacity} \/ Lines[n] \subseteq Counters
<1>1. Len(Unit) \in Nat \ {0} /\ \A n \in 1 .. Len(Unit) : Unit[n] \in Nat \ {0}
  <2>1. Unit \in Seq(Nat \ {0}) /\ Unit # <<>>
    BY UnitAssumption
  <2> QED BY <2>1, ElementOfSeq, LenProperties, EmptySeq
<1>2. Lines \in Seq(((SUBSET (Sizes \cup {Capacity})) \cup (SUBSET Counters)) \ {{}})
  BY FieldsAssumption
<1>3. /\ Len(Lines) \in Nat
      /\ \A n \in 1 .. Len(Lines) :
             Lines[n] \in ((SUBSET (Sizes \cup {Capacity})) \cup (SUBSET Counters)) \ {{}}
  BY <1>2, ElementOfSeq, LenProperties
<1>4. Half \in Nat /\ Half > 0 /\ KB \in Nat /\ KB > 1
  BY WordAssumption
<1>5. \A n \in 1 .. Len(Lines) :
          /\ Lines[n] # {}
          /\ Lines[n] \subseteq Sizes \cup {Capacity} \/ Lines[n] \subseteq Counters
  BY <1>3
<1>6. \A n \in 1 .. Len(Unit) : Unit[n] \in Nat /\ Unit[n] > 0
  BY <1>1
<1> QED BY <1>1, <1>3, <1>4, <1>5, <1>6

\* What a line shows of sizes are its fields, all or none of them.
LEMMA SizesOfType ==
    ASSUME NEW n \in 1 .. Len(Lines)
    PROVE  /\ SizesOf(n) \subseteq Sizes \cup {Capacity}
           /\ SizesOf(n) \subseteq Lines[n]
           /\ Lines[n] \cap Counters = {} => SizesOf(n) = Lines[n]
           /\ \A f \in Lines[n] : f \notin Counters => f \in SizesOf(n)
           /\ SizesOf(n) # {} => Lines[n] \cap Counters = {}
<1>1. (Sizes \cup {Capacity}) \cap Counters = {}
  BY FieldsAssumption
<1>2. n \in Nat /\ n <= Len(Lines)
  BY Constants
<1>3. SizesOf(n) = Lines[n] \ Counters
  BY <1>2 DEF SizesOf
<1> QED BY <1>1, <1>3, Constants

LEMMA ValueType ==
    ASSUME TypeInv, NEW f \in Sizes \cup {Capacity} \cup Counters
    PROVE  /\ Value(f) \in Nat
<1>1. \A g \in Sizes \cup Counters : file[g] \in Nat /\ file[g] \in Word
  BY Constants DEF TypeInv, Word
<1>2. CASE f = Capacity
  <2>1. file["logical_block_size"] \in Nat /\ file["size"] \in Nat
    BY <1>1, FieldsAssumption
  <2>2. file["logical_block_size"] * file["size"] \in Nat
    BY <2>1
  <2> DEFINE x == file["logical_block_size"] * file["size"]  w == 2 * Half
  <2>3. w \in Nat \ {0}
    BY Constants
  <2> HIDE DEF x, w
  <2>4. x % w \in Nat
    BY <2>2, <2>3 DEF x
  <2> QED BY <1>2, <2>4 DEF Value, x, w
<1>3. CASE f # Capacity
  BY <1>1, <1>3 DEF Value
<1> QED BY <1>2, <1>3

-----------------------------------------------------------------------------
(* The types. *)

LEMMA TypeInit == Init => TypeInv
<1> SUFFICES ASSUME Init PROVE TypeInv
  OBVIOUS
<1>1. file \in Samples /\ file \in [Sizes \cup Counters -> Word]
  BY FieldsAssumption DEF Init
<1>2. shown \in Seq(UNION {[S -> Text] : S \in SUBSET Fields}) /\ Len(shown) = 0
  BY EmptySeq DEF Init
<1>3. result \in Text
  BY Constants DEF Init, Text
<1> QED BY <1>1, <1>2, <1>3, Constants DEF Init, TypeInv

LEMMA TypeStep == TypeInv /\ [Next]_vars => TypeInv'
<1> SUFFICES ASSUME TypeInv, [Next]_vars PROVE TypeInv'
  OBVIOUS
<1> USE Constants
<1>1. ASSUME NEW f \in left, Evaluate(f) PROVE TypeInv'
  <2>1. Value(f) \in Nat
    <3>1. f \in SizesOf(line)
      BY DEF TypeInv
    <3>2. f \in Sizes \cup {Capacity}
      BY <3>1, SizesOfType DEF TypeInv, SizesOf
    <3> QED BY <3>2, ValueType
  <2> QED BY <1>1, <2>1 DEF TypeInv, Evaluate
<1>2. CASE Divide
  <2>1. CASE size \div KB > 0 /\ i < Len(Unit) - 1
    <3>1. size \div KB \in Nat
      BY KB \in Nat \ {0}, Quotient DEF TypeInv
    <3>2. i + 1 \in 0 .. Len(Unit) - 1
      BY <2>1 DEF TypeInv
    <3> QED BY <1>2, <2>1, <3>1, <3>2 DEF TypeInv, Divide
  <2>2. CASE ~(size \div KB > 0 /\ i < Len(Unit) - 1)
    BY <1>2, <2>2 DEF TypeInv, Divide, locals
  <2> QED BY <2>1, <2>2
<1>3. CASE WriteResult
  BY <1>3 DEF TypeInv, WriteResult, locals, Text
<1>4. CASE PrintLine
  <2> DEFINE t == [f \in Lines[line] |->
                      IF f \in Counters THEN <<strtol(file[f]), 0>> ELSE result]
             All == UNION {[S -> Text] : S \in SUBSET Fields}
  <2>1. line \in 1 .. Len(Lines) /\ line + 1 \in 1 .. Len(Lines) + 1
    BY <1>4 DEF PrintLine, TypeInv
  <2>2. \A f \in Counters : strtol(file[f]) \in Nat
    BY DEF strtol, TypeInv, Word
  <2>3. t \in [Lines[line] -> Text]
    BY <2>2 DEF TypeInv, Text
  <2>4. Lines[line] \in SUBSET Fields
    BY <2>1 DEF Fields
  <2>5. t \in All
    BY <2>3, <2>4
  <2>6. shown' = Append(shown, t)
    BY <1>4 DEF PrintLine
  <2>7. shown \in Seq(All)
    BY DEF TypeInv
  <2> HIDE DEF t, All
  <2>8. shown' \in Seq(All) /\ Len(shown') = Len(shown) + 1
    BY <2>5, <2>6, <2>7, AppendProperties
  <2> QED BY <1>4, <2>1, <2>8 DEF PrintLine, TypeInv, locals, All
<1>5. CASE Finished \/ UNCHANGED vars
  BY <1>5 DEF TypeInv, Finished, vars, locals, SizesOf
<1> QED BY <1>1, <1>2, <1>3, <1>4, <1>5 DEF Next

-----------------------------------------------------------------------------
(* The buffer of calculate_size(). *)

LEMMA CallInit == Init => CallInv
BY DEF Init, CallInv

\* Nothing that is printed changes the files.
LEMMA ValueFixed == file' = file => \A f : Value(f)' = Value(f)
BY DEF Value

LEMMA CallStep == TypeInv /\ CallInv /\ [Next]_vars => CallInv'
<1> SUFFICES ASSUME TypeInv, CallInv, [Next]_vars PROVE CallInv'
  OBVIOUS
<1> USE Constants
<1>0. line' = line => SizesOf(line)' = SizesOf(line)
  BY DEF SizesOf
<1>1. ASSUME NEW f \in left, Evaluate(f) PROVE CallInv'
  <2>1. f \in SizesOf(line) /\ f \in Sizes \cup {Capacity}
    BY SizesOfType DEF TypeInv, SizesOf
  <2>2. f \in SizesOf(line)' \ left'
    BY <1>0, <1>1, <2>1 DEF Evaluate
  <2>10. Value(f) \in Nat
    BY <2>1, ValueType
  <2>3. PICK v \in Nat : v = Value(f)
    BY <2>10
  <2>11. Value(f)' = v
    BY <1>1, <2>3, ValueFixed DEF Evaluate
  <2>4. size' = v /\ dbl_size' = v /\ i' = 0 /\ pc' = IF v > KB THEN "divide" ELSE "snprintf"
    BY <1>1, <2>3 DEF Evaluate
  <2>5. Unit[i' + 1] = 1
    BY <2>4, UnitAssumption
  <2>6. v * Unit[i' + 1] = v /\ (v + 1) * Unit[i' + 1] = v + 1
    BY <2>3, <2>5
  <2>7. Calculates(v)'
    <3>1. v <= v /\ v < v + 1 /\ (v > KB \/ v < KB \/ v = KB)
      OBVIOUS
    <3> QED BY <2>4, <2>6, <3>1 DEF Calculates
  <2>8. Calculates(Value(f))'
    BY <2>11, <2>7 DEF Calculates
  <2>9. pc' # "printf"
    BY <2>4
  <2> QED BY <2>2, <2>8, <2>9 DEF CallInv
<1>2. CASE Divide
  <2>1. PICK f \in SizesOf(line) \ left : Calculates(Value(f))
    BY <1>2 DEF CallInv, Divide
  <2>2. f \in SizesOf(line)' \ left' /\ Value(f)' = Value(f)
    BY <1>0, <1>2, ValueFixed DEF Divide
  <2>3. PICK v \in Nat : v = Value(f)
    <3>1. f \in Sizes \cup {Capacity}
      BY <2>1, SizesOfType DEF TypeInv, SizesOf
    <3>2. Value(f) \in Nat
      BY <3>1, ValueType
    <3> QED BY <3>2
  <2>4. CASE size \div KB > 0 /\ i < Len(Unit) - 1
    <3> DEFINE q == size \div KB  u == Unit[i + 1]
    <3>1. /\ q \in Nat /\ q > 0 /\ q * KB <= size /\ size + 1 <= (q + 1) * KB
      BY <2>4, KB \in Nat \ {0}, Quotient DEF TypeInv
    <3>2. i + 1 \in 1 .. Len(Unit) /\ i + 2 \in 2 .. Len(Unit) /\ (i + 2) - 1 = i + 1
      BY <2>4 DEF TypeInv
    <3>3. u \in Nat /\ Unit[i + 2] = KB * u
      BY <3>2, UnitAssumption
    <3>4. size \in Nat /\ size * u <= v /\ v < (size + 1) * u
      BY <2>1, <2>3 DEF Calculates, TypeInv
    <3> HIDE DEF q, u
    <3>5. /\ size' = q /\ dbl_size' = q /\ i' = i + 1 /\ pc' = pc
      BY <1>2, <2>4 DEF Divide, q
    <3>6. i' + 1 = i + 2 /\ i \in Nat
      BY <3>5 DEF TypeInv
    <3>7. q * (KB * u) <= v
      <4>1. (q * KB) * u <= size * u
        BY <3>1, <3>3, <3>4, TimesMonotone
      <4>2. (q * KB) * u = q * (KB * u)
        BY <3>1, <3>3, TimesAssociative
      <4>3. size * u \in Nat /\ q * (KB * u) \in Nat
        BY <3>1, <3>3, <3>4
      <4> QED BY <2>3, <3>4, <4>1, <4>2, <4>3
    <3>8. v < (q + 1) * (KB * u)
      <4>1. (size + 1) * u <= ((q + 1) * KB) * u
        BY <3>1, <3>3, <3>4, TimesMonotone
      <4>2. ((q + 1) * KB) * u = (q + 1) * (KB * u)
        BY <3>1, <3>3, TimesAssociative
      <4>3. (size + 1) * u \in Nat /\ (q + 1) * (KB * u) \in Nat
        BY <3>1, <3>3, <3>4
      <4> QED BY <2>3, <3>4, <4>1, <4>2, <4>3
    <3>9. pc' = "divide"
      BY <1>2, <3>5 DEF Divide
    <3>10. Calculates(v)'
      BY <3>1, <3>3, <3>5, <3>6, <3>7, <3>8, <3>9 DEF Calculates
    <3>11. Calculates(Value(f))'
      BY <2>2, <2>3, <3>10 DEF Calculates
    <3> QED BY <2>2, <3>9, <3>11 DEF CallInv
  <2>5. CASE ~(size \div KB > 0 /\ i < Len(Unit) - 1)
    <3>1. pc' = "snprintf" /\ size' = size /\ dbl_size' = dbl_size /\ i' = i
      BY <1>2, <2>5 DEF Divide, locals
    <3>2. size < KB \/ i = Len(Unit) - 1
      <4>1. size \div KB \in Nat /\ (size \div KB = 0 => size < KB)
        BY KB \in Nat \ {0}, Quotient DEF TypeInv
      <4> QED BY <2>5, <4>1 DEF TypeInv
    <3>3. Calculates(Value(f))'
      BY <2>1, <2>2, <3>1, <3>2 DEF Calculates
    <3> QED BY <2>2, <3>1, <3>3 DEF CallInv
  <2> QED BY <2>4, <2>5
<1>3. CASE WriteResult
  <2>1. PICK f \in SizesOf(line) \ left : Calculates(Value(f))
    BY <1>3 DEF CallInv, WriteResult
  <2>2. f \in SizesOf(line)' \ left' /\ Value(f)' = Value(f)
    BY <1>0, <1>3, ValueFixed DEF WriteResult
  <2>3. result' = <<dbl_size, i>> /\ pc' = "printf" /\ pc = "snprintf"
    BY <1>3 DEF WriteResult
  <2>4. result'[1] = size /\ result'[2] = i
    BY <2>1, <2>3 DEF Calculates
  <2>5. Tells(result', Value(f))
    BY <2>1, <2>3, <2>4 DEF Calculates, Tells
  <2>6. Tells(result, Value(f))'
    BY <2>2, <2>5 DEF Tells
  <2> QED BY <2>2, <2>3, <2>6 DEF CallInv
<1>4. CASE PrintLine
  BY <1>4 DEF PrintLine, CallInv
<1>5. CASE Finished \/ UNCHANGED vars
  <2>1. UNCHANGED <<file, line, left, pc, size, dbl_size, i, result>>
    BY <1>5 DEF Finished, vars, locals
  <2> QED BY <1>0, <2>1, ValueFixed DEF CallInv, Calculates, Tells
<1> QED BY <1>1, <1>2, <1>3, <1>4, <1>5 DEF Next

-----------------------------------------------------------------------------
(* The lines. *)

\* A line that is printed shows its sizes as the buffer, and its counters as
\* strtol() reads them.
LEMMA LinePrinted ==
    ASSUME TypeInv, PrintLine
    PROVE  /\ line \in 1 .. Len(Lines) /\ DOMAIN shown = 1 .. line - 1
           /\ DOMAIN shown' = 1 .. line
           /\ \A n \in DOMAIN shown : shown'[n] = shown[n]
           /\ \A f \in Lines[line] :
                  shown'[line][f] = IF f \in Counters THEN <<strtol(file[f]), 0>> ELSE result
<1> DEFINE t == [f \in Lines[line] |->
                    IF f \in Counters THEN <<strtol(file[f]), 0>> ELSE result]
           All == UNION {[S -> Text] : S \in SUBSET Fields}
<1>1. shown' = Append(shown, t) /\ \A f \in Lines[line] : t[f] =
          IF f \in Counters THEN <<strtol(file[f]), 0>> ELSE result
  BY DEF PrintLine
<1>2. shown \in Seq(All) /\ Len(shown) = line - 1 /\ line \in 1 .. Len(Lines)
  BY Constants DEF TypeInv, PrintLine
<1> HIDE DEF t, All
<1>3. /\ Len(shown') = Len(shown) + 1 /\ shown'[Len(shown) + 1] = t
      /\ \A n \in 1 .. Len(shown) : shown'[n] = shown[n]
      /\ DOMAIN shown' = 1 .. Len(shown')
  <2>1. shown \in Seq(All \cup {t}) /\ t \in All \cup {t}
    BY <1>2
  <2>2. Append(shown, t) \in Seq(All \cup {t})
    BY <2>1, AppendProperties
  <2> QED BY <1>1, <2>1, <2>2, AppendProperties, LenProperties
<1>4. DOMAIN shown = 1 .. Len(shown)
  BY <1>2, LenProperties
<1>5. (line - 1) + 1 = line
  BY <1>2, Constants
<1> QED BY <1>1, <1>2, <1>3, <1>4, <1>5, Constants

LEMMA ShownStep ==
    TypeInv /\ FormatInv /\ [Next]_vars => LineIsOneSize' /\ CountersShown'
<1> SUFFICES ASSUME TypeInv, FormatInv, [Next]_vars
             PROVE  LineIsOneSize' /\ CountersShown'
  OBVIOUS
<1>0. file' = file
  BY DEF Next, Evaluate, Divide, WriteResult, PrintLine, Finished, vars
<1>1. CASE shown' = shown
  BY <1>0, <1>1, ValueFixed DEF FormatInv, LineIsOneSize, CountersShown, Tells, strtol
<1>2. CASE PrintLine
  <2>1. /\ line \in 1 .. Len(Lines) /\ DOMAIN shown = 1 .. line - 1
        /\ DOMAIN shown' = 1 .. line
        /\ \A n \in DOMAIN shown : shown'[n] = shown[n]
        /\ \A f \in Lines[line] :
               shown'[line][f] = IF f \in Counters THEN <<strtol(file[f]), 0>> ELSE result
    BY <1>2, LinePrinted
  <2>2. \A n \in DOMAIN shown' : n \in DOMAIN shown \/ n = line
    BY <2>1, Constants
  <2>3. Lines[line] \cap Counters = {} =>
            \E f \in Lines[line] : \A g \in Lines[line] : Tells(shown'[line][g], Value(f))
    <3> SUFFICES ASSUME Lines[line] \cap Counters = {}
                 PROVE  \E f \in Lines[line] : \A g \in Lines[line] : Tells(shown'[line][g], Value(f))
      OBVIOUS
    <3>1. SizesOf(line) = Lines[line] /\ Lines[line] # {}
      BY <2>1, SizesOfType, Constants
    <3>2. pc = "printf" /\ left = {}
      BY <1>2 DEF PrintLine
    <3>3. PICK f \in Lines[line] : Tells(result, Value(f))
      BY <3>1, <3>2 DEF FormatInv, CallInv
    <3> QED BY <2>1, <3>3
  <2>4. \A f \in Lines[line] \cap Counters : shown'[line][f] = <<strtol(file[f]), 0>>
    BY <2>1
  <2>5. CountersShown'
    BY <1>0, <2>1, <2>2, <2>4 DEF FormatInv, CountersShown, strtol
  <2>6. \A n \in DOMAIN shown' : Lines[n] \cap Counters = {} =>
            \E f \in Lines[n] : \A g \in Lines[n] : Tells(shown'[n][g], Value(f))
    BY <2>1, <2>2, <2>3 DEF FormatInv, LineIsOneSize
  <2>7. LineIsOneSize'
    BY <1>0, <2>6, ValueFixed DEF LineIsOneSize, Tells
  <2> QED BY <2>5, <2>7
<1>3. shown' = shown \/ PrintLine
  BY DEF Next, Evaluate, Divide, WriteResult, Finished, vars
<1> QED BY <1>1, <1>2, <1>3

-----------------------------------------------------------------------------
(* Theorems. *)

\* The types of Format: calculate_size() never leaves its table of units, and a
\* line is printed after the one before it.
THEOREM TypeCorrect == Spec => []TypeInv
BY TypeInit, TypeStep, PTL DEF Spec

\* The buffer holds what was calculated last of the line, and what is printed is
\* the buffer: the inductive invariant of Format.
THEOREM FormatInvariant == Spec => [](TypeInv /\ FormatInv)
<1>1. Init => TypeInv /\ FormatInv
  <2>1. Init => LineIsOneSize /\ CountersShown
    BY DEF Init, LineIsOneSize, CountersShown
  <2> QED BY <2>1, TypeInit, CallInit DEF FormatInv
<1>2. TypeInv /\ FormatInv /\ [Next]_vars => (TypeInv /\ FormatInv)'
  BY TypeStep, CallStep, ShownStep DEF FormatInv
<1> QED BY <1>1, <1>2, PTL DEF Spec

\* The loop of calculate_size() ends with the largest unit that its argument
\* fills, for every width of a word, units and boundary: a line of one size that
\* is read tells that size, and the capacity of a disk is told in bytes if its
\* logical blocks are sectors.
THEOREM SizesAreTrue == Spec => []SizesTrue
<1>1. TypeInv /\ FormatInv => SizesTrue
  <2> SUFFICES ASSUME TypeInv, FormatInv, NEW n \in DOMAIN shown
               PROVE  /\ Lines[n] = {Capacity} /\ file["logical_block_size"] = Sector =>
                             Tells(shown[n][Capacity], file["size"] * Sector)
                      /\ \A f \in Sizes \ Unread :
                             Lines[n] = {f} => Tells(shown[n][f], file[f])
    BY DEF SizesTrue
  <2>1. ASSUME NEW f, Lines[n] = {f}, f \notin Counters PROVE Tells(shown[n][f], Value(f))
    BY <2>1 DEF FormatInv, LineIsOneSize
  <2>2. ASSUME file["logical_block_size"] = Sector
        PROVE  Value(Capacity) = file["size"] * Sector
    <3> DEFINE x == file["size"] * Sector  w == 2 * Half
    <3>1. file["size"] \in Nat /\ Sector \in Nat
      BY FieldsAssumption DEF TypeInv, Word
    <3>2. x < Half /\ x \in Nat /\ file["logical_block_size"] * file["size"] = x
      BY <2>2, <3>1, FieldsAssumption DEF TypeInv
    <3>3. w \in Nat \ {0} /\ x < w
      BY <3>2, Constants
    <3>4. Value(Capacity) = x % w
      BY <3>2 DEF Value
    <3> HIDE DEF x, w
    <3>5. x % w = x
      BY <3>2, <3>3
    <3> QED BY <3>4, <3>5 DEF x
  <2>3. Capacity \notin Counters /\ \A f \in Sizes : f \notin Counters /\ f # Capacity
    BY FieldsAssumption
  <2>4. \A f \in Sizes \ Unread : Value(f) = file[f]
    BY <2>3 DEF Value
  <2> QED BY <2>1, <2>2, <2>3, <2>4
<1> QED BY <1>1, FormatInvariant, PTL

\* Converting a counter to a signed number saturates: it never changes the order
\* of two counters, and only the upper half of the numbers of 64 bits.
THEOREM CountersKeepOrder == Spec => []CountersInOrder
<1>1. TypeInv /\ FormatInv => CountersInOrder
  <2> SUFFICES ASSUME TypeInv, FormatInv, NEW m \in DOMAIN shown, NEW n \in DOMAIN shown,
                      NEW f \in Lines[m] \cap Counters, NEW g \in Lines[n] \cap Counters
               PROVE  /\ file[f] <= file[g] => shown[m][f][1] <= shown[n][g][1]
                      /\ shown[m][f][1] <= file[f]
                      /\ shown[m][f][1] < file[f] => file[f] >= Half
    BY DEF CountersInOrder
  <2>1. shown[m][f][1] = strtol(file[f]) /\ shown[n][g][1] = strtol(file[g])
    BY DEF FormatInv, CountersShown
  <2>2. file[f] \in Nat /\ file[g] \in Nat
    BY Constants DEF TypeInv, Word
  <2> QED BY <2>1, <2>2, Constants DEF strtol
<1> QED BY <1>1, FormatInvariant, PTL

=============================================================================
