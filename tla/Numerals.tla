------------------------------ MODULE Numerals ------------------------------
(***************************************************************************)
(* The conversions between sequence numbers and the decimal strings that   *)
(* end the names of sequential nodes (store.go), and the number the lock   *)
(* manager reads back from such a name.  A numeral is the sequence of its  *)
(* digits.                                                                 *)
(***************************************************************************)
EXTENDS Integers, Sequences

CONSTANTS
    Radix,   \* 10 in the code
    Width    \* the width sequence numbers are padded to, 10 in the code

ASSUME NumeralsAssumption == Radix \in Nat \ {0, 1} /\ Width \in Nat \ {0}

itoa[k \in Nat] == IF k < Radix THEN <<k>> ELSE Append(itoa[k \div Radix], k % Radix)

\* Mutant: one digit short.
padLeftShort(s, length) ==
    IF Len(s) >= length - 1 THEN s
    ELSE [i \in 1..(length - 1 - Len(s)) |-> 0] \o s

padLeft(s, length) ==
    IF Len(s) >= length THEN s ELSE [i \in 1..(length - Len(s)) |-> 0] \o s

formatSequence(seq) == padLeft(itoa[seq], Width)

\* The loop over the digits: seq after each of them, from start.
readDigits(digits, start) ==
    LET seq[n \in 0..Len(digits)] == IF n = 0 THEN start ELSE seq[n - 1] * Radix + digits[n]
    IN  seq

\* Mutant: the loop starts at 1.
parseSequenceFromOne(digits) == readDigits(digits, 1)[Len(digits)]

parseSequence(digits) == readDigits(digits, 0)[Len(digits)]

\* The order of sort.Strings.
SortsBefore(s, t) ==
    \/ \E k \in 1..Len(s) : /\ k <= Len(t) /\ s[k] < t[k]
                            /\ SubSeq(s, 1, k - 1) = SubSeq(t, 1, k - 1)
    \/ Len(s) < Len(t) /\ s = SubSeq(t, 1, Len(s))

=============================================================================
