------------------------------ MODULE StoredTime ------------------------------
(*****************************************************************************)
(* How the SQLite adapter orders instants.                                   *)
(*                                                                           *)
(* Every timestamp column is TEXT written by formatTime, which prints        *)
(* RFC 3339 with the trailing zeros of the fraction removed, and no fraction *)
(* (nor its dot) at all on a whole second.  The WHERE and ORDER BY clauses   *)
(* compare these texts byte by byte.  The date and time of day have a fixed  *)
(* width, so they compare as numbers; the fraction does not: where one text  *)
(* already shows its final Z the other still shows a digit (or the dot), and *)
(* in ASCII '.' < '0' < ... < '9' < 'Z'.  A trimmed text therefore sorts     *)
(* AFTER every longer text that it is a prefix of.                           *)
(*                                                                           *)
(* An instant is a natural number of ticks, Radix ^ Digits to the second:    *)
(* the code has Radix = 10 and Digits = 9.                                   *)
(*****************************************************************************)
EXTENDS Integers

CONSTANTS Radix,    \* the number of values of one digit of the fraction
          Digits    \* the number of digits of the fraction

ASSUME RadixAssumption == Radix \in Nat /\ Radix > 1
ASSUME DigitsAssumption == Digits \in Nat

Instant == Nat
TicksPerSecond == Radix ^ Digits

\* Powers are outside the theories of the provers, so what follows from the two
\* assumptions above is stated once more.
ASSUME PowerAssumption == \A e \in 0..Digits : Radix ^ e \in Nat \ {0}

\* Text position 0 is the part of fixed width.  Position i >= 1 is the i-th
\* digit of the fraction, or Z (above every digit) once only zeros are left.
Trimmed(t, i) == t % (Radix ^ (Digits - i + 1)) = 0

formatTime(t) ==
    [i \in 0..Digits |->
        IF i = 0 THEN t \div TicksPerSecond
        ELSE IF Trimmed(t, i) THEN Radix
        ELSE (t \div (Radix ^ (Digits - i))) % Radix]

\* The < and <= of SQL on two stored texts.
TextLess(x, y) ==
    \E i \in 0..Digits : x[i] < y[i] /\ \A j \in 0..(i - 1) : x[j] = y[j]

StoredBefore(a, b) == TextLess(formatTime(a), formatTime(b))
StoredAtMost(a, b) == a = b \/ StoredBefore(a, b)
===============================================================================
