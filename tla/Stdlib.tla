------------------------------- MODULE Stdlib -------------------------------
(***************************************************************************)
(* Library functions of user programs, src/user_programs/stdlib/src.       *)
(* Strings are sequences of character codes.                               *)
(***************************************************************************)
EXTENDS Integers, Sequences, SequencesExt

CONSTANTS
    INT             \* number of values of an int

ASSUME StdlibAssumption == INT \in Nat /\ INT % 2 = 0

\* An int after overflow.
Wrap(n) == ((n + INT \div 2) % INT) - INT \div 2

\* C division rounds towards zero.
Quotient(n, d)  == IF n >= 0 THEN n \div d ELSE -((-n) \div d)
Remainder(n, d) == n - d * Quotient(n, d)

\* Mutant: the string is left in the order of the digits.
reverse_str_Keeps(str) == str

reverse_str(str) == Reverse(str)

ZERO  == 48
MINUS == 45
LF    == 10

\* The digits of num from the lowest up.
Digits(num) ==
    LET digits[n \in Int] ==
          IF n = 0 THEN <<>> ELSE <<ZERO + Remainder(n, 10)>> \o digits[Quotient(n, 10)]
    IN  digits[num]

itoa(num) ==
    IF num = 0 THEN <<ZERO, LF>>
    ELSE IF num < 0 THEN reverse_str(Digits(Wrap(-num)) \o <<MINUS>>)
    ELSE reverse_str(Digits(num))

PERCENT == 37
LetterI == 105
LetterS == 115

\* The characters that printf writes: %i is the next argument in decimal
\* notation, %s the next argument, and % before another character is dropped.
printf(fmt, args) ==
    LET text[k \in Nat, a \in Nat] ==
          CASE k > Len(fmt)      -> <<>>
            [] k <= Len(fmt) /\ fmt[k] # PERCENT -> <<fmt[k]>> \o text[k + 1, a]
            [] OTHER -> CASE fmt[k + 1] = LetterI -> itoa(args[a]) \o text[k + 2, a + 1]
                          [] fmt[k + 1] = LetterS -> args[a] \o text[k + 2, a + 1]
                          [] OTHER                -> <<fmt[k + 1]>> \o text[k + 2, a]
    IN  text[1, 1]

strncpy(str, n) == SubSeq(str, 1, IF Len(str) < n THEN Len(str) ELSE n)

\* A call of strtok: the token and what the static remainder points to next,
\* [some |-> FALSE] when it becomes a null pointer.
strtok(remainder, delim) ==
    LET at == {i \in 1..Len(remainder) : remainder[i] = delim}
        i  == CHOOSE k \in at : \A j \in at : k <= j
    IN  IF at = {} THEN [token |-> remainder, some |-> FALSE, rest |-> <<>>]
        ELSE [token |-> SubSeq(remainder, 1, i - 1), some |-> TRUE,
              rest  |-> SubSeq(remainder, i + 1, Len(remainder))]
=============================================================================
