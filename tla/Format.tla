------------------------------- MODULE Format -------------------------------
(***************************************************************************)
(* printf of student-distrib/lib.c and the helpers under it, as functions  *)
(* from their arguments to the characters that are put on the screen.      *)
(*                                                                         *)
(* A string is a sequence of characters without its terminator; an         *)
(* argument is a word (0 .. WORD - 1), a character or a string, according  *)
(* to the conversion that takes it.                                        *)
(***************************************************************************)
EXTENDS Integers, Sequences

CONSTANTS
    WORD,      \* 2^32
    HexWidth   \* digits that %#x prints (8)

lookup == <<"0", "1", "2", "3", "4", "5", "6", "7", "8", "9",
            "A", "B", "C", "D", "E", "F">>

\* Mutant: the loop stops one digit early.
LowFirst_DropLast(value, radix) ==
    LET digits[v \in Nat] == IF v < radix /\ v # value THEN <<>>
                             ELSE <<lookup[(v % radix) + 1]>> \o digits[v \div radix]
    IN  digits[value]

\* The digits of a number above 0 in the order the loop of itoa writes them.
LowFirst(value, radix) ==
    LET digits[v \in Nat] == IF v = 0 THEN <<>>
                             ELSE <<lookup[(v % radix) + 1]>> \o digits[v \div radix]
    IN  digits[value]

\* strrev: the two ends are swapped until they meet
strrev(s) == [i \in DOMAIN s |-> s[Len(s) + 1 - i]]

itoa(value, radix) == IF value = 0 THEN <<"0">> ELSE strrev(LowFirst(value, radix))

\* %#x: zeros in front of the digits, which end at a fixed place of conv_buf
Padded(s) == [i \in 1 .. HexWidth - Len(s) |-> "0"] \o s

\* What one conversion puts on the screen for its argument; the unary minus of
\* %d works on words.
Converted(spec, alternate, arg) ==
    CASE spec = "%" -> <<"%">>
      [] spec = "x" -> IF alternate THEN Padded(itoa(arg, 16)) ELSE itoa(arg, 16)
      [] spec = "u" -> itoa(arg, 10)
      [] spec = "d" -> IF arg >= WORD \div 2 THEN <<"-">> \o itoa(WORD - arg, 10)
                                             ELSE itoa(arg, 10)
      [] spec = "c" -> <<arg>>
      [] spec = "s" -> arg
      [] OTHER -> <<>>

\* printf(format, args...).  No format of the kernel ends in a lone %, behind
\* which the loop would run past the terminator.
printf(format, args) ==
    LET out[p \in (1 .. Len(format) + 1) \X Nat] ==
          LET buf == p[1]
              esp == p[2]
          IN  IF buf > Len(format) THEN <<>>
              ELSE IF format[buf] # "%" THEN <<format[buf]>> \o out[<<buf + 1, esp>>]
              ELSE LET at == CHOOSE n \in buf + 1 .. Len(format) :
                                /\ format[n] # "#"
                                /\ \A m \in buf + 1 .. n - 1 : format[m] = "#"
                       takes == format[at] \in {"x", "u", "d", "c", "s"}
                   IN  Converted(format[at], at > buf + 1,
                                 IF takes THEN args[esp] ELSE 0)
                          \o out[<<at + 1, IF takes THEN esp + 1 ELSE esp>>]
    IN  out[<<1, 1>>]

-----------------------------------------------------------------------------
(* Reference: what a string of digits means *)

Digit(ch) == (CHOOSE d \in 1 .. 16 : lookup[d] = ch) - 1

Value(s, radix) ==
    LET upto[n \in 0 .. Len(s)] == IF n = 0 THEN 0 ELSE upto[n - 1] * radix + Digit(s[n])
    IN  upto[Len(s)]

\* s is the number v, written without superfluous zeros.
IsNumeral(s, v, radix) ==
    /\ s # <<>> /\ \A i \in DOMAIN s : Digit(s[i]) < radix
    /\ Value(s, radix) = v
    /\ s[1] = "0" => v = 0 /\ Len(s) = 1
=============================================================================
