----------------------------- MODULE PrintFormat -----------------------------
(***************************************************************************)
(* What printf_ prints for a format and its arguments (F4/driver_UART.c),  *)
(* one step for each turn of its loop, and what a reader of the format     *)
(* would expect.  The characters are those that the conversions tell       *)
(* apart, %p is %x, and the strings of %s are all Str.                     *)
(*                                                                         *)
(*   fmt, args   the call                                                  *)
(*   i, k        the position in fmt, and the arguments taken              *)
(*   buf, offset what is printed                                           *)
(*   sent        what is handed to the driver, NotSent before              *)
(***************************************************************************)
EXTENDS Integers, FiniteSetsExt, SequencesExt

CONSTANTS Formats,         \* sequences of characters
          Values,          \* of the arguments of %d and %x
          Str,             \* the argument of %s
          Width,           \* bits of an int
          Room             \* characters that fit the buffer of the models

FormatAssumption == /\ Width \in Nat \ {0} /\ Room \in Nat
                    /\ \A f \in Formats : Len(f) > 0

VARIABLES fmt, args, i, k, buf, offset, sent

vars == <<fmt, args, i, k, buf, offset, sent>>

Nul == "nul"
NotSent == <<"not sent">>
Conversion == {"d", "x", "s"}
digitals == <<"0", "1", "2", "3", "4", "5", "6", "7", "8", "9", "A", "B", "C",
              "D", "E", "F">>

\* fmt[j] of the code: a terminating zero follows the last character.
At(j) == IF j \in DOMAIN fmt THEN fmt[j] ELSE Nul
Converts(j) == At(j) = "%" /\ At(j + 1) \in Conversion

Init == /\ fmt \in Formats
        /\ args \in [1 .. Cardinality({j \in DOMAIN fmt : fmt[j] = "%"})
                       -> Values]
        /\ i = 1 /\ k = 0
        /\ buf = [c \in 1 .. Room |-> Nul]
        /\ offset = 0
        /\ sent = NotSent

\* Mutant: a quotient of 0 is tested before the first digit is written.
DigitsNone(x, base) ==
  LET d[n \in 0 .. 2 ^ Width] ==
        IF n = 0 THEN <<>> ELSE Append(d[n \div base], digitals[(n % base) + 1])
  IN d[x]

\* The do loop of printint, from the last digit to the first.
Digits(x, base) ==
  LET d[n \in 0 .. 2 ^ Width] ==
        IF n < base THEN <<digitals[n + 1]>>
        ELSE Append(d[n \div base], digitals[(n % base) + 1])
  IN d[x]

\* printint.  The negative of the least int is itself, as an unsigned.
printint(xx, base) ==
  LET x == (IF xx < 0 THEN -xx ELSE xx) % (2 ^ Width)
  IN (IF xx < 0 THEN <<"-">> ELSE <<>>)
     \o (IF base = 16 THEN <<"0", "x">> ELSE <<>>) \o Digits(x, base)

Written(text, at) == [c \in DOMAIN buf |->
                        IF c - at \in DOMAIN text THEN text[c - at] ELSE buf[c]]

Skipped == 2

\* A turn of the loop at a conversion: its text, and then the character
\* behind it, whatever that is.
Convert ==
  LET text == CASE At(i + 1) = "d" -> printint(args[k + 1], 10)
                [] At(i + 1) = "x" -> printint(args[k + 1], 16)
                [] OTHER -> Str
      behind == offset + Len(text)
  IN /\ sent = NotSent /\ i <= Len(fmt) /\ Converts(i)
     /\ buf' = [Written(text, offset) EXCEPT ![behind + 1] = At(i + Skipped)]
     /\ offset' = behind + 1
     /\ k' = k + 1 /\ i' = i + Skipped + 1
     /\ UNCHANGED <<fmt, args, sent>>

Copy == /\ sent = NotSent /\ i <= Len(fmt) /\ ~Converts(i)
        /\ buf' = Written(<<At(i)>>, offset)
        /\ offset' = offset + 1
        /\ i' = i + 1
        /\ UNCHANGED <<fmt, args, k, sent>>

Send == /\ sent = NotSent /\ i > Len(fmt)
        /\ sent' = SubSeq(buf, 1, offset)
        /\ UNCHANGED <<fmt, args, i, k, buf, offset>>

Next == Convert \/ Copy \/ Send

Spec == Init /\ [][Next]_vars

-----------------------------------------------------------------------------
\* A number as a reader writes it down, with two digits at most.
NumberText(v, base) ==
  LET m == IF v < 0 THEN -v ELSE v
  IN (IF v < 0 THEN <<"-">> ELSE <<>>)
     \o (IF base = 16 THEN <<"0", "x">> ELSE <<>>)
     \o (IF m >= base THEN <<digitals[(m \div base) + 1]>> ELSE <<>>)
     \o <<digitals[(m % base) + 1]>>

\* What the format asks for: every conversion its text, all else itself.
Expected ==
  LET text(j, n) == CASE fmt[j + 1] = "d" -> NumberText(args[n], 10)
                      [] fmt[j + 1] = "x" -> NumberText(args[n], 16)
                      [] OTHER -> Str
      e[j \in 1 .. Len(fmt) + 1, n \in 1 .. Len(fmt) + 1] ==
        IF j > Len(fmt) THEN <<>>
        ELSE IF Converts(j) THEN text(j, n) \o e[j + 2, n + 1]
        ELSE <<fmt[j]>> \o e[j + 1, n]
  IN e[1, 1]

Starts == {j \in DOMAIN fmt : Converts(j)}
Adjacent == \E j \in Starts : Converts(j + 2)
EndsIn == \E j \in Starts : j + 1 = Len(fmt)

TypeOK == /\ i \in 1 .. Len(fmt) + 2
          /\ offset \in 0 .. Room
          /\ k \in 0 .. Len(args)
          /\ DOMAIN buf = 1 .. Room

\* A format is printed as its reader expects, with a zero behind it if it ends
\* in a conversion; unless a conversion follows another one directly, and is
\* printed as it stands (F4/driver_UART.c:53-83).
AsExpected ==
  sent # NotSent /\ ~Adjacent =>
    sent = Expected \o (IF EndsIn THEN <<Nul>> ELSE <<>>)
=============================================================================
