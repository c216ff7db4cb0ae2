------------------------------ MODULE ValueText ------------------------------
(***************************************************************************)
(* The text of a scalar: __config_write_value() of lib/libconfig.c and the *)
(* formatters of lib/util.c write it, the tables and rules of the scanner  *)
(* and libconfig_parse_integer() read it.                                  *)
(*                                                                         *)
(* Integers have their true widths: they are 64 bits, the highest first,   *)
(* in two's complement; a 32-bit integer is one whose first 33 bits agree. *)
(* Texts are sequences of characters.                                      *)
(***************************************************************************)
EXTENDS ScanRules

CONSTANTS
  Integers64,  \* values of settings of type INT64
  Strings,     \* values of settings of type STRING
  Printed      \* what snprintf() returns for a float

VARIABLES
  setting,  \* what is written: type, value and config_setting_get_format()
  text,     \* what was written
  read,     \* what the text is read as
  pc        \* "write", "read", "done"

vars == <<setting, text, read, pc>>

Bits == {0, 1}
BITS == 64
ASSUME ValueAssumption == \A v \in Integers64 : Len(v) = BITS /\ ToSet(v) \subseteq Bits

-----------------------------------------------------------------------------
(* Numbers.                                                                *)

(* n bits b.                                                               *)
Fill(b, n) == [i \in 1 .. n |-> b]
(* A number of fewer bits as one of 64.                                    *)
Widened(b, bits) == Fill(b, BITS - Len(bits)) \o bits
Low32(v) == SubSeq(v, 33, BITS)
IsNegative(v) == v[1] = 1
IsInt32(v) == \A i \in 1 .. 33 : v[i] = v[1]
(* INT32_MAX < v <= UINT32_MAX                                             *)
IsUint32Only(v) == v[33] = 1 /\ \A i \in 1 .. 32 : v[i] = 0

Negated(v) ==
  LET last == SelectLastInSeq(v, LAMBDA b : b = 1)
  IN [i \in DOMAIN v |-> IF i < last THEN 1 - v[i] ELSE v[i]]
(* The bits of the absolute value.                                         *)
Magnitude(v) == IF IsNegative(v) THEN Negated(v) ELSE v

(* Digits without zeros in front.                                          *)
Stripped(digits) ==
  LET first == SelectInSeq(digits, LAMBDA d : d # 0)
  IN IF first = 0 THEN <<>> ELSE SubSeq(digits, first, Len(digits))
OrZero(digits) == IF digits = <<>> THEN <<0>> ELSE digits

(* k digits of the base as one digit, and back.                            *)
Grouped(digits, base, k) ==
  LET n == Len(digits)
      count == (n + k - 1) \div k
      digit(j) == IF j < 1 THEN 0 ELSE digits[j]
  IN [g \in 1 .. count |->
        LET last == n - (count - g) * k
        IN FoldLeft(LAMBDA d, e : base * d + e, 0, [i \in 1 .. k |-> digit(last - k + i)])]
Ungrouped(digits, base, k) ==
  Stripped(FlattenSeq([i \in DOMAIN digits |->
                         [j \in 1 .. k |-> (digits[i] \div base^(k - j)) % base]]))

(* Digits of one base in another, by division.                             *)
RECURSIVE Rebased(_, _, _)
Rebased(digits, from, to) ==
  IF digits = <<>> THEN <<>>
  ELSE LET step(d, e) == [quotient |-> Append(d.quotient, (d.rest * from + e) \div to),
                          rest |-> (d.rest * from + e) % to]
           divided == FoldLeft(step, [quotient |-> <<>>, rest |-> 0], digits)
       IN Append(Rebased(Stripped(divided.quotient), from, to), divided.rest)

ToDecimal(bits) ==
  Ungrouped(Rebased(Stripped(Grouped(bits, 2, 16)), 65536, 10000), 10, 4)
FromDecimal(digits) ==
  Ungrouped(Rebased(Stripped(Grouped(digits, 10, 4)), 10000, 65536), 2, 16)

-----------------------------------------------------------------------------
(* Writing.                                                                *)

Char(d) == IF d < 10 THEN 48 + d ELSE 55 + d
Chars(digits) == [i \in DOMAIN digits |-> Char(digits[i])]
L == 76
Quote == 34
Backslash == 92

(* libconfig_format_bin(): the 64 bits of the value from the first that is *)
(* set, or one 0.                                                          *)
FormatBin(v) == Chars(OrZero(Stripped(v)))

(* What %X and %o print of the bits of an unsigned value.                  *)
Unsigned(bits, k) == Chars(OrZero(Stripped(Grouped(bits, 2, k))))
(* What %d and %lld print.                                                 *)
Signed(v) ==
  (IF IsNegative(v) THEN <<45>> ELSE <<>>) \o Chars(OrZero(ToDecimal(Magnitude(v))))

(* CONFIG_TYPE_INT and CONFIG_TYPE_INT64                                   *)
WriteInteger(type, v, format) ==
  LET bits == IF type = "INT" THEN Low32(v) ELSE v
      digits == CASE format = "HEX" -> <<48, 120>> \o Unsigned(bits, 4)
                  [] format = "BIN" -> <<48, 98>> \o FormatBin(v)
                  [] format = "OCT" -> <<48, 111>> \o Unsigned(bits, 3)
                  [] OTHER -> Signed(v)
  IN IF type = "INT" THEN digits ELSE Append(digits, L)

\* Mutant: a whole number is written without a point.
FormatDoubleAsPrinted(printed) == printed
(* libconfig_format_double(), after snprintf().                            *)
FormatDouble(printed) ==
  LET point == SelectInSeq(printed, LAMBDA c : c = 46)
      zeros == {i \in point + 2 .. Len(printed) : \A j \in i .. Len(printed) : printed[j] = 48}
  IN IF 101 \in ToSet(printed) THEN printed
     ELSE IF point = 0 THEN printed \o <<46, 48>>
     ELSE SubSeq(printed, 1, Len(printed) - Cardinality(zeros))

\* Mutant: a character is written with as many hexadecimal digits as it has.
EscapeShort(c) ==
  CASE c \in {Quote, Backslash} -> <<Backslash, c>>
    [] c < 16 -> <<Backslash, 120, Char(c)>>
    [] c \in 16 .. 31 -> <<Backslash, 120, Char(c \div 16), Char(c % 16)>>
    [] OTHER -> <<c>>
(* One character of a string.                                              *)
Escape(c) ==
  CASE c \in {Quote, Backslash} -> <<Backslash, c>>
    [] c = 10 -> <<Backslash, 110>> [] c = 13 -> <<Backslash, 114>>
    [] c = 12 -> <<Backslash, 102>> [] c = 9 -> <<Backslash, 116>>
    [] c < 32 /\ c \notin {10, 13, 12, 9} ->
         <<Backslash, 120, Char(c \div 16), Char(c % 16)>>
    [] OTHER -> <<c>>
WriteString(s) ==
  <<Quote>> \o FlattenSeq([i \in DOMAIN s |-> Escape(s[i])]) \o <<Quote>>

Written(s) ==
  CASE s.type = "BOOL" -> IF s.value # 0 THEN <<116, 114, 117, 101>>
                          ELSE <<102, 97, 108, 115, 101>>
    [] s.type \in {"INT", "INT64"} -> WriteInteger(s.type, s.value, s.format)
    [] s.type = "FLOAT" -> FormatDouble(s.value)
    [] s.type = "STRING" -> WriteString(s.value)

-----------------------------------------------------------------------------
(* Reading.                                                                *)

Refused == [type |-> "ERROR", value |-> <<>>]

DigitOf(c) == IF c > 57 THEN HexDigit(c) ELSE c - 48

(* strtoll() of digits with a sign: the value, or errno is ERANGE.         *)
Strtoll(digits, negative, base) ==
  LET bits == Stripped(CASE base = 10 -> FromDecimal(digits)
                         [] base = 2 -> digits
                         [] base = 8 -> Ungrouped(digits, 2, 3)
                         [] base = 16 -> Ungrouped(digits, 2, 4))
      least == <<1>> \o Fill(0, BITS - 1)
      inRange == Len(bits) < BITS \/ (negative /\ bits = least)
  IN IF ~inRange THEN [error |-> TRUE]
     ELSE [error |-> FALSE,
           value |-> IF negative THEN Negated(Widened(0, bits)) ELSE Widened(0, bits)]

\* Mutant: a value of 32 bits in another base stays what it is.
FoldedNever(v, base) == v
(* A value that fills 32 bits in another base than ten is a negative int.  *)
Folded(v, base) == IF base # 10 /\ IsUint32Only(v) THEN Widened(1, Low32(v)) ELSE v

(* libconfig_parse_integer()                                               *)
ParseInteger(chars, base) ==
  LET negative == chars # <<>> /\ chars[1] = 45
      digits == SelectSeq(chars, LAMBDA c : c \notin {43, 45, L})
      value == Strtoll([i \in DOMAIN digits |-> DigitOf(digits[i])], negative, base)
      v == Folded(value.value, base)
      long == L \in ToSet(chars) \/ ~IsInt32(v)
  IN IF value.error THEN Refused
     ELSE [type |-> IF long THEN "INT64" ELSE "INT", value |-> v]

(* The rules 33 to 41 and 21 of the scanner.                               *)
ReadAs(rule, chars) ==
  CASE rule = 33 -> [type |-> "BOOL", value |-> 1]
    [] rule = 34 -> [type |-> "BOOL", value |-> 0]
    [] rule = 36 -> [type |-> "FLOAT", value |-> chars]
    [] rule \in {37, 38} -> ParseInteger(chars, 10)
    [] rule = 39 -> ParseInteger(SubSeq(chars, 3, Len(chars)), 2)
    [] rule = 40 -> ParseInteger(SubSeq(chars, 3, Len(chars)), 8)
    [] rule = 41 -> ParseInteger(SubSeq(chars, 3, Len(chars)), 16)
    [] OTHER -> Refused

(* A text that is one token, or a string that is several.                  *)
Scanned(chars) ==
  LET match == Longest(chars, 1, "INITIAL", TRUE)
      tokens == TokensOf(chars)
  IN IF chars[1] = Quote
     THEN IF Len(tokens) = 2 /\ tokens[1][1] = "STRING"
          THEN [type |-> "STRING", value |-> tokens[1][2]] ELSE Refused
     ELSE IF match[2] = Len(chars) THEN ReadAs(match[1], chars) ELSE Refused

-----------------------------------------------------------------------------
Formats == {"DEFAULT", "HEX", "BIN", "OCT"}
Setting(t, v, f) == [type |-> t, value |-> v, format |-> f]
ScalarSettings ==
  {Setting("INT64", v, f) : v \in Integers64, f \in Formats}
    \cup {Setting("INT", v, f) : v \in {w \in Integers64 : IsInt32(w)}, f \in Formats}
    \cup {Setting("STRING", s, "DEFAULT") : s \in Strings}
    \cup {Setting("FLOAT", p, "DEFAULT") : p \in Printed}
    \cup {Setting("BOOL", b, "DEFAULT") : b \in {0, 1, 5}}

Init ==
  /\ setting \in ScalarSettings
  /\ text = <<>> /\ read = Refused /\ pc = "write"

WriteValue ==
  /\ pc = "write"
  /\ text' = Written(setting) /\ pc' = "read"
  /\ UNCHANGED <<setting, read>>

ReadValue ==
  /\ pc = "read"
  /\ read' = Scanned(text) /\ pc' = "done"
  /\ UNCHANGED <<setting, text>>

Next == WriteValue \/ ReadValue

Spec == Init /\ [][Next]_vars

-----------------------------------------------------------------------------
(* Correctness.                                                            *)

IsInteger == setting.type \in {"INT", "INT64"}
Same == read.type = setting.type /\ read.value = setting.value

(* A negative integer in a format that has no sign is written with all 64  *)
(* bits, and in base two even when it has 32: strtoll() has no such value. *)
HasNoText ==
  /\ IsNegative(setting.value)
  /\ \/ setting.type = "INT64" /\ setting.format # "DEFAULT"
     \/ setting.type = "INT" /\ setting.format = "BIN"

(* A 64-bit integer that fills 32 bits is read as a negative one.          *)
IsFolded ==
  setting.type = "INT64" /\ setting.format # "DEFAULT" /\ IsUint32Only(setting.value)

(* An integer that is written is read again with its type, its width and   *)
(* its sign in every format, but for the two cases above; a text that      *)
(* cannot be read is refused, never taken for another number.              *)
IntegersAreReadAgain ==
  pc = "done" /\ IsInteger =>
    IF HasNoText THEN read = Refused
    ELSE IF IsFolded THEN read.value = Widened(1, Low32(setting.value))
    ELSE Same

(* A string is read again with every character, whatever follows an        *)
(* escape; a float stays a float; a boolean keeps its truth.               *)
TextsAreReadAgain ==
  pc = "done" /\ ~IsInteger =>
    /\ read.type = setting.type
    /\ setting.type = "STRING" => read.value = setting.value
    /\ setting.type = "BOOL" => (read.value = 1) <=> (setting.value # 0)
===============================================================================
