------------------------------- MODULE Format -------------------------------
(***************************************************************************)
(* format (logging/format.c), the printf of the kernel: a character of the *)
(* format string at a time, for any sequence of directives.  Characters    *)
(* are strings, "NUL" ends the format string.  Output is a sequence of     *)
(* characters.  An argument is a word of Bits.max bits; the widths of the  *)
(* C types are parameters.                                                 *)
(***************************************************************************)
EXTENDS Integers, Sequences

CONSTANTS
    Bits,           \* number of bits of int, char (hh), short (h), and the rest
    Words,          \* arguments passed for numbers
    Character,      \* the character of each char
    Strings,        \* arguments passed for strings
    Alphabet,       \* characters of format strings
    MaxNum          \* bound on the numbers in a format string

FormatAssumption ==
    /\ DOMAIN Bits = {"int", "hh", "h", "max"}
    /\ Bits.hh < Bits.h /\ Bits.h < Bits.int /\ Bits.int <= Bits.max
    /\ DOMAIN Character = 0 .. 2 ^ Bits.hh - 1
    /\ Words \subseteq 0 .. 2 ^ Bits.max - 1 /\ MaxNum \in Nat

VARIABLES
    at,             \* the label, and what of it was read
    d,              \* flags, width, precision and length_prefix
    out,            \* what the last character made format write
    taken,          \* arguments taken since the directive began
    ref             \* history: the directive, the arguments it takes and what
                    \* it writes, as the C standard has it

vars == <<at, d, out, taken, ref>>

Flags == {"-", "+", " ", "#", "0"}
Digits == [c \in {"0", "1", "2", "3"} |-> CASE c = "0" -> 0 [] c = "1" -> 1
                                          [] c = "2" -> 2 [] c = "3" -> 3]
Symbol(x, upper) ==
    IF upper THEN <<"A", "B", "C", "D", "E", "F">>[x - 9]
    ELSE <<"0", "1", "2", "3", "4", "5", "6", "7", "8", "9",
           "a", "b", "c", "d", "e", "f">>[x + 1]
Fresh == [flags |-> {}, width |-> 0, prec |-> -1, len |-> "none"]

Width(t) == IF t \in {"hh", "h", "int"} THEN Bits[t] ELSE Bits.max
Signed(a, bits) == LET v == a % 2 ^ bits
                   IN  IF v >= 2 ^ (bits - 1) THEN v - 2 ^ bits ELSE v
Rep(x, n) == [i \in 1 .. (IF n > 0 THEN n ELSE 0) |-> x]
Max2(m, n) == IF m > n THEN m ELSE n

\* What a label does: go on at a label, having written o and taken n arguments.
Step(label, dir, o, n) == [at |-> label, d |-> dir, out |-> o, n |-> n]
Literal == <<"literal">>        \* the directive itself, from lbl_invalid
-----------------------------------------------------------------------------
\* g_lookup: the type of the argument, from the row of the length prefix or, if
\* that has none, from the row without a prefix.
Row(len, c) ==
    CASE c \in {"d", "i"} /\ len # "L" -> "signed"
      [] c \in {"o", "x", "u"} /\ len # "L" -> "unsigned"
      [] c = "n" /\ len # "L" -> "pointer"
      [] c \in {"c"} /\ len \in {"none", "l"} -> "signed"
      [] c = "s" /\ len \in {"none", "l"} -> "pointer"
      [] c = "p" /\ len = "none" -> "pointer"
      [] c \in {"f", "e", "a", "g"} /\ len \in {"none", "l", "L"} -> "double"
      [] OTHER -> "no"
g_lookup(len, c) ==
    IF Row(len, c) = "no" THEN [kind |-> Row("none", c), type |-> "int"]
    ELSE [kind |-> Row(len, c),
          type |-> IF len = "none" \/ c = "c" THEN "int" ELSE len]

\* The loop that finds the power of the first digit, and how many digits.
Power(v, radix) ==
    LET p[k \in 0 .. Bits.max] ==
          IF k = 0 THEN <<1, 0>>
          ELSE LET q == p[k - 1]
               IN  IF v \div q[1] >= radix THEN <<q[1] * radix, q[2] + 1>> ELSE q
    IN  p[Bits.max]

\* The loop that writes the digits: it also stops when nothing but zeros is
\* left and the precision is 0.
WriteDigits(v0, pw0, radix, prec, upper) ==
    LET w[k \in 0 .. Bits.max + 1] ==
          IF k = 0 THEN [v |-> v0, pw |-> pw0, o |-> <<>>]
          ELSE LET q == w[k - 1]
               IN  IF q.pw = 0 \/ (prec = 0 /\ q.v = 0) THEN q
                   ELSE [v |-> q.v % q.pw, pw |-> q.pw \div radix,
                         o |-> Append(q.o, Symbol(q.v \div q.pw, upper /\ q.v \div q.pw > 9))]
    IN  w[Bits.max + 1].o

\* lbl_print_number, for the value in unsigned form.
print_number(f, c, v, negative) ==
    LET prec == IF f.prec < 0 THEN 1 ELSE f.prec
        radix == CASE c \in {"x", "X"} -> 16 [] c = "o" -> 8 [] OTHER -> 10
        alt == "#" \in f.flags
        noPrefixOnZero == c \in {"x", "X", "o"}
        prefix == CASE c \in {"x", "X"} /\ alt -> <<"0", c>>
                    [] c \in {"d", "i"} /\ "+" \in f.flags -> <<"+">>
                    [] c \in {"d", "i"} /\ " " \in f.flags /\ "+" \notin f.flags ->
                         <<" ">>
                    [] OTHER -> <<>>
        lead == IF negative THEN <<"-">>
                ELSE IF ~noPrefixOnZero \/ v # 0 THEN prefix ELSE <<>>
        power == Power(v, radix)
        digits == (IF prec # 0 \/ v # 0 THEN 1 ELSE 0) + power[2]
        pad0 == Max2(prec - digits, 0)
        pad == IF pad0 = 0 /\ c = "o" /\ alt /\ v # 0 THEN 1 ELSE pad0
        length == digits + pad + Len(lead)
        fill == f.width - length
        left == "-" \in f.flags
        zero == "0" \in f.flags
    IN  (IF ~left /\ ~zero THEN Rep(" ", fill) ELSE <<>>)
        \o (IF length = 0 THEN <<>>
            ELSE lead \o (IF zero /\ ~left THEN Rep("0", fill) ELSE <<>>)
                 \o Rep("0", pad) \o WriteDigits(v, power[1], radix, prec, c = "X")
                 \o (IF left THEN Rep(" ", fill) ELSE <<>>))

\* c and s.
Justify(f, o) ==
    LET fill == Rep(" ", f.width - Len(o))
    IN  IF "-" \in f.flags THEN o \o fill ELSE fill \o o
Truncated(f, s) ==
    IF f.prec >= 0 /\ f.prec < Len(s) THEN SubSeq(s, 1, f.prec) ELSE s

\* A '%' starts a directive with everything reset.
Percent(f) == Fresh

\* lbl_modifiers: a is the argument, s the string it points to.  The table is
\* indexed by any character: outside the letters it is read out of bounds, and
\* oob says whether what was found there takes an argument.  lbl_invalid writes
\* the directive as text; a '%' that ended it begins the next one.
\* Mutant of Lower: a capital X is not looked up as x.
LowerLacksX == [D |-> "d", S |-> "s"]
Lower == [D |-> "d", X |-> "x", S |-> "s"]
Modifiers(f, c, a, s, oob) ==
    LET letter == IF c \in DOMAIN Lower THEN Lower[c] ELSE c
        t == g_lookup(f.len, letter)
        bits == Width(t.type)
        v == IF t.kind = "signed" THEN Signed(a, bits) % 2 ^ Bits.max
             ELSE a % 2 ^ bits
        neg == v >= 2 ^ (Bits.max - 1)
        found == IF oob THEN 1 ELSE 0
        done(o, n) == Step("normal", f, o, n)
    IN  CASE c = "%" -> Step("percent", Percent(f), Literal, found)
          [] c = "NUL" -> done(IF oob THEN <<>> ELSE Literal, found)
          [] letter \in Flags \cup DOMAIN Digits \cup {"*", "."} -> done(Literal, found)
          [] t.kind = "no" -> done(Literal, 0)
          [] c = "c" -> done(Justify(f, <<Character[v % 2 ^ Bits.hh]>>), 1)
          [] c = "s" -> done(Justify(f, Truncated(f, s)), 1)
          [] c \in {"d", "i"} ->
               done(print_number(f, c, IF neg THEN 2 ^ Bits.max - v ELSE v, neg), 1)
          [] c \in {"u", "o", "x", "X"} -> done(print_number(f, c, v, FALSE), 1)
          [] t.kind = "double" -> done(Literal, 0)
          [] OTHER -> done(Literal, 1)

\* lbl_length and lbl_length_ext.
Length(f, c, a, s, oob) ==
    IF c \in {"h", "l"} THEN Step("ext", [f EXCEPT !.len = c], <<>>, 0)
    ELSE IF c \in {"j", "z", "t", "L"}
    THEN Step("modifiers", [f EXCEPT !.len = c], <<>>, 0)
    ELSE Modifiers(f, c, a, s, oob)
LengthExt(f, c, a, s, oob) ==
    IF c \in {"h", "l"}
    THEN Step("modifiers", [f EXCEPT !.len = IF c = "h" THEN "hh" ELSE "ll"], <<>>, 0)
    ELSE Modifiers(f, c, a, s, oob)

\* lbl_precision: at the '.', after it, and in the digits.
PrecisionDigits(f, c, a, s, oob) ==
    IF c = "NUL" THEN Step("normal", f, <<>>, 0)
    ELSE IF c \in DOMAIN Digits
    THEN Step("precision", [f EXCEPT !.prec = @ * 10 + Digits[c]], <<>>, 0)
    ELSE Length(f, c, a, s, oob)
PrecisionStar(f, c, a, s, oob) ==
    IF c = "*"
    THEN LET p == Signed(a, Bits.int)
         IN  Step("length", [f EXCEPT !.prec = IF p < 0 THEN 1 ELSE p], <<>>, 1)
    ELSE PrecisionDigits(f, c, a, s, oob)
Precision(f, c, a, s, oob) ==
    IF c = "." THEN Step("dot", [f EXCEPT !.flags = @ \ {"0"}, !.prec = 0], <<>>, 0)
    ELSE Length(f, c, a, s, oob)

\* lbl_width: the digits, and a '*' in their place.
WidthDigits(f, c, a, s, oob) ==
    IF c = "NUL" THEN Step("normal", f, <<>>, 0)
    ELSE IF c \in DOMAIN Digits
    THEN Step("width", [f EXCEPT !.width = @ * 10 + Digits[c]], <<>>, 0)
    ELSE Precision(f, c, a, s, oob)
WidthStar(f, c, a, s, oob) ==
    IF c = "*"
    THEN LET w == Signed(a, Bits.int)
         IN  Step("star", [f EXCEPT !.width = Signed(Max2(w, -w), Bits.int),
                                    !.flags = @ \cup IF w < 0 THEN {"-"} ELSE {}],
                  <<>>, 1)
    ELSE WidthDigits(f, c, a, s, oob)

\* lbl_flags: at its end, flags that others override are dropped.
Overridden(flags) ==
    flags \ ((IF "+" \in flags THEN {" "} ELSE {})
             \cup (IF "-" \in flags THEN {"0"} ELSE {}))
FlagChar(f, c, a, s, oob) ==
    IF c = "NUL" THEN Step("normal", f, <<>>, 0)
    ELSE IF c \in Flags THEN Step("flags", [f EXCEPT !.flags = @ \cup {c}], <<>>, 0)
    ELSE WidthStar([f EXCEPT !.flags = Overridden(@)], c, a, s, oob)

\* lbl_normal.
Normal(f, c) ==
    IF c = "NUL" THEN Step("normal", f, <<>>, 0)
    ELSE IF c = "%" THEN Step("percent", Percent(f), <<>>, 0)
    ELSE Step("normal", f, <<c>>, 0)

format(c, a, s, oob) ==
    CASE at = "normal" -> Normal(d, c)
      [] at = "percent" /\ c = "%" -> Step("normal", d, <<"%">>, 0)
      [] at = "flags" \/ (at = "percent" /\ c # "%") -> FlagChar(d, c, a, s, oob)
      [] at = "width" -> WidthDigits(d, c, a, s, oob)
      [] at = "star" -> Precision(d, c, a, s, oob)
      [] at = "dot" -> PrecisionStar(d, c, a, s, oob)
      [] at = "precision" -> PrecisionDigits(d, c, a, s, oob)
      [] at = "length" -> Length(d, c, a, s, oob)
      [] at = "ext" -> LengthExt(d, c, a, s, oob)
      [] at = "modifiers" -> Modifiers(d, c, a, s, oob)
-----------------------------------------------------------------------------
\* The directive as the C standard reads it: a '*' takes an int, a negative
\* width is the '-' flag and a width, a negative precision is none.
RefRead(r, c, a) ==
    LET n == Signed(a, Bits.int)
        digit == c \in DOMAIN Digits
    IN  CASE at = "normal" \/ c = "%" -> Fresh
          [] at \in {"percent", "flags"} /\ c \in Flags ->
               [r EXCEPT !.flags = @ \cup {c}]
          [] at \in {"percent", "flags"} /\ c = "*" ->
               [r EXCEPT !.width = Max2(n, -n),
                         !.flags = @ \cup IF n < 0 THEN {"-"} ELSE {}]
          [] digit /\ (\/ at = "width"
                       \/ at \in {"percent", "flags"} /\ c \notin Flags) ->
               [r EXCEPT !.width = @ * 10 + Digits[c]]
          [] at = "dot" /\ c = "*" -> [r EXCEPT !.prec = IF n < 0 THEN -1 ELSE n]
          [] at \in {"dot", "precision"} /\ digit ->
               [r EXCEPT !.prec = @ * 10 + Digits[c]]
          [] at \notin {"dot", "precision"} /\ c = "." -> [r EXCEPT !.prec = 0]
          [] c \in {"h", "l"} ->
               [r EXCEPT !.len = IF at # "ext" THEN c
                                 ELSE IF c = "h" THEN "hh" ELSE "ll"]
          [] c \in {"j", "z", "t", "L"} -> [r EXCEPT !.len = c]
          [] OTHER -> r

\* What a conversion writes: digits, at least as many as the precision, a sign
\* or prefix before them, and padding to the width.
Numeral(n, radix) ==
    LET top == CHOOSE k \in 0 .. Bits.max :
                  n < radix ^ (k + 1) /\ (k = 0 \/ n >= radix ^ k)
    IN  IF n = 0 THEN <<>>
        ELSE [i \in 1 .. top + 1 |-> (n \div radix ^ (top + 1 - i)) % radix]
RefWrite(r, c, a, s) ==
    LET signed == Signed(a, Width(IF r.len \in {"none", "L"} THEN "int" ELSE r.len))
        bits == Width(IF r.len \in {"none", "L"} THEN "int" ELSE r.len)
        n == IF c # "d" THEN a % 2 ^ bits ELSE Max2(signed, -signed)
        radix == CASE c \in {"x", "X"} -> 16 [] c = "o" -> 8 [] OTHER -> 10
        min == IF r.prec = -1 THEN 1 ELSE r.prec
        raw == Numeral(n, radix)
        digits == [i \in DOMAIN raw |-> Symbol(raw[i], c = "X" /\ raw[i] > 9)]
        body0 == Rep("0", min - Len(raw)) \o digits
        body == IF c = "o" /\ "#" \in r.flags /\ (body0 = <<>> \/ body0[1] # "0")
                THEN <<"0">> \o body0 ELSE body0
        lead == CASE c = "d" /\ signed < 0 -> <<"-">>
                  [] c = "d" /\ signed >= 0 /\ "+" \in r.flags -> <<"+">>
                  [] c = "d" /\ signed >= 0 /\ "+" \notin r.flags
                       /\ " " \in r.flags -> <<" ">>
                  [] c \in {"x", "X"} /\ "#" \in r.flags /\ n # 0 -> <<"0", c>>
                  [] OTHER -> <<>>
        text == CASE c = "c" -> <<Character[a % 2 ^ Bits.hh]>>
                  [] c = "s" -> IF r.prec \in 0 .. Len(s) THEN SubSeq(s, 1, r.prec)
                                ELSE s
                  [] OTHER -> lead \o body
        fill == r.width - Len(text)
    IN  IF "-" \in r.flags THEN text \o Rep(" ", fill)
        ELSE IF "0" \in r.flags /\ r.prec = -1 /\ c \notin {"c", "s"}
        THEN lead \o Rep("0", fill) \o body
        ELSE Rep(" ", fill) \o text

Conversions == {"c", "s", "d", "u", "o", "x", "X"}
Wellformed(r, c) ==         \* %hs, %Ld and the like are undefined in C
    /\ at \notin {"normal"} /\ c \in Conversions
    /\ r.len \in {"none", "l"} \/ (c \notin {"c", "s"} /\ r.len # "L")
RefStep(r, c, a, s) ==
    [spec |-> IF Wellformed(r.spec, c) THEN r.spec ELSE RefRead(r.spec, c, a),
     neg |-> /\ at \notin {"normal", "percent"} /\ c # "%"
             /\ r.neg \/ (at = "dot" /\ c = "*" /\ Signed(a, Bits.int) < 0),
     conv |-> IF Wellformed(r.spec, c) THEN c ELSE "none",
     takes |-> IF at = "normal" \/ c = "%" THEN 0
               ELSE r.takes + IF c = "*" \/ Wellformed(r.spec, c) THEN 1 ELSE 0,
     out |-> IF Wellformed(r.spec, c) THEN RefWrite(r.spec, c, a, s) ELSE <<>>]

Init ==
    /\ at = "normal" /\ d = Fresh /\ out = <<>> /\ taken = 0
    /\ ref = [spec |-> Fresh, conv |-> "none", takes |-> 0, out |-> <<>>,
              neg |-> FALSE]

Small(f) == f.width <= MaxNum /\ f.prec <= MaxNum

\* The arguments, where one can be taken.
Numbers(c) ==
    IF at # "normal" /\ c \in ({"*"} \cup Conversions) \ {"s"} THEN Words ELSE {0}
Texts(c) == IF at # "normal" /\ c = "s" THEN Strings ELSE {<<>>}

Next ==
    \E c \in Alphabet : \E a \in Numbers(c), s \in Texts(c),
                         oob \in (IF c \in Conversions THEN {FALSE} ELSE BOOLEAN) :
       LET r == format(c, a, s, oob)
       IN  /\ Small(r.d)
           /\ at' = r.at /\ d' = r.d /\ out' = r.out
           /\ taken' = IF at = "normal" \/ c = "%" THEN 0 ELSE taken + r.n
           /\ ref' = RefStep(ref, c, a, s)

Spec == Init /\ [][Next]_vars
-----------------------------------------------------------------------------
\* format.h: "Format a string as described by the C specification."  Every
\* directive of c, s, d, u, o, x and X writes what the standard says.
FormatConforms == ref.conv # "none" => out = ref.out

\* A precision of 0, a negative precision argument, and a width argument whose
\* negative is no int.
Awkward ==
    ref.spec.prec = 0 \/ ref.neg \/ ref.spec.width >= 2 ^ (Bits.int - 1)

\* FormatConforms for all other directives: whatever flags, widths, precisions,
\* lengths and argument values are combined, and whatever came before.
FormatExact == ref.conv # "none" /\ ~Awkward => out = ref.out

\* A directive takes the arguments the standard says it takes, even where what
\* it writes differs: the directives after it get their own.
ArgsInStep == ref.conv # "none" => taken = ref.takes

\* Every directive takes its own arguments and writes what C says it writes.
DirectivesExact == ArgsInStep /\ FormatExact
=============================================================================
