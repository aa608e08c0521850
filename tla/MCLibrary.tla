----------------------------- MODULE MCLibrary -----------------------------
(***************************************************************************)
(* The kernel's library: either the byte routines of memory.c or format,   *)
(* in each behaviour.  Four bytes of two values make every overlap of      *)
(* areas of up to three bytes; the directives have numbers of up to 8.     *)
(***************************************************************************)
EXTENDS ByteRoutines, Sequences

VARIABLES part, at, d, out, taken, ref

formatVars == <<at, d, out, taken, ref>>

MCBits == [hh |-> 2, h |-> 3, int |-> 5, max |-> 6]
MCWords == {0, 1, 3, 8, 10, 16, 31, 63}
MCCharacter == [n \in 0 .. 3 |-> <<"NUL", "a", "b", "c">>[n + 1]]
MCStrings == {<<>>, <<"p", "q", "r">>}
MCAlphabet == {"b", "%", "-", "+", " ", "#", "0", "2", ".", "*", "h", "l", "L", "d",
               "u", "x", "X", "o", "c", "s", "D", "f", "NUL"}

F == INSTANCE Format WITH
    Bits <- MCBits, Words <- MCWords, Character <- MCCharacter,
    Strings <- MCStrings, Alphabet <- MCAlphabet, MaxNum <- 8

ASSUME F!FormatAssumption

MCInit == /\ F!Init
          /\ \/ part = "bytes" /\ BytesInit
             \/ /\ part = "format" /\ BytesInit
                /\ mem = [a \in Address |-> CHOOSE b \in Byte : TRUE]
BytesStep == part = "bytes" /\ BytesNext /\ UNCHANGED <<part, formatVars>>
FormatStep == part = "format" /\ F!Next /\ UNCHANGED <<part, byteVars>>
MCSpec == MCInit /\ [][BytesStep \/ FormatStep]_<<part, byteVars, formatVars>>
-----------------------------------------------------------------------------
\* Format: every directive takes its own arguments and writes what C says it
\* writes, but for precisions of 0 and negative ones.
DirectivesExact == F!DirectivesExact

\* format.h: "Format a string as described by the C specification."
FormatConforms == F!FormatConforms
=============================================================================
