----------------------------- MODULE MCTerminal -----------------------------
EXTENDS Printk

\* Who writes to the terminal in this behaviour: programs that edit the screen,
\* change colours, send odd sequences or text in UTF-8, or the kernel log.
VARIABLE user

MCDefFg == <<"default fg", 0>>
MCDefBg == <<"default bg", 0>>
MCColours ==
    {MCDefFg, MCDefBg, FgBright, BgBright, Rgb(131844), Indexed(17)}
      \cup {Ansi(n) : n \in 0 .. 7} \cup {Bright(n) : n \in 0 .. 7}
MCChars == 0 .. 255

\* An accented letter with a glyph, a combining mark, a wide character, and
\* the rest without one.
MCCp437(cp) == IF cp = 233 THEN 130 ELSE IF cp = 8212 THEN 45 ELSE -1
MCWidth(cp) == IF cp \in 768 .. 879 THEN 0 ELSE IF cp >= 4352 THEN 2 ELSE 1

CSI(body) == <<ESC, 91>> \o body

\* A full screen of different letters, a region (in origin mode or not), and the
\* cursor: in the middle, in a corner, or past the last column.
Fill == <<97, 98, 99, 100, 101, 102, 103, 104>>
Setups ==
    {Fill \o r \o o \o p :
       r \in {<<>>, CSI(<<49, 59, 50, ch.r>>), CSI(<<50, 59, 51, ch.r>>)},
       o \in {<<>>, CSI(<<63, 54, ch.h>>)},
       p \in {CSI(<<50, 59, 50, ch.H>>), CSI(<<50, 59, 51, ch.H>>) \o <<122>>,
              CSI(<<51, 59, 51, ch.H>>)}}

\* Every sequence that moves the cursor, erases or shifts, with the values that
\* matter on a small screen.
EditWrites ==
    Setups
    \cup {<<97, 98>>, <<10>>, <<9>>, <<8>>, <<13>>}
    \cup {<<ESC, c>> : c \in {ch.D, ch.E, ch.M, ch.seven, ch.eight, ch.c}}
    \cup {CSI(<<c>>) : c \in {ch.C, ch.D, ch.E, ch.F, ch.B, ch.d, ch.H,
                              ch.J, ch.K, ch.X, ch.at, ch.P, ch.L, ch.M, ch.S,
                              ch.T, ch.r, ch.s, ch.u, ch.n}}
    \cup {CSI(<<48 + v, c>>) : v \in {1, 2}, c \in {ch.J, ch.K}}
    \cup {CSI(<<50, c>>) : c \in {ch.X, ch.at, ch.P, ch.L, ch.M, ch.A, ch.e,
                                  ch.G, ch.r, ch.S, ch.T, ch.b}}
    \cup {CSI(<<51, 59, 49, ch.r>>), CSI(<<52, ch.h>>), CSI(<<52, ch.l>>)}
    \cup {CSI(<<63>> \o v \o <<c>>) : v \in {<<55>>, <<49, 48, 52, 57>>},
                                      c \in {ch.h, ch.l}}

\* Colours: every kind of SGR value, alone and combined, with saves, resets,
\* the alternate screen and a list that ends too early.
SGR(v) == CSI(v \o <<ch.m>>)
Num(v) == IF v < 10 THEN <<48 + v>>
          ELSE IF v < 100 THEN <<48 + v \div 10, 48 + (v % 10)>>
          ELSE <<48 + v \div 100, 48 + ((v \div 10) % 10), 48 + (v % 10)>>
List(vs) == LET l[i \in 1 .. Len(vs)] ==
                  IF i = 1 THEN Num(vs[1]) ELSE l[i - 1] \o <<ch.semi>> \o Num(vs[i])
            IN  l[Len(vs)]
ColourWrites ==
    {SGR(<<>>)}
    \cup {SGR(Num(v)) : v \in {0, 1, 2, 5, 7, 22, 25, 27, 31, 39, 42, 49, 94, 105}}
    \cup {SGR(List(vs)) : vs \in {<<38, 5, 3>>, <<48, 5, 9>>, <<38, 5, 17, 7>>,
                                  <<38, 2, 2, 3, 4>>, <<48, 5>>, <<7, 31, 42>>,
                                  <<38, 9, 31>>}}
    \cup {<<ESC, c>> : c \in {ch.seven, ch.eight, ch.c}}
    \cup {CSI(<<63, 49, 48, 52, 57, c>>) : c \in {ch.h, ch.l}}

\* Pieces of sequences, for every state of the parser: escapes, CSI, OSC, values
\* past the limits, character sets.
ParserWrites ==
    {<<c>> : c \in {ESC, CAN, BEL, 10, 14, 91, 93, 92, 63, 60, 59, 57, 40, 48, 66,
                    109, 104, 97}}
    \cup {<<ESC, 91>>, <<ESC, 93>>, <<59, 59, 59, 59>>, <<50, 48, 48>>, <<97, 97, 97, 97>>}
\* UTF-8 at the edges of its ranges.
Utf8Writes ==
    {<<c>> : c \in {ESC, CAN, 91, 97, 127, 128, 143, 144, 159, 160, 191, 193, 194,
                    195, 224, 225, 237, 240, 244, 245}}

\* A log text that ends its line; assertions have several lines, a dash of
\* three bytes, or more characters than the buffer takes.
MCLevels == {-1, 1, 5}
MCTexts == {<<97, 98, 10>>}
MCPanicTexts == {<<226, 128, 148, 112, 10, 113, 10>>, <<112>>,
                 <<112, 10, 113, 114, 10, 115, 10, 116, 117>>}
MCRegisters == <<<<114, 114>>>>

Vocabulary == [edit |-> EditWrites, colour |-> ColourWrites,
               parser |-> ParserWrites, utf8 |-> Utf8Writes]
Depth == [edit |-> 3, colour |-> 4, parser |-> 4, utf8 |-> 5]
MCWrites == UNION {Vocabulary[u] : u \in DOMAIN Vocabulary}

\* Without a context there is nothing but the first line of the log.
MCInit == PrintkInit /\ user \in DOMAIN Vocabulary \cup {"log"} /\ (ft_ctx \/ user = "log")
MCNext ==
    /\ UNCHANGED user
    /\ \/ user = "log" /\ PrintkNext
       \/ /\ user # "log" /\ Next /\ UNCHANGED logVars
          /\ calls' # calls => /\ calls' <= Depth[user]
                               /\ IF input' = <<>>
                                  THEN user = IF att' = att THEN "edit" ELSE "colour"
                                  ELSE input' \in Vocabulary[user]
MCSpec == MCInit /\ [][MCNext]_<<allVars, user>>
=============================================================================
