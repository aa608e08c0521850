------------------------------- MODULE Printk -------------------------------
(***************************************************************************)
(* The kernel log (logging/printk.c) and panic (panic.c) over the terminal *)
(* of Terminal.  Every character is a flanterm_write of its own, flushed   *)
(* at once.  A fault, in the kernel or in panic itself, stops the writer   *)
(* between two characters for good (an argument of format that cannot be   *)
(* read, say) and panic writes through the same terminal context.  Texts   *)
(* are what format makes of its arguments (module Format).                 *)
(***************************************************************************)
EXTENDS Terminal

CONSTANTS
    BUF,            \* sizeof(fmt_buf)
    Levels,         \* values passed as level
    Texts,          \* formatted texts of log calls
    PanicTexts,     \* formatted texts of panics
    Registers,      \* the register lines of a panic
    MaxLogs,        \* bound on log calls
    MaxPanics       \* bound on faults

ASSUME PrintkAssumption ==
    BUF \in Nat \ {0} /\ MaxLogs \in Nat /\ MaxPanics \in Nat

VARIABLES
    job,            \* characters still to be printed: [b, kind, level]
    pending,        \* characters format has still to hand to buf_write_char
    buf,            \* fmt_buf[0 .. fmt_buf_pos - 1]
    regs,           \* register lines still to be printed
    pc,             \* "kernel", "format", "report", "halted" or "reset"
    ft_ctx,         \* printk_init made a context
    logs, panics    \* calls so far

logVars == <<job, pending, buf, regs, pc, ft_ctx, logs, panics>>
allVars == <<vars, logVars>>

NL == 10
CR == 13
LOG_DEBUG == 0
LOG_FATAL == 4

\* The digits of level_color and the letters that stand for level_prefix.
level_color == <<54, 50, 51, 49, 53>>
level_prefix == <<68, 73, 87, 69, 70>>

Chars1(s, kind, level) ==
    [i \in 1 .. Len(s) |-> [b |-> s[i], kind |-> kind, level |-> level]]

\* '\r', the colour, the prefix, and ANSI_RESET.
\* Mutant of Prefix: the colour is not reset.
PrefixLeft(level) ==
    Chars1(<<CR, ESC, ch.open, 51, level_color[level + 1], ch.m>>, "control", level)
      \o Chars1(<<level_prefix[level + 1]>>, "prefix", level)
Prefix(level) ==
    Chars1(<<CR, ESC, ch.open, 51, level_color[level + 1], ch.m>>, "control", level)
      \o Chars1(<<level_prefix[level + 1]>>, "prefix", level)
      \o Chars1(<<ESC, ch.open, 48, ch.m>>, "control", level)

Level(level) == IF level > LOG_FATAL THEN LOG_DEBUG ELSE level
Newline(level) == Chars1(<<NL>>, "control", level)
Line(level, text) ==
    Prefix(level) \o Chars1(text, "text", level) \o Newline(level)

\* The loop of vprintk_level: a newline that is not the last character starts
\* a line with a prefix of its own.
Broken(s, level) ==
    LET n == Len(s)
        b[i \in 0 .. n] ==
          IF i = 0 THEN <<>>
          ELSE b[i - 1] \o IF s[i] = NL /\ i < n THEN Newline(level) \o Prefix(level)
                           ELSE Chars1(<<s[i]>>, "text", level)
    IN  b[n]
-----------------------------------------------------------------------------
\* printk_init leaves ft_ctx NULL without a framebuffer, or when
\* flanterm_fb_init fails (FbInit).
PrintkInit ==
    /\ Init
    /\ ft_ctx \in BOOLEAN
    /\ job = <<>> /\ pending = <<>> /\ buf = <<>> /\ regs = <<>>
    /\ pc = "kernel" /\ logs = 0 /\ panics = 0

\* A log call of the kernel.
Log(output) ==
    /\ pc = "kernel" /\ job = <<>> /\ logs < MaxLogs
    /\ job' = output /\ logs' = logs + 1
    /\ UNCHANGED <<vars, pending, buf, regs, pc, ft_ctx, panics>>

printk_level(level, text) ==
    Log(IF level < LOG_DEBUG THEN <<>> ELSE Line(Level(level), text))
printk(text) == Log(Chars1(<<CR>>, "control", 0) \o Chars1(text, "text", 0))

print_char ==
    /\ job # <<>> /\ pc # "halted" /\ ft_ctx
    /\ Becomes(PutByte([St EXCEPT !.g.cp = -1], Head(job).b))
    /\ shown' = IF att'.autoflush THEN Rendered(scr') ELSE shown
    /\ job' = Tail(job)
    /\ UNCHANGED <<input, calls, pending, buf, regs, pc, ft_ctx, logs, panics>>

\* flanterm_write reads its context through NULL.  kmain logs before it loads
\* an IDT, so this first character resets the machine.
print_null ==
    /\ job # <<>> /\ pc = "kernel" /\ ~ft_ctx
    /\ pc' = "reset" /\ job' = <<>>
    /\ UNCHANGED <<vars, pending, buf, regs, ft_ctx, logs, panics>>

\* panic is called, by a failed assertion or by the exception handler: what was
\* being written is never resumed, and vprintk_level starts its buffer anew.
\* Without a context kmain does not get as far.
panic(text) ==
    /\ pc # "halted" /\ ft_ctx /\ panics < MaxPanics
    /\ pc' = "format" /\ pending' = text /\ buf' = <<>> /\ job' = <<>>
    /\ regs' = Registers /\ panics' = panics + 1
    /\ UNCHANGED <<vars, ft_ctx, logs>>

buf_write_char ==
    /\ pc = "format" /\ pending # <<>>
    /\ buf' = IF Len(buf) < BUF - 1 THEN Append(buf, Head(pending)) ELSE buf
    /\ pending' = Tail(pending)
    /\ UNCHANGED <<vars, job, regs, pc, ft_ctx, logs, panics>>

\* format is done; vprintk_level prints what is in the buffer.
vprintk_level ==
    /\ pc = "format" /\ pending = <<>>
    /\ job' = Prefix(LOG_FATAL) \o Broken(buf, LOG_FATAL) \o Newline(LOG_FATAL)
    /\ pc' = "report"
    /\ UNCHANGED <<vars, pending, buf, regs, ft_ctx, logs, panics>>

PrintRegisters ==
    /\ pc = "report" /\ job = <<>> /\ regs # <<>>
    /\ job' = Line(LOG_FATAL, Head(regs)) /\ regs' = Tail(regs)
    /\ UNCHANGED <<vars, pending, buf, pc, ft_ctx, logs, panics>>

Halt ==
    /\ pc = "report" /\ job = <<>> /\ regs = <<>>
    /\ pc' = "halted"
    /\ UNCHANGED <<vars, job, pending, buf, regs, ft_ctx, logs, panics>>

PrintkNext ==
    \/ \E level \in Levels, text \in Texts : printk_level(level, text)
    \/ \E text \in Texts : printk(text)
    \/ print_char
    \/ print_null
    \/ \E text \in PanicTexts : panic(text)
    \/ buf_write_char
    \/ vprintk_level
    \/ PrintRegisters
    \/ Halt

PrintkSpec == PrintkInit /\ [][PrintkNext]_allVars
-----------------------------------------------------------------------------
\* Every character of a log line or panic report appears on the display, in the
\* colour of its level if it belongs to the prefix and in the default colours
\* otherwise, even when the line before it was cut off in the middle of a
\* colour sequence or of a character of several bytes.
LogShown ==
    [][(print_char /\ Head(job).kind # "control" /\ Head(job).b \in 32 .. 126) =>
         scr'.cell[At(scr'.x - 1, scr'.y)] =
           [c |-> Head(job).b, bg |-> DefBg,
            fg |-> IF Head(job).kind = "text" THEN DefFg
                   ELSE Ansi(level_color[Head(job).level + 1] - 48)]]_allVars

\* The lines a panic report consists of: those of its text, then the registers.
ReportLines ==
    LET n == Len(buf)
        l[i \in 0 .. n] ==
          IF i = 0 THEN <<<<level_prefix[5]>>>>
          ELSE IF buf[i] # NL
          THEN [l[i - 1] EXCEPT ![Len(l[i - 1])] = Append(@, buf[i])]
          ELSE Append(l[i - 1], IF i = n THEN <<>> ELSE <<level_prefix[5]>>)
    IN  l[n] \o [i \in 1 .. Len(Registers) |-> <<level_prefix[5]>> \o Registers[i]]

\* When the machine has halted, the display shows the last report, line under
\* line and complete, wherever the faults happened: each line in a row of its
\* own, after its prefix and with nothing of older text behind it.  Excepted
\* is the report's first line, which is written over the line that was cut off,
\* and what has scrolled off the top.
ReportShown ==
    pc = "halted" =>
      /\ shown = Rendered(scr)
      /\ \A k \in 0 .. Len(ReportLines) - 2 :
            LET line == ReportLines[Len(ReportLines) - k]
                y == scr.y - 1 - k
            IN  y >= 0 => \A x \in 0 .. COLS - 1 :
                   scr.cell[At(x, y)].c = IF x < Len(line) THEN line[x + 1] ELSE Space

\* A log line, and a panic report in particular, reaches the display complete
\* and in its colours, whatever was cut off before it.
LogExact == LogShown /\ []ReportShown
=============================================================================
