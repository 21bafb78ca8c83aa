------------------------------- MODULE Console -------------------------------
(***************************************************************************)
(* The console as a user meets it: the keyboard driver and the buffers of  *)
(* the processes (Keyboard), the display (Terminal), and the shell, which  *)
(* reads a line with echo and editing, splits it into a command and its    *)
(* arguments and runs the program (src/user_programs/stdlib/src/           *)
(* coniferos.c, src/user_programs/shell/src/shell.c).  The keyboard        *)
(* interrupt comes between any two steps of the process that runs.         *)
(***************************************************************************)
EXTENDS Keyboard, Terminal, Stdlib

CONSTANTS
    Shell, Child,       \* the two processes
    LineMax,            \* the size of the buffer that the shell reads into
    TokenMax,           \* the size of a token
    PathPrefix,         \* what the shell puts before the line
    Banner,             \* what is printed before the first prompt
    Echo, Count,        \* names of programs
    Numbers,            \* what Count prints
    ScanCodes,          \* the keys that are used
    MaxKeys             \* bound: keys that are pressed

ENTER == 13
PROMPT == <<62, SPACE>>

ASSUME ConsoleAssumption ==
    /\ Procs = {Shell, Child} /\ Shell # Child
    /\ LineMax \in Nat \ {0} /\ TokenMax \in Nat \ {0}

VARIABLES
    pc,         \* where the shell is
    i, out,     \* of coniferos_terminal_readline
    past,       \* whether it has written the byte after the buffer
    tokens,     \* the command: the list that parse_command makes
    term,       \* the terminal
    pressed,    \* the number of keys that were pressed
    keys,       \* history: keys read for the line so far
    start       \* history: the cursor when the line was begun

shellVars   == <<pc, i, out, past, tokens, term, keys, start>>
consoleVars == <<vars, shellVars, pressed>>

ConsoleInit ==
    /\ Init /\ current = Shell
    /\ pc = "prompt"
    /\ i = 0 /\ out = [k \in 0..(LineMax - 1) |-> 0] /\ past = FALSE
    /\ tokens = <<>>
    /\ term = print([row |-> 0, col |-> 0, screen |-> terminal_initialize], printf(Banner, <<>>))
    /\ pressed = 0
    /\ keys = <<>> /\ start = [row |-> 0, col |-> 0]

\* The keyboard interrupt.
KeyPressed(scancode) ==
    /\ pressed < MaxKeys
    /\ ps2_keyboard_handle_interrupt(scancode)
    /\ pressed' = pressed + 1
    /\ UNCHANGED shellVars

-----------------------------------------------------------------------------
(* Reading a line.                                                         *)

\* The shell prints its prompt and calls coniferos_terminal_readline.
Prompts ==
    /\ current = Shell /\ pc = "prompt"
    /\ term' = print(term, printf(PROMPT, <<>>))
    /\ start' = [row |-> term'.row, col |-> term'.col]
    /\ i' = 0 /\ keys' = <<>> /\ tokens' = <<>>
    /\ pc' = "poll"
    /\ UNCHANGED <<vars, out, past, pressed>>

\* coniferos_get_key_blocking: a system call; 0 is tried again.
coniferos_get_key_blocking ==
    /\ current = Shell /\ pc = "poll"
    /\ get_key_press
    /\ pc' = IF got' = 0 THEN "poll" ELSE "key"
    /\ keys' = IF got' = 0 THEN keys ELSE Append(keys, Head(unread[Shell]))
    /\ UNCHANGED <<i, out, past, tokens, term, start, pressed>>

\* Mutant: one place back for the character only, not for the loop.
AfterKey_OneBack(n, o, key) ==
    IF key = BACKSPACE /\ n >= 1 THEN [i |-> n, out |-> [o EXCEPT ![n - 1] = 0]]
    ELSE [i |-> n + 1, out |-> [o EXCEPT ![n] = key]]

\* Mutant: backspace at the start of the line goes back too.
AfterKey_NoCheck(n, o, key) ==
    IF key = BACKSPACE THEN [i |-> n - 1, out |-> [o EXCEPT ![n - 1] = 0]]
    ELSE [i |-> n + 1, out |-> [o EXCEPT ![n] = key]]

\* The loop's index and the buffer after a key other than Enter.
AfterKey(n, o, key) ==
    IF key = BACKSPACE /\ n >= 1 THEN [i |-> n - 1, out |-> [o EXCEPT ![n - 1] = 0]]
    ELSE [i |-> n + 1, out |-> [o EXCEPT ![n] = key]]

\* The terminator, out[n] = 0: n is LineMax when the line has filled the
\* buffer, and then the byte is the one after it.
Terminates(n, o) ==
    IF n < LineMax THEN out' = [o EXCEPT ![n] = 0] /\ UNCHANGED past
    ELSE out' = o /\ past' = TRUE

\* The key: Enter ends the line, another one is echoed and stored.  A line
\* that fills the buffer ends too.
coniferos_terminal_readline ==
    LET after == AfterKey(i, out, got)
    IN  /\ current = Shell /\ pc = "key"
        /\ \/ /\ got = ENTER
              /\ Terminates(i, out)
              /\ pc' = "parse"
              /\ UNCHANGED <<i, term>>
           \/ /\ got # ENTER
              /\ term' = terminal_write_char(term, got)
              /\ i' = after.i
              /\ IF after.i = LineMax
                 THEN Terminates(LineMax, after.out) /\ pc' = "parse"
                 ELSE out' = after.out /\ pc' = "poll" /\ UNCHANGED past
        /\ UNCHANGED <<vars, tokens, keys, start, pressed>>

\* The string that begins in the buffer.  Without a terminator in the buffer it
\* is all of it: the byte after it is the terminator.
Line ==
    LET ends == {k \in DOMAIN out : out[k] = 0}
    IN  [k \in 1..(IF ends = {} THEN LineMax ELSE Min(ends)) |-> out[k - 1]]

-----------------------------------------------------------------------------
(* Running a command.                                                      *)

\* Mutant: the last token, after which strtok has no remainder, is left out.
parse_command_DropsLast(command) ==
    LET split[rest \in Seq(Nat)] ==
          LET tok == strtok(rest, SPACE)
          IN  IF tok.some THEN <<strncpy(tok.token, TokenMax)>> \o split[tok.rest] ELSE <<>>
    IN  split[command]

parse_command(command) ==
    LET split[rest \in Seq(Nat)] ==
          LET tok == strtok(rest, SPACE)
          IN  <<strncpy(tok.token, TokenMax)>> \o (IF tok.some THEN split[tok.rest] ELSE <<>>)
    IN  split[command]

\* The arguments are the tokens after the first one.
create_argv_array(command) == Tail(command)

Parses ==
    /\ current = Shell /\ pc = "parse"
    /\ tokens' = parse_command(PathPrefix \o Line)
    /\ pc' = "exec"
    /\ UNCHANGED <<vars, i, out, past, term, keys, start, pressed>>

\* execve of a file that there is: the child runs with an empty keyboard
\* buffer, until it ends; else the shell goes on.
Executes ==
    /\ current = Shell /\ pc = "exec"
    /\ pc' = "prompt"
    /\ IF Head(tokens) \in {Echo, Count}
       THEN /\ current' = Child
            /\ kb' = [kb EXCEPT ![Child] = [buffer |-> [k \in Slots |-> 0], head |-> 0, tail |-> 0]]
            /\ unread' = [unread EXCEPT ![Child] = <<>>]
            /\ UNCHANGED got
       ELSE UNCHANGED vars
    /\ UNCHANGED <<i, out, past, tokens, term, keys, start, pressed>>

\* echo.c writes each argument on a line of its own.
EchoOutput(argv) ==
    FlattenSeq([k \in DOMAIN argv |-> <<NEWLINE>> \o printf(argv[k], <<>>)]) \o <<NEWLINE>>

\* Count prints a number.
CountOutput(n) == printf(<<PERCENT, LetterI>>, <<n>>)

\* The child prints and exits, and the shell runs again.
ChildRuns(n) ==
    /\ current = Child
    /\ term' = print(term, IF Head(tokens) = Echo THEN EchoOutput(create_argv_array(tokens))
                           ELSE CountOutput(n))
    /\ Switch(Shell)
    /\ UNCHANGED <<pc, i, out, past, tokens, keys, start, pressed>>

ShellStep ==
    \/ Prompts
    \/ coniferos_get_key_blocking
    \/ coniferos_terminal_readline
    \/ Parses
    \/ Executes

ConsoleNext ==
    \/ \E scancode \in ScanCodes : KeyPressed(scancode)
    \/ ShellStep
    \/ \E n \in Numbers : ChildRuns(n)

\* The process that runs is not held up for ever: it is the only one that the
\* processor executes, and the interrupt handler returns to it.
ConsoleSpec ==
    /\ ConsoleInit /\ [][ConsoleNext]_consoleVars
    /\ WF_consoleVars(ShellStep)
    /\ WF_consoleVars(\E n \in Numbers : ChildRuns(n))

-----------------------------------------------------------------------------
(* Properties.                                                             *)

\* Every variable has its type: the loop of coniferos_terminal_readline stores
\* keys in the buffer's LineMax bytes only, and its index stays in range when
\* backspaces take it back.  The terminator is not covered: that of a full line
\* is written after the buffer (past), although coniferos.h calls max "the max
\* length of the out buffer".
ConsoleTypeOK ==
    /\ TypeOK
    /\ pc \in {"prompt", "poll", "key", "parse", "exec"}
    /\ i \in 0..LineMax /\ DOMAIN out = 0..(LineMax - 1) /\ past \in BOOLEAN
    /\ term.col \in 0..(UINT16 - 1) /\ term.row \in Nat

\* What a line is after some keys: backspace takes the last one away.
Edited(ks) ==
    FoldLeft(LAMBDA line, k : IF k = BACKSPACE /\ line # <<>> THEN Front(line)
                              ELSE Append(line, k), <<>>, ks)

KeysOfLine == SelectSeq(keys, LAMBDA k : k # ENTER)

\* The line that the shell gets is what was typed, as edited, through the
\* interrupt handler, the circular buffer, the system call and the loop of
\* coniferos_terminal_readline, and however the keys came between their steps.
LineIsEdited ==
    pc = "parse" => Line = Edited(KeysOfLine)

\* Words with one space between them and none before or after them.
SingleSpaced(command) ==
    \A k \in DOMAIN command :
      command[k] = SPACE => k \notin {1, Len(command)} /\ command[k + 1] # SPACE

Splits(command, ts) ==
    /\ ts # <<>>
    /\ \A k \in DOMAIN ts : ts[k] # <<>> /\ SPACE \notin Range(ts[k])
    /\ FoldLeft(LAMBDA s, t : s \o <<SPACE>> \o t, Head(ts), Tail(ts)) = command

\* The tokens are the words of the line, nonempty and without a space, in their
\* order: arguments are not lost or made up (strtok, parse_command), if no token
\* is longer than the structure.  Lines with a space at the end or with two in a
\* row are left out: string.h promises "nonempty tokens" for them too, and
\* strtok makes an empty one.
TokensSplitLine ==
    (pc = "exec" /\ SingleSpaced(PathPrefix \o Line)
       /\ \A k \in DOMAIN tokens : Len(tokens[k]) < TokenMax) =>
      Splits(PathPrefix \o Line, tokens)

\* The longest that the line was while it was typed.
Reach == Max({Len(Edited(SubSeq(keys, 1, n))) : n \in 0..Len(keys)})

\* The line has not left its row, and no backspace was typed before its start.
WithinRow ==
    /\ start.col + Reach < VGA_WIDTH /\ start.row < FrameRows
    /\ \A n \in 1..Len(keys) : keys[n] = BACKSPACE => Edited(SubSeq(keys, 1, n - 1)) # <<>>

\* While a line is typed the screen shows, from where the line began, what
\* the buffer holds, then blanks where characters were taken away, and the
\* cursor is at the end of the line (terminal_backspace and the loop of
\* coniferos_terminal_readline count the same characters).
ScreenShowsLine ==
    (current = Shell /\ pc = "poll" /\ WithinRow) =>
      LET at(k) == term.screen[start.row * VGA_WIDTH + start.col + k]
      IN  /\ term.row = start.row /\ term.col = start.col + i
          /\ \A k \in 0..(Reach - 1) : at(k) = IF k < i THEN out[k] ELSE SPACE

\* The numbers for which itoa is decimal notation: not 0, which comes with a
\* line feed, and not the one that has no positive counterpart.
Decimal(n, s) ==
    LET digits == IF n < 0 THEN Tail(s) ELSE s
    IN  /\ n < 0 => s[1] = MINUS
        /\ digits # <<>> /\ digits[1] # ZERO
        /\ \A k \in DOMAIN digits : digits[k] \in ZERO..(ZERO + 9)
        /\ FoldLeft(LAMBDA v, d : 10 * v + (d - ZERO), 0, digits) = IF n < 0 THEN -n ELSE n

\* What a program prints of a number reads as that number: %i of printf, with
\* itoa, is decimal notation, up to the ends of the range.
ItoaIsDecimal ==
    (current = Child /\ Head(tokens) = Count) =>
      \A n \in (1 - INT \div 2)..(INT \div 2 - 1) : n # 0 => Decimal(n, CountOutput(n))

\* A line that the user has ended is handed on: an Enter that was typed to the
\* shell leads to the end of coniferos_terminal_readline.
EnterEndsLine ==
    (\E k \in DOMAIN unread[Shell] : unread[Shell][k] = ENTER) ~> pc = "parse"
=============================================================================
