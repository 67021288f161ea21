----------------------------- MODULE ShellLine -----------------------------
(***************************************************************************)
(* The line editor of the shell task (apps/shell_process_task.c) and the   *)
(* terminal at the other end of the serial line, which shows what          *)
(* serial_putc sends it (drivers/zynq7/xilinx_uart.c).                     *)
(*                                                                         *)
(* The cells of the terminal are those after the prompt "# ".              *)
(***************************************************************************)
EXTENDS Integers, Sequences, FiniteSets, SequencesExt

CONSTANTS
    ShChar,      \* printable characters, " " among them
    MAX_NUM_CHAR \* the size of the buffer

ASSUME ShellAssumption ==
    " " \in ShChar /\ "nul" \notin ShChar /\ MAX_NUM_CHAR \in Nat /\ MAX_NUM_CHAR > 2

VARIABLES
    cmd,      \* the buffer, static in process_input
    pos,      \* i: where the next character goes
    max_char, \* characters held
    lastline, \* the string given to execute_command last
    screen,   \* the cells of the terminal's line
    column    \* where its cursor is

linevars == <<cmd, pos, max_char, lastline, screen, column>>

Nul == "nul"
Space == " "
Indices == 0 .. (MAX_NUM_CHAR - 1)
EmptyScreen == [x \in Indices |-> Space]

LineInit ==
    /\ cmd = [x \in Indices |-> Nul] /\ pos = 0 /\ max_char = 0 /\ lastline = <<>>
    /\ screen = EmptyScreen /\ column = 0

----------------------------------------------------------------------------
\* The terminal: n backspaces, characters and m backspaces again.
serial_putc(n, cs, m) ==
    LET from == column - n
    IN /\ screen' = [x \in Indices |-> IF x \in from .. (from + Len(cs) - 1)
                                       THEN cs[x - from + 1] ELSE screen[x]]
       /\ column' = from + Len(cs) - m

\* The characters of b from place x to place y.
Chars(b, x, y) == [k \in 1 .. (y - x + 1) |-> b[x + k - 1]]

\* The prompt, on a line of its own, over a buffer cleared up to its first NUL.
Prompt(b) ==
    /\ cmd' = [x \in Indices |-> IF \A y \in 0 .. x : b[y] # Nul THEN Nul ELSE b[x]]
    /\ pos' = 0 /\ max_char' = 0
    /\ screen' = EmptyScreen /\ column' = 0

key_right ==
    /\ pos < max_char
    /\ serial_putc(0, <<cmd[pos]>>, 0) /\ pos' = pos + 1
    /\ UNCHANGED <<cmd, max_char, lastline>>

key_left ==
    /\ pos # 0
    /\ serial_putc(1, <<>>, 0) /\ pos' = pos - 1
    /\ UNCHANGED <<cmd, max_char, lastline>>

\* The string that starts at the buffer: up to its first NUL.
String(b) == Chars(b, 0, Cardinality({x \in Indices : \A y \in 0 .. x : b[y] # Nul}) - 1)

\* Defect: the line is not ended with a NUL.
carriage_return_open ==
    /\ lastline' = IF \E x \in 0 .. (max_char - 1) : cmd[x] # Space THEN String(cmd) ELSE lastline
    /\ Prompt(cmd)

\* A line of blanks is not executed.
carriage_return ==
    LET b == [cmd EXCEPT ![max_char] = Nul]
    IN /\ lastline' = IF \E x \in 0 .. (max_char - 1) : b[x] # Space THEN String(b) ELSE lastline
       /\ Prompt(b)

\* The rest of the text moves to the left, and a blank covers its last cell.
backspace_within ==
    LET b == [x \in Indices |-> IF x \in (pos - 1) .. (max_char - 2) THEN cmd[x + 1]
                                ELSE IF x = max_char - 1 THEN Space ELSE cmd[x]]
    IN /\ pos > 0 /\ pos < max_char
       /\ cmd' = b /\ pos' = pos - 1 /\ max_char' = max_char - 1
       /\ serial_putc(1, Chars(b, pos - 1, max_char - 1), max_char - pos + 1)
       /\ UNCHANGED lastline

backspace_at_end ==
    /\ pos > 0 /\ pos = max_char
    /\ serial_putc(1, <<Space>>, 1)
    /\ pos' = pos - 1 /\ max_char' = max_char - 1
    /\ UNCHANGED <<cmd, lastline>>

\* The text as it was before the character and after it.
Inserted(ch) ==
    [x \in Indices |-> IF x = pos THEN ch ELSE IF x \in (pos + 1) .. max_char THEN cmd[x - 1] ELSE cmd[x]]

\* Defect: the cursor of the terminal is left at the end of the text.
key_within_end(ch) ==
    /\ pos < max_char /\ max_char + 1 # MAX_NUM_CHAR - 1
    /\ cmd' = Inserted(ch) /\ pos' = pos + 1 /\ max_char' = max_char + 1
    /\ serial_putc(0, Chars(Inserted(ch), pos, max_char), 0)
    /\ UNCHANGED lastline

key_within(ch) ==
    /\ pos < max_char /\ max_char + 1 # MAX_NUM_CHAR - 1
    /\ cmd' = Inserted(ch) /\ pos' = pos + 1 /\ max_char' = max_char + 1
    /\ serial_putc(0, Chars(Inserted(ch), pos, max_char), max_char - pos)
    /\ UNCHANGED lastline

key_at_end(ch) ==
    /\ pos = max_char /\ max_char + 1 # MAX_NUM_CHAR - 1
    /\ cmd' = [cmd EXCEPT ![pos] = ch] /\ pos' = pos + 1 /\ max_char' = max_char + 1
    /\ serial_putc(0, <<ch>>, 0)
    /\ UNCHANGED lastline

\* "Can't process the command": the key that makes it 255 characters clears
\* them all, though the comment (shell_process_task.c:128-130) says that 255 are
\* stored and that characters are cleared only by a newline.
key_too_long(ch) ==
    /\ max_char + 1 = MAX_NUM_CHAR - 1
    /\ Prompt(Inserted(ch))
    /\ UNCHANGED lastline

\* Of the other keys (up, down, home, end, tab and what is below a blank)
\* nothing comes.
process_input ==
    \/ key_right \/ key_left \/ carriage_return \/ backspace_within \/ backspace_at_end
    \/ \E ch \in ShChar : key_within(ch) \/ key_at_end(ch) \/ key_too_long(ch)

LineNext == process_input
LineSpec == LineInit /\ [][LineNext]_linevars

----------------------------------------------------------------------------
(* Properties *)

\* The buffer with its two counters is a text with a cursor: every key does to
\* it what LineEditor says, and what is executed is what was typed, whatever
\* earlier lines and deletions left in the static buffer.  It follows the code
\* where the comment of process_input disagrees (see LineEditor): a text is also
\* cleared, with no newline, by the character that makes it too long.
Editor ==
    INSTANCE LineEditor WITH
        Char <- ShChar, Blank <- Space, Limit <- MAX_NUM_CHAR - 1,
        text <- Chars(cmd, 0, max_char - 1), cursor <- pos, line <- lastline
EditsLine == Editor!EdSpec

\* The terminal shows that text and nothing else, with its cursor where the
\* next key will act.
ScreenShowsLine ==
    /\ column = pos
    /\ \A x \in Indices : screen[x] = IF x < max_char THEN cmd[x] ELSE Space

\* What makes both inductive: the text is made of characters and leaves room
\* for the one that is too many and for the NUL.
LineInv ==
    /\ cmd \in [Indices -> ShChar \cup {Nul}]
    /\ max_char \in 0 .. (MAX_NUM_CHAR - 2) /\ pos \in 0 .. max_char
    /\ \A x \in 0 .. (max_char - 1) : cmd[x] \in ShChar
    /\ ScreenShowsLine
=============================================================================
