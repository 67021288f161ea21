----------------------------- MODULE LineEditor -----------------------------
(***************************************************************************)
(* What the shell promises whoever types: a text with a cursor, a line     *)
(* that is handed on whole, and a text that gets too long thrown away.     *)
(*                                                                         *)
(* The last is what the code does, not what its comment says: the comment  *)
(* of process_input (apps/shell_process_task.c:128-130, and its header,    *)
(* include/shell_process_task.h:92-94) "stores upto 255" characters, and   *)
(* "characters are cleared only if '\n' is received".  The code keeps at   *)
(* most 254: the 255th clears the text with no newline.                    *)
(***************************************************************************)
EXTENDS Naturals, Sequences

CONSTANTS
    Char,  \* characters that can be typed
    Blank, \* the one that is a space
    Limit  \* the length at which a text is thrown away

VARIABLES text, cursor, line

edvars == <<text, cursor, line>>

EdInit == text = <<>> /\ cursor = 0 /\ line = <<>>

Become(t, c) == text' = t /\ cursor' = c /\ UNCHANGED line

Type(ch) ==
    LET t == SubSeq(text, 1, cursor) \o <<ch>> \o SubSeq(text, cursor + 1, Len(text))
    IN IF Len(t) = Limit THEN Become(<<>>, 0) ELSE Become(t, cursor + 1)

Erase ==
    /\ cursor > 0
    /\ Become(SubSeq(text, 1, cursor - 1) \o SubSeq(text, cursor + 1, Len(text)), cursor - 1)

Left == cursor > 0 /\ Become(text, cursor - 1)
Right == cursor < Len(text) /\ Become(text, cursor + 1)

Enter ==
    /\ text' = <<>> /\ cursor' = 0
    /\ line' = IF \E i \in DOMAIN text : text[i] # Blank THEN text ELSE line

EdNext == (\E ch \in Char : Type(ch)) \/ Erase \/ Left \/ Right \/ Enter

EdSpec == EdInit /\ [][EdNext]_edvars
=============================================================================
