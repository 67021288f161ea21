-------------------------- MODULE ShellLineProofs --------------------------
(***************************************************************************)
(* Proofs about the shell.  ShellLine: the editor does to its buffer what  *)
(* LineEditor promises whoever types, and the terminal shows it.           *)
(* ShellCmd: commands and variables nest four deep and free what they      *)
(* allocate, whatever variables name and whichever allocation fails.       *)
(***************************************************************************)
EXTENDS ShellLine, ShellCmd, ListLemmas, SequenceTheorems, FiniteSetTheorems, TLAPS

LEMMA Sizes == MAX_NUM_CHAR \in Nat /\ MAX_NUM_CHAR > 2 /\ Space \in ShChar /\ Nul \notin ShChar
BY ShellAssumption DEF Nul, Space

\* The text a buffer holds.
LEMMA CharsFacts ==
    ASSUME NEW b, NEW S, NEW n \in Nat, \A x \in 0 .. (n - 1) : b[x] \in S
    PROVE  /\ Chars(b, 0, n - 1) \in Seq(S) /\ Len(Chars(b, 0, n - 1)) = n
           /\ \A k \in 1 .. n : Chars(b, 0, n - 1)[k] = b[k - 1]
<1>1. Chars(b, 0, n - 1) = [k \in 1 .. n |-> b[k - 1]]
  BY DEF Chars
<1>2. \A k \in 1 .. n : b[k - 1] \in S
  OBVIOUS
<1> QED
  BY <1>1, <1>2

LEMMA TextEmpty == \A b : Chars(b, 0, -1) = <<>>
<1> SUFFICES ASSUME NEW b PROVE Chars(b, 0, -1) = <<>>
  OBVIOUS
<1>1. Chars(b, 0, -1) \in Seq({}) /\ Len(Chars(b, 0, -1)) = 0
  BY DEF Chars
<1> QED
  BY <1>1

\* The string at the start of a buffer ends at its first NUL.
LEMMA StringFacts ==
    ASSUME NEW b, NEW n \in Indices, b[n] = Nul, \A x \in 0 .. (n - 1) : b[x] # Nul
    PROVE  String(b) = Chars(b, 0, n - 1)
<1>0. n \in Nat /\ n <= MAX_NUM_CHAR - 1 /\ MAX_NUM_CHAR \in Nat
  BY Sizes DEF Indices
<1>1. {x \in Indices : \A y \in 0 .. x : b[y] # Nul} = 0 .. (n - 1)
  <2>1. ASSUME NEW x \in Indices, \A y \in 0 .. x : b[y] # Nul PROVE x \in 0 .. (n - 1)
    <3>1. x \in Nat /\ n \notin 0 .. x
      BY <2>1, Sizes DEF Indices
    <3> QED
      BY <1>0, <3>1
  <2>2. ASSUME NEW x \in 0 .. (n - 1) PROVE x \in Indices /\ \A y \in 0 .. x : b[y] # Nul
    BY <1>0, <2>2 DEF Indices
  <2> QED
    BY <2>1, <2>2
<1>2. Cardinality(0 .. (n - 1)) = n
  <2>1. 0 \in Int /\ n - 1 \in Int
    BY <1>0
  <2>2. Cardinality(0 .. (n - 1)) = IF 0 > n - 1 THEN 0 ELSE (n - 1) - 0 + 1
    BY <2>1, FS_Interval
  <2> QED
    BY <1>0, <2>2
<1> QED
  BY <1>1, <1>2 DEF String

----------------------------------------------------------------------------
(* The buffer and the screen.                                              *)

LEMMA LineInitInv == LineInit => LineInv
<1> SUFFICES ASSUME LineInit PROVE LineInv
  OBVIOUS
<1>1. cmd \in [Indices -> ShChar \cup {Nul}] /\ max_char = 0 /\ pos = 0
  BY DEF LineInit
<1>2. ScreenShowsLine
  BY Sizes DEF LineInit, ScreenShowsLine, EmptyScreen, Indices
<1> QED
  BY <1>1, <1>2, Sizes DEF LineInv

\* What is known of a state; every index is within the buffer.
LEMMA LineState ==
    ASSUME LineInv
    PROVE  /\ cmd \in [Indices -> ShChar \cup {Nul}]
           /\ max_char \in Nat /\ pos \in Nat /\ pos <= max_char /\ max_char <= MAX_NUM_CHAR - 2
           /\ \A x \in 0 .. (max_char - 1) : x \in Indices /\ cmd[x] \in ShChar
           /\ max_char \in Indices /\ pos \in Indices
           /\ column = pos
           /\ \A x \in Indices : screen[x] = IF x < max_char THEN cmd[x] ELSE Space
           /\ Indices \subseteq Nat
BY Sizes DEF LineInv, ScreenShowsLine, Indices

\* A new prompt: the line is empty, whatever the buffer still holds.
LEMMA PromptInv ==
    ASSUME NEW b \in [Indices -> ShChar \cup {Nul}], Prompt(b)
    PROVE  LineInv'
<1>1. cmd' \in [Indices -> ShChar \cup {Nul}]
  BY DEF Prompt
<1>2. max_char' = 0 /\ pos' = 0 /\ column' = 0 /\ screen' = EmptyScreen
  BY DEF Prompt
<1>3. ScreenShowsLine'
  BY <1>2, Sizes DEF ScreenShowsLine, EmptyScreen, Indices
<1> QED
  BY <1>1, <1>2, <1>3, Sizes DEF LineInv

\* A typed character, with room for the ones after it.
LEMMA InsertedFacts ==
    ASSUME LineInv, NEW ch \in ShChar
    PROVE  /\ Inserted(ch) \in [Indices -> ShChar \cup {Nul}]
           /\ \A x \in 0 .. max_char : Inserted(ch)[x]
                 = IF x = pos THEN ch ELSE IF x > pos THEN cmd[x - 1] ELSE cmd[x]
           /\ \A x \in 0 .. max_char : Inserted(ch)[x] \in ShChar
<1>0. /\ cmd \in [Indices -> ShChar \cup {Nul}]
      /\ max_char \in Nat /\ pos \in Nat /\ pos <= max_char /\ max_char <= MAX_NUM_CHAR - 2
      /\ \A x \in 0 .. (max_char - 1) : x \in Indices /\ cmd[x] \in ShChar
      /\ MAX_NUM_CHAR \in Nat /\ Indices \subseteq Nat
  BY LineState, Sizes
<1>1. ASSUME NEW x \in Indices
      PROVE  Inserted(ch)[x] = IF x = pos THEN ch
                               ELSE IF x \in (pos + 1) .. max_char THEN cmd[x - 1] ELSE cmd[x]
  BY DEF Inserted
<1>2. \A x \in (pos + 1) .. max_char : x - 1 \in 0 .. (max_char - 1)
  BY <1>0
<1>3. Inserted(ch) \in [Indices -> ShChar \cup {Nul}]
  BY <1>0, <1>2 DEF Inserted
<1>4. \A x \in 0 .. max_char : x \in Indices
  BY <1>0 DEF Indices
<1>5. \A x \in 0 .. max_char : Inserted(ch)[x]
         = IF x = pos THEN ch ELSE IF x > pos THEN cmd[x - 1] ELSE cmd[x]
  BY <1>0, <1>1, <1>4
<1>6. ASSUME NEW x \in 0 .. max_char PROVE Inserted(ch)[x] \in ShChar
  <2>1. CASE x = pos
    BY <1>5, <2>1
  <2>2. CASE x > pos
    BY <1>0, <1>2, <1>5, <2>2
  <2>3. CASE x < pos
    <3>1. x \in 0 .. (max_char - 1)
      BY <1>0, <2>3
    <3> QED
      BY <1>0, <1>5, <2>3, <3>1
  <2> QED
    BY <1>0, <2>1, <2>2, <2>3
<1> QED
  BY <1>3, <1>5, <1>6

LEMMA MovesInv == LineInv /\ (key_right \/ key_left) => LineInv'
<1> SUFFICES ASSUME LineInv, key_right \/ key_left PROVE LineInv'
  OBVIOUS
<1>0. /\ max_char \in Nat /\ pos \in Nat /\ pos <= max_char /\ column = pos
      /\ \A x \in Indices : screen[x] = IF x < max_char THEN cmd[x] ELSE Space
      /\ Indices \subseteq Nat
  BY LineState
<1>1. UNCHANGED <<cmd, max_char>>
  BY DEF key_right, key_left
<1>2. CASE key_right
  <2>1. pos < max_char /\ pos' = pos + 1 /\ serial_putc(0, <<cmd[pos]>>, 0)
    BY <1>2 DEF key_right
  <2>2. column' = pos + 1
    BY <1>0, <2>1 DEF serial_putc
  <2>3. ASSUME NEW x \in Indices PROVE screen'[x] = screen[x]
    <3>1. screen'[x] = IF x \in pos .. pos THEN cmd[pos] ELSE screen[x]
      BY <1>0, <2>1 DEF serial_putc
    <3> QED
      BY <1>0, <2>1, <3>1
  <2> QED
    BY <1>0, <1>1, <2>1, <2>2, <2>3 DEF LineInv, ScreenShowsLine
<1>3. CASE key_left
  <2>1. pos # 0 /\ pos' = pos - 1 /\ serial_putc(1, <<>>, 0)
    BY <1>3 DEF key_left
  <2>2. column' = pos - 1
    BY <1>0, <2>1 DEF serial_putc
  <2>3. ASSUME NEW x \in Indices PROVE screen'[x] = screen[x]
    BY <1>0, <2>1 DEF serial_putc
  <2>4. ScreenShowsLine'
    BY <1>0, <1>1, <2>1, <2>2, <2>3 DEF ScreenShowsLine
  <2>5. pos' \in 0 .. max_char
    BY <1>0, <2>1
  <2> QED
    BY <1>1, <2>4, <2>5 DEF LineInv
<1> QED
  BY <1>2, <1>3

LEMMA ReturnInv == LineInv /\ carriage_return => LineInv'
<1> SUFFICES ASSUME LineInv, carriage_return PROVE LineInv'
  OBVIOUS
<1>1. [cmd EXCEPT ![max_char] = Nul] \in [Indices -> ShChar \cup {Nul}]
  BY LineState
<1>2. Prompt([cmd EXCEPT ![max_char] = Nul])
  BY DEF carriage_return
<1> QED
  BY <1>1, <1>2, PromptInv

LEMMA TooLongInv == \A ch \in ShChar : LineInv /\ key_too_long(ch) => LineInv'
<1> SUFFICES ASSUME NEW ch \in ShChar, LineInv, key_too_long(ch) PROVE LineInv'
  OBVIOUS
<1>1. Inserted(ch) \in [Indices -> ShChar \cup {Nul}] /\ Prompt(Inserted(ch))
  BY InsertedFacts DEF key_too_long
<1> QED
  BY <1>1, PromptInv

\* The buffer after a backspace within the text.
Erased == [x \in Indices |-> IF x \in (pos - 1) .. (max_char - 2) THEN cmd[x + 1]
                             ELSE IF x = max_char - 1 THEN Space ELSE cmd[x]]

LEMMA BackspaceInv == LineInv /\ (backspace_within \/ backspace_at_end) => LineInv'
<1> SUFFICES ASSUME LineInv, backspace_within \/ backspace_at_end PROVE LineInv'
  OBVIOUS
<1>0. /\ cmd \in [Indices -> ShChar \cup {Nul}]
      /\ max_char \in Nat /\ pos \in Nat /\ pos <= max_char /\ max_char <= MAX_NUM_CHAR - 2
      /\ \A x \in 0 .. (max_char - 1) : x \in Indices /\ cmd[x] \in ShChar
      /\ column = pos /\ \A x \in Indices : screen[x] = IF x < max_char THEN cmd[x] ELSE Space
      /\ MAX_NUM_CHAR \in Nat /\ Indices \subseteq Nat /\ Space \in ShChar
  BY LineState, Sizes
<1>1. CASE backspace_at_end
  <2>1. /\ pos > 0 /\ pos = max_char /\ pos' = pos - 1 /\ max_char' = max_char - 1 /\ cmd' = cmd
        /\ serial_putc(1, <<Space>>, 1)
    BY <1>1 DEF backspace_at_end
  <2>2. column' = pos - 1
    BY <1>0, <2>1 DEF serial_putc
  <2>3. \A x \in Indices : screen'[x] = IF x = pos - 1 THEN Space ELSE screen[x]
    BY <1>0, <2>1 DEF serial_putc
  <2>4. \A x \in Indices : screen'[x] = IF x < max_char - 1 THEN cmd[x] ELSE Space
    <3> SUFFICES ASSUME NEW x \in Indices
                 PROVE  screen'[x] = IF x < max_char - 1 THEN cmd[x] ELSE Space
      OBVIOUS
    <3>1. x \in Nat /\ (x < max_char - 1 \/ x = max_char - 1 \/ x >= max_char)
      BY <1>0
    <3> QED
      BY <1>0, <2>1, <2>3, <3>1
  <2>5. ScreenShowsLine'
    BY <2>1, <2>2, <2>4 DEF ScreenShowsLine
  <2>6. max_char' \in 0 .. (MAX_NUM_CHAR - 2) /\ pos' \in 0 .. max_char'
        /\ \A x \in 0 .. (max_char' - 1) : cmd'[x] \in ShChar
    BY <1>0, <2>1
  <2> QED
    BY <1>0, <2>1, <2>5, <2>6 DEF LineInv
<1>2. CASE backspace_within
  <2>1. /\ pos > 0 /\ pos < max_char /\ pos' = pos - 1 /\ max_char' = max_char - 1
        /\ cmd' = Erased /\ serial_putc(1, Chars(Erased, pos - 1, max_char - 1), max_char - pos + 1)
    BY <1>2 DEF backspace_within, Erased
  <2>2. \A x \in (pos - 1) .. (max_char - 2) : x \in Indices /\ x + 1 \in 0 .. (max_char - 1)
    BY <1>0, <2>1
  <2>3. cmd' \in [Indices -> ShChar \cup {Nul}]
    BY <1>0, <2>1, <2>2 DEF Erased
  <2>4. \A x \in 0 .. (max_char - 2) : cmd'[x] \in ShChar
    <3>1. \A x \in 0 .. (max_char - 2) : x \in Indices /\ x \in 0 .. (max_char - 1)
      BY <1>0
    <3> QED
      BY <1>0, <2>1, <2>2, <3>1 DEF Erased
  <2>5. Len(Chars(Erased, pos - 1, max_char - 1)) = max_char - pos + 1
        /\ \A k \in 1 .. (max_char - pos + 1) :
              Chars(Erased, pos - 1, max_char - 1)[k] = Erased[pos - 1 + k - 1]
    BY <1>0, <2>1 DEF Chars
  <2>6. column' = pos - 1
    BY <1>0, <2>1, <2>5 DEF serial_putc
  <2>7. ASSUME NEW x \in Indices PROVE screen'[x] = IF x < max_char - 1 THEN cmd'[x] ELSE Space
    <3>1. screen'[x] = IF x \in (pos - 1) .. (max_char - 1) THEN Erased[x] ELSE screen[x]
      <4>1. screen'[x] = IF x \in (pos - 1) .. (pos - 1 + (max_char - pos + 1) - 1)
                         THEN Chars(Erased, pos - 1, max_char - 1)[x - (pos - 1) + 1]
                         ELSE screen[x]
        BY <1>0, <2>1, <2>5 DEF serial_putc
      <4> QED
        BY <1>0, <2>1, <2>5, <4>1
    <3>2. Erased[x] = IF x \in (pos - 1) .. (max_char - 2) THEN cmd[x + 1]
                      ELSE IF x = max_char - 1 THEN Space ELSE cmd[x]
      BY DEF Erased
    <3> QED
      BY <1>0, <2>1, <3>1, <3>2
  <2>8. ScreenShowsLine'
    BY <2>1, <2>6, <2>7 DEF ScreenShowsLine
  <2>9. max_char' \in 0 .. (MAX_NUM_CHAR - 2) /\ pos' \in 0 .. max_char'
        /\ \A x \in 0 .. (max_char' - 1) : cmd'[x] \in ShChar
    BY <1>0, <2>1, <2>4
  <2> QED
    BY <2>3, <2>8, <2>9 DEF LineInv
<1> QED
  BY <1>1, <1>2

LEMMA KeyInv == \A ch \in ShChar : LineInv /\ (key_within(ch) \/ key_at_end(ch)) => LineInv'
<1> SUFFICES ASSUME NEW ch \in ShChar, LineInv, key_within(ch) \/ key_at_end(ch) PROVE LineInv'
  OBVIOUS
<1>0. /\ cmd \in [Indices -> ShChar \cup {Nul}]
      /\ max_char \in Nat /\ pos \in Nat /\ pos <= max_char /\ max_char <= MAX_NUM_CHAR - 2
      /\ \A x \in 0 .. (max_char - 1) : x \in Indices /\ cmd[x] \in ShChar
      /\ column = pos /\ \A x \in Indices : screen[x] = IF x < max_char THEN cmd[x] ELSE Space
      /\ MAX_NUM_CHAR \in Nat /\ Indices \subseteq Nat /\ pos \in Indices
  BY LineState, Sizes
<1>1. max_char + 1 <= MAX_NUM_CHAR - 2
  BY <1>0 DEF key_within, key_at_end
<1>2. CASE key_at_end(ch)
  <2>1. /\ pos = max_char /\ pos' = pos + 1 /\ max_char' = max_char + 1
        /\ cmd' = [cmd EXCEPT ![pos] = ch] /\ serial_putc(0, <<ch>>, 0)
    BY <1>2 DEF key_at_end
  <2>2. column' = pos + 1 /\ \A x \in Indices : screen'[x] = IF x = pos THEN ch ELSE screen[x]
    BY <1>0, <2>1 DEF serial_putc
  <2>3. \A x \in Indices : cmd'[x] = IF x = pos THEN ch ELSE cmd[x]
    BY <1>0, <2>1
  <2>4. ScreenShowsLine'
    <3>1. \A x \in Indices : screen'[x] = IF x < max_char + 1 THEN cmd'[x] ELSE Space
      <4> SUFFICES ASSUME NEW x \in Indices
                   PROVE  screen'[x] = IF x < max_char + 1 THEN cmd'[x] ELSE Space
        OBVIOUS
      <4>1. x \in Nat /\ (x < max_char \/ x = max_char \/ x > max_char)
        BY <1>0
      <4> QED
        BY <1>0, <2>1, <2>2, <2>3, <4>1
    <3> QED
      BY <2>1, <2>2, <3>1 DEF ScreenShowsLine
  <2>5. cmd' \in [Indices -> ShChar \cup {Nul}]
    BY <1>0, <2>1
  <2>6. \A x \in 0 .. max_char : cmd'[x] \in ShChar
    <3>1. \A x \in 0 .. max_char : x \in Indices /\ (x # pos => x \in 0 .. (max_char - 1))
      BY <1>0, <2>1
    <3> QED
      BY <1>0, <2>3, <3>1
  <2> QED
    BY <1>0, <1>1, <2>1, <2>4, <2>5, <2>6 DEF LineInv
<1>3. CASE key_within(ch)
  <2> DEFINE b == Inserted(ch)
  <2>1. /\ pos < max_char /\ pos' = pos + 1 /\ max_char' = max_char + 1 /\ cmd' = b
        /\ serial_putc(0, Chars(b, pos, max_char), max_char - pos)
    BY <1>3 DEF key_within
  <2>2. /\ b \in [Indices -> ShChar \cup {Nul}]
        /\ \A x \in 0 .. max_char : b[x]
              = IF x = pos THEN ch ELSE IF x > pos THEN cmd[x - 1] ELSE cmd[x]
        /\ \A x \in 0 .. max_char : b[x] \in ShChar
    BY InsertedFacts
  <2> HIDE DEF b
  <2>3. Len(Chars(b, pos, max_char)) = max_char - pos + 1
        /\ \A k \in 1 .. (max_char - pos + 1) : Chars(b, pos, max_char)[k] = b[pos + k - 1]
    BY <1>0, <2>1 DEF Chars
  <2>4. column' = pos + 1
    BY <1>0, <2>1, <2>3 DEF serial_putc
  <2>5. ASSUME NEW x \in Indices PROVE screen'[x] = IF x < max_char + 1 THEN cmd'[x] ELSE Space
    <3>1. screen'[x] = IF x \in pos .. max_char THEN b[x] ELSE screen[x]
      <4>1. screen'[x] = IF x \in (pos - 0) .. (pos - 0 + (max_char - pos + 1) - 1)
                         THEN Chars(b, pos, max_char)[x - (pos - 0) + 1] ELSE screen[x]
        BY <1>0, <2>1, <2>3 DEF serial_putc
      <4> QED
        BY <1>0, <2>1, <2>3, <4>1
    <3> QED
      BY <1>0, <2>1, <2>2, <3>1
  <2>6. ScreenShowsLine'
    BY <2>1, <2>4, <2>5 DEF ScreenShowsLine
  <2>7. max_char' \in 0 .. (MAX_NUM_CHAR - 2) /\ pos' \in 0 .. max_char'
        /\ \A x \in 0 .. (max_char' - 1) : cmd'[x] \in ShChar
    BY <1>0, <1>1, <2>1, <2>2
  <2> QED
    BY <2>1, <2>2, <2>6, <2>7 DEF LineInv
<1> QED
  BY <1>2, <1>3

LEMMA LineStepInv == LineInv /\ [LineNext]_linevars => LineInv'
<1> SUFFICES ASSUME LineInv, [LineNext]_linevars PROVE LineInv'
  OBVIOUS
<1>1. CASE UNCHANGED linevars
  BY <1>1 DEF linevars, LineInv, ScreenShowsLine
<1>2. CASE LineNext
  BY <1>2, MovesInv, ReturnInv, BackspaceInv, KeyInv, TooLongInv DEF LineNext, process_input
<1> QED
  BY <1>1, <1>2

\* The terminal shows the text the shell holds and nothing else, its cursor
\* where the next key will act, for every alphabet and size of the buffer.
THEOREM TerminalShowsLine == LineSpec => []ScreenShowsLine
<1>1. LineInv => ScreenShowsLine
  BY DEF LineInv
<1> QED
  BY <1>1, LineInitInv, LineStepInv, PTL DEF LineSpec

----------------------------------------------------------------------------
(* The line editor.                                                        *)

\* The text a user of the shell sees, and what is known of it.
Text == Chars(cmd, 0, max_char - 1)

LEMMA TextFacts ==
    ASSUME LineInv
    PROVE  /\ Text \in Seq(ShChar) /\ Len(Text) = max_char /\ DOMAIN Text = 1 .. max_char
           /\ \A k \in 1 .. max_char : Text[k] = cmd[k - 1]
           /\ max_char \in Nat /\ pos \in 0 .. max_char
<1>1. max_char \in Nat /\ \A x \in 0 .. (max_char - 1) : cmd[x] \in ShChar
  BY LineState
<1>2. /\ Chars(cmd, 0, max_char - 1) \in Seq(ShChar) /\ Len(Chars(cmd, 0, max_char - 1)) = max_char
      /\ \A k \in 1 .. max_char : Chars(cmd, 0, max_char - 1)[k] = cmd[k - 1]
  BY <1>1, CharsFacts
<1>3. pos \in 0 .. max_char
  BY LineState
<1> QED
  BY <1>1, <1>2, <1>3 DEF Text

LEMMA NextTextFacts ==
    ASSUME LineInv'
    PROVE  /\ Text' \in Seq(ShChar) /\ Len(Text') = max_char'
           /\ \A k \in 1 .. max_char' : Text'[k] = cmd'[k - 1]
<1>1. max_char' \in Nat /\ \A x \in 0 .. (max_char' - 1) : cmd'[x] \in ShChar
  <2>1. max_char' \in 0 .. (MAX_NUM_CHAR - 2) /\ \A x \in 0 .. (max_char' - 1) : cmd'[x] \in ShChar
    BY DEF LineInv
  <2>2. max_char' \in Nat
    BY <2>1, Sizes
  <2> QED
    BY <2>1, <2>2
<1>2. /\ Chars(cmd', 0, max_char' - 1) \in Seq(ShChar)
      /\ Len(Chars(cmd', 0, max_char' - 1)) = max_char'
      /\ \A k \in 1 .. max_char' : Chars(cmd', 0, max_char' - 1)[k] = cmd'[k - 1]
  BY <1>1, CharsFacts
<1> QED
  BY <1>2 DEF Text

LEMMA TypeRefines ==
    ASSUME LineInv, LineInv', NEW ch \in ShChar,
           key_within(ch) \/ key_at_end(ch) \/ key_too_long(ch)
    PROVE  Editor!Type(ch)
<1> DEFINE t == InsertAt(Text, pos + 1, ch)
<1>0. /\ Text \in Seq(ShChar) /\ Len(Text) = max_char /\ max_char \in Nat /\ pos \in 0 .. max_char
      /\ \A k \in 1 .. max_char : Text[k] = cmd[k - 1]
  BY TextFacts
<1>1. pos + 1 \in 1 .. (Len(Text) + 1)
  BY <1>0
<1>2. t \in Seq(ShChar) /\ Len(t) = max_char + 1
      /\ \A i \in 1 .. (max_char + 1) :
            t[i] = IF i < pos + 1 THEN Text[i] ELSE IF i = pos + 1 THEN ch ELSE Text[i - 1]
  <2>1. t \in Seq(ShChar) /\ Len(t) = Len(Text) + 1
    BY <1>0, <1>1, InsertAtFacts
  <2>2. \A i \in 1 .. (Len(Text) + 1) :
            t[i] = IF i < pos + 1 THEN Text[i] ELSE IF i = pos + 1 THEN ch ELSE Text[i - 1]
    BY SMTT(30), <1>0, <1>1, InsertAtFacts
  <2> QED
    BY <1>0, <2>1, <2>2
<1>3. t = SubSeq(Text, 1, pos) \o <<ch>> \o SubSeq(Text, pos + 1, Len(Text))
  <2>1. (pos + 1) - 1 = pos
    BY <1>0
  <2> QED
    BY <2>1 DEF InsertAt
<1> HIDE DEF t
<1>4. UNCHANGED lastline
  BY DEF key_within, key_at_end, key_too_long
<1>5. CASE key_too_long(ch)
  <2>1. Len(t) = MAX_NUM_CHAR - 1 /\ pos' = 0 /\ max_char' = 0
    BY <1>2, <1>5 DEF key_too_long, Prompt
  <2>2. Text' = <<>>
    BY <2>1, TextEmpty DEF Text
  <2> QED
    BY <1>3, <1>4, <2>1, <2>2 DEF Editor!Type, Editor!Become, Text
<1>6. CASE key_within(ch) \/ key_at_end(ch)
  <2>1. Len(t) # MAX_NUM_CHAR - 1 /\ pos' = pos + 1 /\ max_char' = max_char + 1
    BY <1>2, <1>6 DEF key_within, key_at_end
  <2>2. Text' \in Seq(ShChar) /\ Len(Text') = max_char + 1
        /\ \A k \in 1 .. (max_char + 1) : Text'[k] = cmd'[k - 1]
    BY <2>1, NextTextFacts
  <2>3. \A x \in 0 .. max_char : cmd'[x]
           = IF x = pos THEN ch ELSE IF x > pos THEN cmd[x - 1] ELSE cmd[x]
    <3>1. CASE key_within(ch)
      BY <3>1, InsertedFacts DEF key_within
    <3>2. CASE key_at_end(ch)
      <4>1. cmd' = [cmd EXCEPT ![pos] = ch] /\ pos = max_char /\ cmd \in [Indices -> ShChar \cup {Nul}]
            /\ pos \in Indices
        BY <3>2, LineState DEF key_at_end
      <4>2. \A x \in 0 .. max_char : x \in Indices
        BY <1>0, <4>1, Sizes DEF Indices
      <4>3. \A x \in Indices : cmd'[x] = IF x = pos THEN ch ELSE cmd[x]
        BY <4>1
      <4> QED
        BY <1>0, <4>1, <4>2, <4>3
    <3> QED
      BY <1>6, <3>1, <3>2
  <2>4. ASSUME NEW i \in 1 .. (max_char + 1) PROVE Text'[i] = t[i]
    <3>1. i - 1 \in 0 .. max_char /\ Text'[i] = cmd'[i - 1]
      BY <1>0, <2>2
    <3>2. CASE i = pos + 1
      <4>1. i - 1 = pos
        BY <1>0, <3>2
      <4> QED
        BY <1>2, <2>3, <3>1, <3>2, <4>1
    <3>3. CASE i < pos + 1
      <4>1. i - 1 # pos /\ ~(i - 1 > pos) /\ i \in 1 .. max_char
        BY <1>0, <3>3
      <4> QED
        BY <1>0, <1>2, <2>3, <3>1, <3>3, <4>1
    <3>4. CASE i > pos + 1
      <4>1. i - 1 > pos /\ i - 1 # pos /\ i - 1 \in 1 .. max_char /\ ~(i < pos + 1) /\ i # pos + 1
        BY <1>0, <3>4
      <4>2. t[i] = Text[i - 1] /\ Text[i - 1] = cmd[(i - 1) - 1]
        BY <1>0, <1>2, <4>1
      <4>3. cmd'[i - 1] = cmd[(i - 1) - 1]
        BY <2>3, <3>1, <4>1
      <4> QED
        BY <3>1, <4>2, <4>3
    <3> QED
      BY <1>0, <3>2, <3>3, <3>4
  <2>5. Text' = t
    BY <1>2, <2>2, <2>4, SeqEqual
  <2> QED
    BY <1>3, <1>4, <2>1, <2>5 DEF Editor!Type, Editor!Become, Text
<1> QED
  BY <1>5, <1>6

LEMMA EraseRefines ==
    ASSUME LineInv, LineInv', backspace_within \/ backspace_at_end
    PROVE  Editor!Erase
<1> DEFINE t == RemoveAt(Text, pos)
<1>0. /\ Text \in Seq(ShChar) /\ Len(Text) = max_char /\ max_char \in Nat /\ pos \in 0 .. max_char
      /\ DOMAIN Text = 1 .. max_char /\ \A k \in 1 .. max_char : Text[k] = cmd[k - 1]
  BY TextFacts
<1>1. pos > 0 /\ pos' = pos - 1 /\ max_char' = max_char - 1 /\ UNCHANGED lastline
  BY DEF backspace_within, backspace_at_end
<1>2. pos \in DOMAIN Text
  BY <1>0, <1>1
<1>3. t \in Seq(ShChar) /\ Len(t) = max_char - 1
      /\ \A i \in 1 .. (max_char - 1) : t[i] = IF i < pos THEN Text[i] ELSE Text[i + 1]
  <2>1. t \in Seq(ShChar) /\ Len(t) = Len(Text) - 1
    BY <1>0, <1>2, RemoveAtFacts
  <2>2. \A i \in 1 .. (Len(Text) - 1) : t[i] = IF i < pos THEN Text[i] ELSE Text[i + 1]
    BY <1>0, <1>2, RemoveAtFacts
  <2> QED
    BY <1>0, <2>1, <2>2
<1>4. t = SubSeq(Text, 1, pos - 1) \o SubSeq(Text, pos + 1, Len(Text))
  BY DEF RemoveAt
<1> HIDE DEF t
<1>5. Text' \in Seq(ShChar) /\ Len(Text') = max_char - 1
      /\ \A k \in 1 .. (max_char - 1) : Text'[k] = cmd'[k - 1]
  BY <1>1, NextTextFacts
<1>6. \A x \in 0 .. (max_char - 2) : cmd'[x] = IF x >= pos - 1 THEN cmd[x + 1] ELSE cmd[x]
  <2>1. \A x \in 0 .. (max_char - 2) : x \in Indices /\ x \in Nat
    BY <1>0, LineState
  <2>2. CASE backspace_within
    <3>1. cmd' = Erased
      BY <2>2 DEF backspace_within, Erased
    <3> QED
      BY <1>0, <1>1, <2>1, <3>1 DEF Erased
  <2>3. CASE backspace_at_end
    BY <1>0, <2>1, <2>3 DEF backspace_at_end
  <2> QED
    BY <2>2, <2>3
<1>7. ASSUME NEW i \in 1 .. (max_char - 1) PROVE Text'[i] = t[i]
  <2>1. i - 1 \in 0 .. (max_char - 2) /\ Text'[i] = cmd'[i - 1] /\ i \in 1 .. max_char
        /\ i + 1 \in 1 .. max_char /\ (i - 1) + 1 = i /\ (i + 1) - 1 = i
    BY <1>0, <1>5
  <2>2. CASE i < pos
    <3>1. ~(i - 1 >= pos - 1)
      BY <1>0, <2>2
    <3> QED
      BY <1>0, <1>3, <1>6, <2>1, <2>2, <3>1
  <2>3. CASE ~(i < pos)
    <3>1. i - 1 >= pos - 1
      BY <1>0, <2>3
    <3>2. t[i] = Text[i + 1] /\ Text[i + 1] = cmd[i]
      BY <1>0, <1>3, <2>1, <2>3
    <3>3. cmd'[i - 1] = cmd[i]
      BY <1>6, <2>1, <3>1
    <3> QED
      BY <2>1, <3>2, <3>3
  <2> QED
    BY <2>2, <2>3
<1>8. Text' = t
  BY <1>3, <1>5, <1>7, SeqEqual
<1> QED
  BY <1>1, <1>4, <1>8 DEF Editor!Erase, Editor!Become, Text

LEMMA EnterRefines ==
    ASSUME LineInv, carriage_return
    PROVE  Editor!Enter
<1> DEFINE b == [cmd EXCEPT ![max_char] = Nul]
<1>0. /\ Text \in Seq(ShChar) /\ Len(Text) = max_char /\ max_char \in Nat
      /\ DOMAIN Text = 1 .. max_char /\ \A k \in 1 .. max_char : Text[k] = cmd[k - 1]
  BY TextFacts
<1>1. /\ lastline' = IF \E x \in 0 .. (max_char - 1) : b[x] # Space THEN String(b) ELSE lastline
      /\ max_char' = 0 /\ pos' = 0
  BY DEF carriage_return, Prompt
<1>2. b[max_char] = Nul /\ max_char \in Indices
      /\ \A x \in 0 .. (max_char - 1) : b[x] = cmd[x] /\ b[x] \in ShChar
  BY <1>0, LineState
<1> HIDE DEF b
<1>3. String(b) = Text
  <2>1. String(b) = Chars(b, 0, max_char - 1)
    BY <1>2, Sizes, StringFacts
  <2>2. Chars(b, 0, max_char - 1) \in Seq(ShChar) /\ Len(Chars(b, 0, max_char - 1)) = max_char
        /\ \A k \in 1 .. max_char : Chars(b, 0, max_char - 1)[k] = b[k - 1]
    BY <1>0, <1>2, CharsFacts
  <2>3. \A k \in 1 .. max_char : b[k - 1] = cmd[k - 1]
    BY <1>0, <1>2
  <2> QED
    BY <1>0, <2>1, <2>2, <2>3, SeqEqual
<1>4. (\E x \in 0 .. (max_char - 1) : b[x] # Space) <=> (\E i \in DOMAIN Text : Text[i] # Space)
  <2>1. ASSUME NEW x \in 0 .. (max_char - 1), b[x] # Space PROVE \E i \in DOMAIN Text : Text[i] # Space
    <3>1. x + 1 \in 1 .. max_char /\ (x + 1) - 1 = x
      BY <1>0
    <3>2. Text[x + 1] = b[x]
      BY <1>0, <1>2, <3>1
    <3> QED
      BY <1>0, <2>1, <3>1, <3>2
  <2>2. ASSUME NEW i \in DOMAIN Text, Text[i] # Space PROVE \E x \in 0 .. (max_char - 1) : b[x] # Space
    <3>1. i - 1 \in 0 .. (max_char - 1) /\ b[i - 1] = Text[i]
      BY <1>0, <1>2
    <3> QED
      BY <2>2, <3>1
  <2> QED
    BY <2>1, <2>2
<1>5. Text' = <<>>
  BY <1>1, TextEmpty DEF Text
<1> QED
  BY <1>1, <1>3, <1>4, <1>5 DEF Editor!Enter, Text, Space

\* Every key does to the text what the editor's description says.
LEMMA StepRefines ==
    LineInv /\ LineInv' /\ [LineNext]_linevars => [Editor!EdNext]_(Editor!edvars)
<1> SUFFICES ASSUME LineInv, LineInv', [LineNext]_linevars
             PROVE  [Editor!EdNext]_(Editor!edvars)
  OBVIOUS
<1>1. CASE UNCHANGED linevars
  BY <1>1 DEF linevars, Editor!edvars
<1>2. CASE key_right \/ key_left
  <2>1. Text' = Text /\ UNCHANGED lastline /\ Len(Text) = max_char
    BY <1>2, TextFacts DEF key_right, key_left, Text
  <2>2. \/ pos < max_char /\ pos' = pos + 1
        \/ pos > 0 /\ pos' = pos - 1
    BY <1>2, TextFacts DEF key_right, key_left
  <2>3. Editor!Right \/ Editor!Left
    BY <2>1, <2>2 DEF Editor!Right, Editor!Left, Editor!Become, Text
  <2> QED
    BY <2>3 DEF Editor!EdNext
<1>3. CASE carriage_return
  BY <1>3, EnterRefines DEF Editor!EdNext
<1>4. CASE backspace_within \/ backspace_at_end
  BY <1>4, EraseRefines DEF Editor!EdNext
<1>5. ASSUME NEW ch \in ShChar, key_within(ch) \/ key_at_end(ch) \/ key_too_long(ch)
      PROVE  [Editor!EdNext]_(Editor!edvars)
  BY <1>5, TypeRefines DEF Editor!EdNext
<1> QED
  BY <1>1, <1>2, <1>3, <1>4, <1>5 DEF LineNext, process_input

\* process_input implements the editor: the static buffer with its two
\* counters behaves as a text with a cursor, and the line that is executed is
\* the line that was typed.
THEOREM ShellImplementsEditor == LineSpec => EditsLine
<1>1. LineInit => Editor!EdInit
  BY TextEmpty DEF LineInit, Editor!EdInit
<1> QED
  BY <1>1, LineInitInv, LineStepInv, StepRefines, PTL DEF LineSpec, EditsLine, Editor!EdSpec

----------------------------------------------------------------------------
(* The commands (ShellCmd).  The calls in progress.                         *)

LEMMA WordFacts ==
    /\ Command \subseteq DOMAIN Needs
    /\ DOMAIN Needs = Command \cup {"execute_command", "execute_env"}
    /\ "execute_command" \notin Command /\ "execute_env" \notin Command /\ "word" \notin Command
    /\ \A fn \in DOMAIN Needs : Needs[fn] \in Nat
BY DEF Command, Needs

LEMMA LineFacts ==
    ASSUME NEW l \in Lines \cup EnvLine
    PROVE  /\ l.op \in Command \cup {"word"}
           /\ l.op = "setenv" /\ l.arg[1] # "wrong" => l.arg[1] \in EnvName /\ l.arg[2] \in EnvValue
<1>1. CASE l \in EnvLine
  BY <1>1, ShellCmdAssumption
<1>2. CASE l \in Lines
  <2>1. ASSUME NEW o \in {"help", "saveenv", "printenv", "ps", "list", "start"}, NEW a, l = Line(o, a)
        PROVE  l.op \in Command /\ l.op # "setenv"
    BY <2>1 DEF Line, Command
  <2>2. ASSUME l = Line("setenv", <<"wrong">>)
        PROVE  l.op \in Command /\ l.arg[1] = "wrong"
    BY <2>2 DEF Line, Command
  <2>3. ASSUME NEW n \in EnvName, NEW v \in EnvValue, l = Line("setenv", <<n, v>>)
        PROVE  l.op \in Command /\ l.arg[1] \in EnvName /\ l.arg[2] \in EnvValue
    BY <2>3 DEF Line, Command
  <2>4. ASSUME NEW n, l = Line("word", n)
        PROVE  l.op = "word"
    BY <2>4 DEF Line
  <2>5. \/ \E o \in {"help", "saveenv", "printenv", "ps", "list", "start"}, a \in {"right", "wrong"} :
              l = Line(o, <<a>>)
        \/ l = Line("setenv", <<"wrong">>)
        \/ \E n \in EnvName, v \in EnvValue : l = Line("setenv", <<n, v>>)
        \/ \E n \in EnvName : l = Line("word", <<n>>)
    BY <1>2 DEF Lines
  <2>6. CASE \E o \in {"help", "saveenv", "printenv", "ps", "list", "start"}, a \in {"right", "wrong"} :
                l = Line(o, <<a>>)
    BY <2>1, <2>6
  <2>7. CASE l = Line("setenv", <<"wrong">>)
    BY <2>2, <2>7
  <2>8. CASE \E n \in EnvName, v \in EnvValue : l = Line("setenv", <<n, v>>)
    BY <2>3, <2>8
  <2>9. CASE \E n \in EnvName : l = Line("word", <<n>>)
    BY <2>4, <2>9
  <2> QED BY <2>5, <2>6, <2>7, <2>8, <2>9
<1> QED BY <1>1, <1>2

FrameSteps == {"entry", "body", "run", "exit"}

LEMMA FrameWaits ==
    ASSUME NEW f \in CmdFrame, NEW w \in FrameSteps
    PROVE  LET x == [f EXCEPT !.at = w]
           IN x \in CmdFrame /\ x.fn = f.fn /\ x.held = f.held /\ x.at = w
BY DEF CmdFrame, FrameSteps

LEMMA FrameHolds ==
    ASSUME NEW f \in CmdFrame, NEW h \in Nat
    PROVE  LET x == [f EXCEPT !.held = h]
           IN x \in CmdFrame /\ x.fn = f.fn /\ x.held = h
BY DEF CmdFrame

LEMMA FrameToDo ==
    ASSUME NEW f \in CmdFrame, NEW t \in Seq(EnvLine)
    PROVE  LET x == [f EXCEPT !.todo = t]
           IN x \in CmdFrame /\ x.fn = f.fn /\ x.held = f.held /\ x.at = f.at
BY DEF CmdFrame

LEMMA FrameFields ==
    ASSUME NEW f \in CmdFrame
    PROVE  /\ f.fn \in DOMAIN Needs /\ f.line \in Lines \cup EnvLine /\ f.todo \in Seq(EnvLine)
           /\ f.held \in Nat /\ f.at \in FrameSteps
           /\ f.fn \in Command => f.line.op = f.fn
BY DEF CmdFrame, FrameSteps

\* Two fields at once.
LEMMA FrameHoldsWaits ==
    ASSUME NEW f \in CmdFrame, NEW h \in Nat, NEW w \in FrameSteps
    PROVE  LET x == [f EXCEPT !.held = h, !.at = w]
           IN x \in CmdFrame /\ x.fn = f.fn /\ x.held = h /\ x.at = w
<1> DEFINE y == [f EXCEPT !.held = h]
<1>1. y \in CmdFrame /\ y.fn = f.fn /\ y.held = h
  BY FrameHolds
<1>2. [f EXCEPT !.held = h, !.at = w] = [y EXCEPT !.at = w]
  OBVIOUS
<1> HIDE DEF y
<1>3. LET x == [y EXCEPT !.at = w]
      IN x \in CmdFrame /\ x.fn = y.fn /\ x.held = y.held /\ x.at = w
  BY <1>1, FrameWaits
<1> QED BY <1>1, <1>2, <1>3

LEMMA FrameWaitsToDo ==
    ASSUME NEW f \in CmdFrame, NEW t \in Seq(EnvLine), NEW w \in FrameSteps
    PROVE  LET x == [f EXCEPT !.at = w, !.todo = t]
           IN x \in CmdFrame /\ x.fn = f.fn /\ x.held = f.held /\ x.at = w
<1> DEFINE y == [f EXCEPT !.at = w]
<1>1. y \in CmdFrame /\ y.fn = f.fn /\ y.held = f.held /\ y.at = w
  BY FrameWaits
<1>2. [f EXCEPT !.at = w, !.todo = t] = [y EXCEPT !.todo = t]
  OBVIOUS
<1> HIDE DEF y
<1>3. LET x == [y EXCEPT !.todo = t]
      IN x \in CmdFrame /\ x.fn = y.fn /\ x.held = y.held /\ x.at = y.at
  BY <1>1, FrameToDo
<1> QED BY <1>1, <1>2, <1>3

LEMMA SizeOfCalls ==
    ASSUME NEW S, NEW fs \in Seq(S), fs # <<>>
    PROVE  Len(fs) \in Nat \ {0} /\ (Len(fs) <= 4 => Len(fs) \in {1, 2, 3, 4})
<1>1. Len(fs) \in Nat \ {0}
  OBVIOUS
<1>2. \A n \in Nat \ {0} : n <= 4 => n \in {1, 2, 3, 4}
  OBVIOUS
<1> QED BY <1>1, <1>2

LEMMA CallElements ==
    ASSUME NEW S, NEW fs \in Seq(S)
    PROVE  Len(fs) \in Nat /\ DOMAIN fs = 1 .. Len(fs) /\ \A k \in 1 .. Len(fs) : fs[k] \in S
OBVIOUS

\* The caller's frames, with the top replaced and with one more.
LEMMA UnderFacts ==
    ASSUME NEW S, NEW fs \in Seq(S), fs # <<>>, NEW x \in S, NEW f \in S
    PROVE  LET u == SubSeq(fs, 1, Len(fs) - 1)
               g == u \o <<x>>
               h == u \o <<x, f>>
           IN  /\ u \in Seq(S) /\ Len(u) = Len(fs) - 1
               /\ \A i \in 1 .. (Len(fs) - 1) : u[i] = fs[i]
               /\ g \in Seq(S) /\ Len(g) = Len(fs)
               /\ \A i \in 1 .. Len(fs) : g[i] = IF i = Len(fs) THEN x ELSE fs[i]
               /\ h \in Seq(S) /\ Len(h) = Len(fs) + 1
               /\ \A i \in 1 .. (Len(fs) + 1) :
                     h[i] = IF i = Len(fs) + 1 THEN f ELSE IF i = Len(fs) THEN x ELSE fs[i]
<1>1. Len(fs) \in Nat \ {0} /\ Len(fs) - 1 \in 0 .. Len(fs)
  BY SizeOfCalls
<1> DEFINE u == SubSeq(fs, 1, Len(fs) - 1)
<1>2. u \in Seq(S) /\ Len(u) = Len(fs) - 1 /\ \A i \in 1 .. (Len(fs) - 1) : u[i] = fs[i]
  <2>1. \A i \in 1 .. (Len(fs) - 1) : fs[i] \in S
    BY <1>1
  <2> DEFINE n == Len(fs) - 1
  <2>2. n \in Nat
    BY <1>1
  <2> HIDE DEF n
  <2>3. /\ SubSeq(fs, 1, n) \in Seq(S)
        /\ Len(SubSeq(fs, 1, n)) = IF 1 <= n THEN n - 1 + 1 ELSE 0
        /\ \A i \in 1 .. n - 1 + 1 : SubSeq(fs, 1, n)[i] = fs[1 + i - 1]
    BY <2>1, <2>2, SubSeqProperties DEF n
  <2>4. n - 1 + 1 = n /\ \A i \in 1 .. n : 1 + i - 1 = i
    BY <2>2
  <2>5. /\ SubSeq(fs, 1, n) \in Seq(S) /\ Len(SubSeq(fs, 1, n)) = n
        /\ \A i \in 1 .. n : SubSeq(fs, 1, n)[i] = fs[i]
    BY <2>2, <2>3, <2>4
  <2> QED BY <2>5 DEF n
<1> HIDE DEF u
<1>3. /\ u \o <<x>> \in Seq(S) /\ Len(u \o <<x>>) = Len(fs)
      /\ \A i \in 1 .. Len(fs) : (u \o <<x>>)[i] = IF i = Len(fs) THEN x ELSE fs[i]
  BY <1>1, <1>2
<1>4. <<x, f>> \in Seq(S) /\ Len(<<x, f>>) = 2
  OBVIOUS
<1>5. /\ u \o <<x, f>> \in Seq(S) /\ Len(u \o <<x, f>>) = Len(fs) + 1
      /\ \A i \in 1 .. (Len(fs) + 1) :
            (u \o <<x, f>>)[i] = IF i = Len(fs) + 1 THEN f ELSE IF i = Len(fs) THEN x ELSE fs[i]
  BY <1>1, <1>2, <1>4
<1> QED BY <1>2, <1>3, <1>5 DEF u

\* The frames of a stack, one by one.
LEMMA EachFrame ==
    ASSUME NEW fs, NEW gs, Len(fs) \in {1, 2, 3, 4}, \A i \in 1 .. (Len(fs) - 1) : gs[i] = fs[i]
    PROVE  /\ Len(fs) \in {2, 3, 4} => gs[1] = fs[1]
           /\ Len(fs) \in {3, 4} => gs[2] = fs[2]
           /\ Len(fs) = 4 => gs[3] = fs[3]
<1>1. \A n \in {2, 3, 4} : 1 \in 1 .. (n - 1)
  OBVIOUS
<1>2. \A n \in {3, 4} : 2 \in 1 .. (n - 1)
  OBVIOUS
<1>3. 3 \in 1 .. (4 - 1)
  OBVIOUS
<1> QED BY <1>1, <1>2, <1>3

LEMMA HeldSums ==
    ASSUME NEW fs \in Seq(CmdFrame)
    PROVE  /\ \A k \in 1 .. Len(fs) : fs[k].held \in Nat
           /\ fs = <<>> => HeldBy(fs) = 0
           /\ Len(fs) = 1 => HeldBy(fs) = fs[1].held
           /\ Len(fs) = 2 => HeldBy(fs) = fs[1].held + fs[2].held
           /\ Len(fs) = 3 => HeldBy(fs) = fs[1].held + fs[2].held + fs[3].held
           /\ Len(fs) = 4 => HeldBy(fs) = fs[1].held + fs[2].held + fs[3].held + fs[4].held
<1>1. \A k \in 1 .. Len(fs) : fs[k].held \in Nat
  BY CallElements, FrameFields
<1>2. Len(fs) \in Nat
  BY CallElements
<1>3. HeldBy(fs) = HeldAt(fs, 1) + HeldAt(fs, 2) + HeldAt(fs, 3) + HeldAt(fs, 4)
  BY DEF HeldBy
<1> DEFINE n == Len(fs)
<1>4. /\ \A k \in 1 .. 4 : k <= n => HeldAt(fs, k) = fs[k].held /\ fs[k].held \in Nat
      /\ \A k \in 1 .. 4 : k > n => HeldAt(fs, k) = 0
  BY <1>1, <1>2 DEF HeldAt
<1>5. fs = <<>> => n = 0
  OBVIOUS
<1>6. n \in Nat
  BY <1>2
<1> HIDE DEF n
<1>7. n = 0 => HeldBy(fs) = 0
  BY <1>3, <1>4
<1>8. n = 1 => HeldBy(fs) = fs[1].held
  BY <1>3, <1>4
<1>9. n = 2 => HeldBy(fs) = fs[1].held + fs[2].held
  BY <1>3, <1>4
<1>10. n = 3 => HeldBy(fs) = fs[1].held + fs[2].held + fs[3].held
  BY SMTT(30), <1>3, <1>4
<1>11. n = 4 => HeldBy(fs) = fs[1].held + fs[2].held + fs[3].held + fs[4].held
  BY <1>3, <1>4
<1> QED BY <1>1, <1>5, <1>7, <1>8, <1>9, <1>10, <1>11 DEF n

LEMMA HeldIsNat ==
    ASSUME NEW fs \in Seq(CmdFrame)
    PROVE  HeldBy(fs) \in Nat
<1>1. \A k \in 1 .. Len(fs) : fs[k].held \in Nat
  BY HeldSums
<1>2. Len(fs) \in Nat
  BY CallElements
<1>3. \A k \in 1 .. 4 : HeldAt(fs, k) \in Nat
  BY <1>1, <1>2 DEF HeldAt
<1>4. \A x, y, z, w \in Nat : x + y + z + w \in Nat
  OBVIOUS
<1> QED BY <1>3, <1>4 DEF HeldBy

LEMMA HeldChange ==
    ASSUME NEW fs \in Seq(CmdFrame), NEW gs \in Seq(CmdFrame), fs # <<>>, Len(fs) <= 4,
           \A i \in 1 .. (Len(fs) - 1) : gs[i] = fs[i]
    PROVE  /\ HeldBy(fs) \in Nat
           /\ Len(gs) = Len(fs) => HeldBy(gs) = HeldBy(fs) - fs[Len(fs)].held + gs[Len(fs)].held
           /\ Len(gs) = Len(fs) - 1 => HeldBy(gs) = HeldBy(fs) - fs[Len(fs)].held
           /\ Len(gs) = Len(fs) + 1 /\ Len(fs) < 4 /\ gs[Len(fs) + 1].held = 0 =>
                 HeldBy(gs) = HeldBy(fs) - fs[Len(fs)].held + gs[Len(fs)].held
<1>1. Len(fs) \in {1, 2, 3, 4} /\ Len(gs) \in Nat
  BY SizeOfCalls, CallElements
<1>2. /\ Len(fs) \in {2, 3, 4} => gs[1] = fs[1]
      /\ Len(fs) \in {3, 4} => gs[2] = fs[2]
      /\ Len(fs) = 4 => gs[3] = fs[3]
  BY <1>1, EachFrame
<1>3. Len(gs) = 0 => gs = <<>>
  OBVIOUS
<1>4. CASE Len(fs) = 1
  <2>1. HeldBy(fs) = fs[1].held /\ fs[1].held \in Nat
    BY <1>4, HeldSums
  <2>2. Len(gs) = 0 => HeldBy(gs) = 0
    BY <1>3, HeldSums
  <2>3. Len(gs) = 1 => HeldBy(gs) = gs[1].held /\ gs[1].held \in Nat
    BY HeldSums
  <2>4. Len(gs) = 2 => HeldBy(gs) = gs[1].held + gs[2].held /\ gs[1].held \in Nat
    BY HeldSums
  <2> QED BY <1>4, <2>1, <2>2, <2>3, <2>4
<1>5. CASE Len(fs) = 2
  <2>1. HeldBy(fs) = fs[1].held + fs[2].held /\ fs[1].held \in Nat /\ fs[2].held \in Nat
    BY <1>5, HeldSums
  <2>2. Len(gs) = 1 => HeldBy(gs) = gs[1].held
    BY HeldSums
  <2>3. Len(gs) = 2 => HeldBy(gs) = gs[1].held + gs[2].held /\ gs[2].held \in Nat
    BY HeldSums
  <2>4. Len(gs) = 3 => HeldBy(gs) = gs[1].held + gs[2].held + gs[3].held /\ gs[2].held \in Nat
    BY HeldSums
  <2> QED BY SMTT(30), <1>2, <1>5, <2>1, <2>2, <2>3, <2>4
<1>6. CASE Len(fs) = 3
  <2>1. /\ HeldBy(fs) = fs[1].held + fs[2].held + fs[3].held
        /\ fs[1].held \in Nat /\ fs[2].held \in Nat /\ fs[3].held \in Nat
    BY <1>6, HeldSums
  <2>2. Len(gs) = 2 => HeldBy(gs) = gs[1].held + gs[2].held
    BY HeldSums
  <2>3. Len(gs) = 3 => HeldBy(gs) = gs[1].held + gs[2].held + gs[3].held /\ gs[3].held \in Nat
    BY HeldSums
  <2>4. Len(gs) = 4 => /\ HeldBy(gs) = gs[1].held + gs[2].held + gs[3].held + gs[4].held
                       /\ gs[3].held \in Nat
    BY HeldSums
  <2>5. fs[Len(fs)] = fs[3] /\ gs[Len(fs)] = gs[3] /\ gs[Len(fs) + 1] = gs[4]
    BY <1>6
  <2>6. CASE Len(gs) = 2
    BY <1>2, <1>6, <2>1, <2>2, <2>5, <2>6
  <2>7. CASE Len(gs) = 3
    BY <1>2, <1>6, <2>1, <2>3, <2>5, <2>7
  <2>8. CASE Len(gs) = 4
    <3>1. gs[1].held = fs[1].held /\ gs[2].held = fs[2].held
      BY <1>2, <1>6
    <3>2. HeldBy(gs) = fs[1].held + fs[2].held + gs[3].held + gs[4].held /\ gs[3].held \in Nat
      BY <2>4, <2>8, <3>1
    <3>3. gs[4].held = 0 => HeldBy(gs) = fs[1].held + fs[2].held + gs[3].held
      BY <2>1, <3>2
    <3> QED BY <1>6, <2>1, <2>5, <2>8, <3>2, <3>3
  <2> QED BY <1>1, <1>6, <2>1, <2>6, <2>7, <2>8
<1>7. CASE Len(fs) = 4
  <2>1. /\ HeldBy(fs) = fs[1].held + fs[2].held + fs[3].held + fs[4].held
        /\ fs[1].held \in Nat /\ fs[2].held \in Nat /\ fs[3].held \in Nat /\ fs[4].held \in Nat
    BY <1>7, HeldSums
  <2> DEFINE r == fs[1].held + fs[2].held + fs[3].held
  <2>9. r \in Nat
    <3>1. \A x, y, z \in Nat : x + y + z \in Nat
      OBVIOUS
    <3> QED BY <2>1, <3>1
  <2>10. HeldBy(fs) = r + fs[4].held /\ fs[4].held \in Nat
    BY <2>1
  <2> HIDE DEF r
  <2>2. Len(gs) = 3 => HeldBy(gs) = gs[1].held + gs[2].held + gs[3].held
    BY HeldSums
  <2>3. Len(gs) = 4 => /\ HeldBy(gs) = gs[1].held + gs[2].held + gs[3].held + gs[4].held
                       /\ gs[4].held \in Nat
    BY HeldSums
  <2>5. fs[Len(fs)] = fs[4] /\ gs[Len(fs)] = gs[4] /\ gs[Len(fs) + 1] = gs[5]
    BY <1>7
  <2>6. CASE Len(gs) = 3
    <3>1. gs[1].held = fs[1].held /\ gs[2].held = fs[2].held /\ gs[3].held = fs[3].held
      BY <1>2, <1>7
    <3>2. HeldBy(gs) = r
      BY <2>2, <2>6, <3>1 DEF r
    <3>3. HeldBy(gs) = HeldBy(fs) - fs[4].held /\ HeldBy(fs) \in Nat
      BY <2>9, <2>10, <3>2
    <3> QED BY <1>7, <2>5, <2>6, <3>3
  <2>7. CASE Len(gs) = 4
    <3>1. gs[1].held = fs[1].held /\ gs[2].held = fs[2].held /\ gs[3].held = fs[3].held
      BY <1>2, <1>7
    <3>2. HeldBy(gs) = r + gs[4].held /\ gs[4].held \in Nat
      BY <2>3, <2>7, <3>1 DEF r
    <3>3. HeldBy(gs) = HeldBy(fs) - fs[4].held + gs[4].held /\ HeldBy(fs) \in Nat
      BY SMTT(30), <2>9, <2>10, <3>2
    <3> QED BY <1>7, <2>5, <2>7, <3>3
  <2>8. CASE Len(gs) = 5
    BY <1>2, <1>7, <2>1, <2>3, <2>5, <2>8
  <2> QED BY <1>1, <1>7, <2>1, <2>6, <2>7, <2>8
<1> QED BY <1>1, <1>4, <1>5, <1>6, <1>7

\* Where a function can be.
LEMMA Places ==
    ASSUME NEW fs \in Seq(CmdFrame), NEW may, Nested(fs, may), fs # <<>>, Len(fs) <= 4
    PROVE  LET n == Len(fs)
               top == fs[n]
           IN  /\ top.fn = "execute_command" => n \in {1, 3}
               /\ top.fn = "execute_env" => n = 2
               /\ top.fn \in Command => n \in {2, 4}
               /\ n = 1 \/ (n = 2 /\ top.at # "run") => may
               /\ n \in 3 .. 4 => ~ may
<1>1. Len(fs) \in {1, 2, 3, 4}
  BY SizeOfCalls
<1>2. Len(fs) = 1 => fs[1].fn = "execute_command" /\ may
  BY DEF Nested
<1>3. Len(fs) = 2 => fs[2].fn # "execute_command" /\ (fs[2].at # "run" => may)
  BY DEF Nested
<1>4. Len(fs) = 3 => fs[3].fn = "execute_command" /\ ~ may
  BY DEF Nested
<1>5. Len(fs) = 4 => fs[4].fn \in Command /\ ~ may
  BY DEF Nested
<1> QED BY <1>1, <1>2, <1>3, <1>4, <1>5, WordFacts

\* A call goes on; a variable has been run; a line is run; a line of a variable.
LEMMA NestedReplace ==
    ASSUME NEW fs \in Seq(CmdFrame), NEW gs \in Seq(CmdFrame), fs # <<>>, Len(fs) <= 4,
           NEW may \in BOOLEAN, Nested(fs, may),
           Len(gs) = Len(fs), \A i \in 1 .. (Len(fs) - 1) : gs[i] = fs[i],
           gs[Len(fs)].fn = fs[Len(fs)].fn, gs[Len(fs)].at # "entry",
           fs[Len(fs)].at # "run"
    PROVE  Nested(gs, may)
<1>1. Len(fs) \in {1, 2, 3, 4}
  BY SizeOfCalls
<1>2. \A k \in DOMAIN gs : gs[k].at = "entry" => gs[k].held = 0
  BY <1>1 DEF Nested
<1>3. fs[Len(fs)].fn = "execute_env" => Len(fs) = 2
  BY Places
<1>8. /\ Len(fs) \in {2, 3, 4} => gs[1] = fs[1]
      /\ Len(fs) \in {3, 4} => gs[2] = fs[2]
      /\ Len(fs) = 4 => gs[3] = fs[3]
  BY <1>1, EachFrame
<1>4. CASE Len(fs) = 1
  BY <1>1, <1>2, <1>3, <1>8, <1>4 DEF Nested
<1>5. CASE Len(fs) = 2
  BY <1>1, <1>2, <1>3, <1>8, <1>5 DEF Nested
<1>6. CASE Len(fs) = 3
  BY <1>1, <1>2, <1>3, <1>8, <1>6 DEF Nested
<1>7. CASE Len(fs) = 4
  BY <1>1, <1>2, <1>3, <1>8, <1>7 DEF Nested
<1> QED BY <1>1, <1>4, <1>5, <1>6, <1>7

LEMMA NestedEnds ==
    ASSUME NEW fs \in Seq(CmdFrame), NEW gs \in Seq(CmdFrame), fs # <<>>, Len(fs) <= 4,
           NEW may \in BOOLEAN, Nested(fs, may),
           Len(gs) = Len(fs), \A i \in 1 .. (Len(fs) - 1) : gs[i] = fs[i],
           gs[Len(fs)].fn = fs[Len(fs)].fn, gs[Len(fs)].at # "entry",
           fs[Len(fs)].fn = "execute_env"
    PROVE  Nested(gs, TRUE)
<1>1. Len(fs) \in {1, 2, 3, 4}
  BY SizeOfCalls
<1>2. \A k \in DOMAIN gs : gs[k].at = "entry" => gs[k].held = 0
  BY <1>1 DEF Nested
<1>3. fs[Len(fs)].fn = "execute_env" => Len(fs) = 2
  BY Places
<1>8. /\ Len(fs) \in {2, 3, 4} => gs[1] = fs[1]
      /\ Len(fs) \in {3, 4} => gs[2] = fs[2]
      /\ Len(fs) = 4 => gs[3] = fs[3]
  BY <1>1, EachFrame
<1>4. CASE Len(fs) = 1
  BY <1>1, <1>2, <1>3, <1>8, <1>4 DEF Nested
<1>5. CASE Len(fs) = 2
  BY <1>1, <1>2, <1>3, <1>8, <1>5 DEF Nested
<1>6. CASE Len(fs) = 3
  BY <1>1, <1>2, <1>3, <1>8, <1>6 DEF Nested
<1>7. CASE Len(fs) = 4
  BY <1>1, <1>2, <1>3, <1>8, <1>7 DEF Nested
<1> QED BY <1>1, <1>4, <1>5, <1>6, <1>7

LEMMA NestedCalls ==
    ASSUME NEW fs \in Seq(CmdFrame), NEW gs \in Seq(CmdFrame), fs # <<>>, Len(fs) <= 4,
           NEW may \in BOOLEAN, Nested(fs, may),
           Len(gs) = Len(fs) + 1, \A i \in 1 .. (Len(fs) - 1) : gs[i] = fs[i],
           gs[Len(fs)].fn = fs[Len(fs)].fn, gs[Len(fs) + 1].held = 0,
           fs[Len(fs)].fn = "execute_command", gs[Len(fs)].at = "exit",
           gs[Len(fs) + 1].fn \in Command \/ (gs[Len(fs) + 1].fn = "execute_env" /\ may)
    PROVE  Nested(gs, may) /\ Len(gs) <= 4
<1>1. Len(fs) \in {1, 2, 3, 4}
  BY SizeOfCalls
<1>2. /\ fs[Len(fs)].fn = "execute_env" => Len(fs) = 2
      /\ fs[Len(fs)].fn = "execute_command" => Len(fs) \in {1, 3}
      /\ Len(fs) \in 3 .. 4 => ~ may
      /\ Len(fs) = 1 => may
  BY Places
<1>3. \A k \in DOMAIN gs : gs[k].at = "entry" => gs[k].held = 0
  BY <1>1 DEF Nested
<1>8. /\ Len(fs) \in {2, 3, 4} => gs[1] = fs[1]
      /\ Len(fs) \in {3, 4} => gs[2] = fs[2]
      /\ Len(fs) = 4 => gs[3] = fs[3]
  BY <1>1, EachFrame
<1>4. CASE Len(fs) = 1
  <2>1. fs[1].fn = "execute_command" /\ gs[1].fn = "execute_command" /\ Len(gs) = 2
    BY <1>4 DEF Nested
  <2>2. gs[1].at = "exit" /\ may
    BY <1>2, <1>4, <2>1
  <2>3. gs[2].fn \in Command \/ gs[2].fn = "execute_env"
    BY <1>4, <2>1
  <2> QED BY <1>3, <2>1, <2>2, <2>3, WordFacts DEF Nested
<1>5. CASE Len(fs) = 2
  BY <1>2, <1>5
<1>6. CASE Len(fs) = 3
  BY <1>1, <1>2, <1>3, <1>8, <1>6, WordFacts DEF Nested
<1>7. CASE Len(fs) = 4
  BY <1>1, <1>2, <1>3, <1>8, <1>7
<1> QED BY <1>1, <1>4, <1>5, <1>6, <1>7

LEMMA NestedRuns ==
    ASSUME NEW fs \in Seq(CmdFrame), NEW gs \in Seq(CmdFrame), fs # <<>>, Len(fs) <= 4,
           NEW may \in BOOLEAN, Nested(fs, may),
           Len(gs) = Len(fs) + 1, \A i \in 1 .. (Len(fs) - 1) : gs[i] = fs[i],
           gs[Len(fs)].fn = fs[Len(fs)].fn, gs[Len(fs) + 1].held = 0,
           fs[Len(fs)].fn = "execute_env", gs[Len(fs)].at = "run",
           gs[Len(fs) + 1].fn = "execute_command"
    PROVE  Nested(gs, FALSE) /\ Len(gs) <= 4
<1>1. Len(fs) \in {1, 2, 3, 4}
  BY SizeOfCalls
<1>2. /\ fs[Len(fs)].fn = "execute_env" => Len(fs) = 2
      /\ fs[Len(fs)].fn = "execute_command" => Len(fs) \in {1, 3}
      /\ Len(fs) \in 3 .. 4 => ~ may
      /\ Len(fs) = 1 => may
  BY Places
<1>3. \A k \in DOMAIN gs : gs[k].at = "entry" => gs[k].held = 0
  BY <1>1 DEF Nested
<1>8. /\ Len(fs) \in {2, 3, 4} => gs[1] = fs[1]
      /\ Len(fs) \in {3, 4} => gs[2] = fs[2]
      /\ Len(fs) = 4 => gs[3] = fs[3]
  BY <1>1, EachFrame
<1>4. CASE Len(fs) = 1
  BY <1>2, <1>4
<1>5. CASE Len(fs) = 2
  BY <1>1, <1>2, <1>3, <1>8, <1>5, WordFacts DEF Nested
<1>6. CASE Len(fs) = 3
  BY <1>2, <1>6
<1>7. CASE Len(fs) = 4
  BY <1>1, <1>2, <1>3, <1>8, <1>7
<1> QED BY <1>1, <1>4, <1>5, <1>6, <1>7

LEMMA NestedPop ==
    ASSUME NEW fs \in Seq(CmdFrame), NEW gs \in Seq(CmdFrame), fs # <<>>, Len(fs) <= 4,
           NEW may \in BOOLEAN, Nested(fs, may), fs[Len(fs)].at = "exit",
           Len(gs) = Len(fs) - 1, \A i \in 1 .. (Len(fs) - 1) : gs[i] = fs[i]
    PROVE  Nested(gs, may) /\ (gs = <<>> => may)
<1>1. Len(fs) \in {1, 2, 3, 4}
  BY SizeOfCalls
<1>2. /\ Len(fs) = 1 \/ (Len(fs) = 2 /\ fs[Len(fs)].at # "run") => may
      /\ Len(fs) \in 3 .. 4 => ~ may
  BY Places
<1>3. \A k \in DOMAIN gs : gs[k].at = "entry" => gs[k].held = 0
  BY <1>1 DEF Nested
<1>8. /\ Len(fs) \in {2, 3, 4} => gs[1] = fs[1]
      /\ Len(fs) \in {3, 4} => gs[2] = fs[2]
      /\ Len(fs) = 4 => gs[3] = fs[3]
  BY <1>1, EachFrame
<1>4. CASE Len(fs) = 1
  BY <1>1, <1>2, <1>3, <1>8, <1>4 DEF Nested
<1>5. CASE Len(fs) = 2
  BY <1>1, <1>2, <1>3, <1>8, <1>5 DEF Nested
<1>9. ASSUME Len(fs) \in {3, 4}
      PROVE  /\ gs[1].fn = "execute_command" /\ gs[1].at = "exit"
             /\ gs[2].fn = "execute_env" /\ gs[2].at = "run" /\ gs[2].fn # "execute_command"
             /\ ~ may /\ gs # <<>>
             /\ Len(fs) = 4 => gs[3].fn = "execute_command"
  <2>1. ~ may
    BY <1>2, <1>9
  <2>2. /\ fs[1].fn = "execute_command" /\ fs[1].at = "exit"
        /\ fs[2].fn = "execute_env" /\ fs[2].at = "run"
        /\ fs[3].fn = "execute_command"
    BY <1>9, <2>1 DEF Nested
  <2> QED BY <1>8, <1>9, <2>1, <2>2
<1>6. CASE Len(fs) = 3
  <2>1. Len(gs) = 2
    BY <1>6
  <2> QED BY <1>3, <1>6, <1>9, <2>1 DEF Nested
<1>7. CASE Len(fs) = 4
  <2>1. Len(gs) = 3
    BY <1>7
  <2> QED BY <1>3, <1>7, <1>9, <2>1 DEF Nested
<1> QED BY <1>1, <1>4, <1>5, <1>6, <1>7

----------------------------------------------------------------------------
(* The steps of the commands.                                               *)

LEMMA CmdTypes ==
    ASSUME ShellCmdInv
    PROVE  /\ envlist \in Seq([name : EnvName, value : EnvValue]) /\ frames \in Seq(CmdFrame)
           /\ env_init \in BOOLEAN /\ start_env \in BOOLEAN /\ guest \in BOOLEAN /\ wild \in BOOLEAN
           /\ envblocks \in Nat /\ head \in {"whole", "none", "bare"}
           /\ HeldBy(frames) \in Nat /\ Len(frames) <= 4
<1>1. /\ envlist \in Seq([name : EnvName, value : EnvValue]) /\ frames \in Seq(CmdFrame)
      /\ env_init \in BOOLEAN /\ start_env \in BOOLEAN /\ guest \in BOOLEAN /\ wild \in BOOLEAN
      /\ envblocks \in Nat /\ head \in DOMAIN Allocated
  BY DEF ShellCmdInv, ShellCmdTypeOK
<1>2. DOMAIN Allocated = {"whole", "none", "bare"}
  BY DEF Allocated
<1>3. Len(frames) <= 4
  BY DEF ShellCmdInv, ShellBounded
<1>4. HeldBy(frames) \in Nat
  BY <1>1, HeldIsNat
<1> QED BY <1>1, <1>2, <1>3, <1>4

LEMMA TopFacts ==
    ASSUME ShellCmdInv, frames # <<>>
    PROVE  Top \in CmdFrame /\ Top = frames[Len(frames)] /\ Len(frames) \in {1, 2, 3, 4}
<1>1. frames \in Seq(CmdFrame) /\ Len(frames) <= 4
  BY CmdTypes
<1>2. Len(frames) \in {1, 2, 3, 4}
  BY <1>1, SizeOfCalls
<1>3. Top = frames[Len(frames)]
  BY DEF Top
<1>4. Len(frames) \in 1 .. Len(frames)
  BY <1>2
<1> QED BY <1>1, <1>2, <1>3, <1>4, CallElements

LEMMA AtTop ==
    ASSUME ShellCmdInv, NEW fn, NEW w, At(fn, w)
    PROVE  frames # <<>> /\ Top.fn = fn /\ Top.at = w
<1>1. Len(frames) > 0 /\ Top.fn = fn /\ Top.at = w
  BY DEF At
<1> QED BY <1>1

\* The list does not change: the blocks follow the calls.
LEMMA CallsKeep ==
    ASSUME ShellCmdInv, ~ wild, frames' \in Seq(CmdFrame), Len(frames') <= 4,
           Nested(frames', start_env'), frames' = <<>> => start_env',
           start_env' \in BOOLEAN, guest' \in BOOLEAN, wild' \in BOOLEAN,
           UNCHANGED <<envlist, env_init, head>>,
           HeldBy(frames') \in Nat,
           envblocks' = envblocks + HeldBy(frames') - HeldBy(frames)
    PROVE  ShellCmdInv'
<1>1. /\ envlist \in Seq([name : EnvName, value : EnvValue]) /\ env_init \in BOOLEAN
      /\ envblocks \in Nat /\ HeldBy(frames) \in Nat
  BY CmdTypes
<1>2. HeldBy(frames) <= envblocks /\ head \in DOMAIN Allocated
  BY DEF ShellCmdInv, ShellCmdTypeOK
<1>3. envblocks' \in Nat /\ HeldBy(frames') <= envblocks'
  BY <1>1, <1>2
<1>4. /\ ~ env_init => envlist = <<>>
      /\ env_init => head # "none"
      /\ head # "bare" => envblocks = HeldBy(frames) + NodeBlocks * Nodes
  BY DEF ShellCmdInv, ShellBounded
<1>5. Nodes' = Nodes
  BY DEF Nodes
<1>6. Nodes \in Nat /\ NodeBlocks * Nodes \in Nat
  BY <1>1 DEF Nodes, NodeBlocks
<1>7. head' # "bare" => envblocks' = HeldBy(frames)' + NodeBlocks * Nodes'
  <2> DEFINE q == NodeBlocks * Nodes
  <2>1. q \in Nat /\ (head # "bare" => envblocks = HeldBy(frames) + q)
    BY <1>4, <1>6
  <2>2. head' # "bare" => envblocks' = HeldBy(frames)' + q
    <3> HIDE DEF q
    <3> QED BY <1>1, <2>1
  <2> QED BY <1>5, <2>2
<1>8. ShellCmdTypeOK'
  BY <1>1, <1>2, <1>3 DEF ShellCmdTypeOK
<1>9. ShellBounded'
  BY <1>7 DEF ShellBounded
<1> QED BY <1>3, <1>4, <1>8, <1>9 DEF ShellCmdInv

\* The top frame goes on, or calls.
LEMMA TopReplaced ==
    ASSUME ShellCmdInv, frames # <<>>, NEW x \in CmdFrame, frames' = Under \o <<x>>,
           x.fn = Top.fn, x.at # "entry", start_env' \in BOOLEAN,
           \/ start_env' = start_env /\ Top.at # "run"
           \/ start_env' = TRUE /\ Top.fn = "execute_env"
    PROVE  /\ frames' \in Seq(CmdFrame) /\ Len(frames') <= 4 /\ frames' # <<>>
           /\ Nested(frames', start_env')
           /\ HeldBy(frames') = HeldBy(frames) - Top.held + x.held
           /\ HeldBy(frames') \in Nat
<1>1. frames \in Seq(CmdFrame) /\ Len(frames) <= 4 /\ start_env \in BOOLEAN
  BY CmdTypes
<1>2. Top = frames[Len(frames)] /\ Len(frames) \in {1, 2, 3, 4}
  BY TopFacts
<1> DEFINE g == SubSeq(frames, 1, Len(frames) - 1) \o <<x>>
<1>3. /\ g \in Seq(CmdFrame) /\ Len(g) = Len(frames)
      /\ \A i \in 1 .. Len(frames) : g[i] = IF i = Len(frames) THEN x ELSE frames[i]
  BY <1>1, UnderFacts
<1>4. frames' = g
  BY DEF Under
<1> HIDE DEF g
<1>5. /\ \A i \in 1 .. (Len(frames) - 1) : g[i] = frames[i]
      /\ g[Len(frames)] = x /\ g # <<>> /\ Len(g) <= 4
  BY <1>1, <1>2, <1>3
<1>6. Nested(frames, start_env)
  BY DEF ShellCmdInv
<1>7. g[Len(frames)].fn = frames[Len(frames)].fn /\ g[Len(frames)].at # "entry"
  BY <1>2, <1>5
<1>10. ASSUME start_env' = start_env, Top.at # "run"
       PROVE  Nested(g, start_env')
  <2>1. frames[Len(frames)].at # "run"
    BY <1>2, <1>10
  <2>2. Nested(g, start_env)
    BY <1>1, <1>3, <1>5, <1>6, <1>7, <2>1, NestedReplace
  <2> QED BY <1>10, <2>2
<1>11. ASSUME start_env' = TRUE, Top.fn = "execute_env"
       PROVE  Nested(g, start_env')
  <2>1. frames[Len(frames)].fn = "execute_env"
    BY <1>2, <1>11
  <2>2. Nested(g, TRUE)
    BY <1>1, <1>3, <1>5, <1>6, <1>7, <2>1, NestedEnds
  <2> QED BY <1>11, <2>2
<1>12. Nested(g, start_env')
  BY <1>10, <1>11
<1>8. HeldBy(g) = HeldBy(frames) - Top.held + x.held
  BY <1>1, <1>2, <1>3, <1>5, HeldChange
<1>9. HeldBy(g) \in Nat
  BY <1>3, HeldIsNat
<1> QED BY <1>3, <1>4, <1>5, <1>8, <1>9, <1>12

LEMMA TopCalls ==
    ASSUME ShellCmdInv, frames # <<>>, NEW x \in CmdFrame, NEW f \in CmdFrame,
           frames' = Under \o <<x, f>>, x.fn = Top.fn, x.held = Top.held, f.held = 0,
           start_env' \in BOOLEAN,
           \/ /\ Top.fn = "execute_command" /\ x.at = "exit" /\ start_env' = start_env
              /\ f.fn \in Command \/ (f.fn = "execute_env" /\ start_env)
           \/ /\ Top.fn = "execute_env" /\ x.at = "run" /\ start_env' = FALSE
              /\ f.fn = "execute_command"
    PROVE  /\ frames' \in Seq(CmdFrame) /\ Len(frames') <= 4 /\ frames' # <<>>
           /\ Nested(frames', start_env')
           /\ HeldBy(frames') = HeldBy(frames)
<1>1. frames \in Seq(CmdFrame) /\ Len(frames) <= 4 /\ start_env \in BOOLEAN /\ HeldBy(frames) \in Nat
  BY CmdTypes
<1>2. Top = frames[Len(frames)] /\ Len(frames) \in {1, 2, 3, 4} /\ Top \in CmdFrame
  BY TopFacts
<1> DEFINE g == SubSeq(frames, 1, Len(frames) - 1) \o <<x, f>>
<1>3. /\ g \in Seq(CmdFrame) /\ Len(g) = Len(frames) + 1
      /\ \A i \in 1 .. (Len(frames) + 1) :
            g[i] = IF i = Len(frames) + 1 THEN f ELSE IF i = Len(frames) THEN x ELSE frames[i]
  BY <1>1, UnderFacts
<1>4. frames' = g
  BY DEF Under
<1> HIDE DEF g
<1>5. /\ \A i \in 1 .. (Len(frames) - 1) : g[i] = frames[i]
      /\ g[Len(frames)] = x /\ g[Len(frames) + 1] = f /\ g # <<>>
  BY <1>1, <1>2, <1>3
<1>6. Nested(frames, start_env)
  BY DEF ShellCmdInv
<1>8. g[Len(frames)].fn = frames[Len(frames)].fn /\ g[Len(frames) + 1].held = 0
  BY <1>2, <1>5
<1>7. ASSUME Top.fn = "execute_command", x.at = "exit", start_env' = start_env,
             f.fn \in Command \/ (f.fn = "execute_env" /\ start_env)
      PROVE  Nested(g, start_env') /\ Len(g) <= 4
  <2>1. /\ frames[Len(frames)].fn = "execute_command" /\ g[Len(frames)].at = "exit"
        /\ g[Len(frames) + 1].fn \in Command \/ (g[Len(frames) + 1].fn = "execute_env" /\ start_env)
    BY <1>2, <1>5, <1>7, Zenon
  <2>2. Nested(g, start_env) /\ Len(g) <= 4
    BY <1>1, <1>3, <1>5, <1>6, <1>8, <2>1, NestedCalls
  <2> QED BY <1>7, <2>2
<1>14. ASSUME Top.fn = "execute_env", x.at = "run", start_env' = FALSE,
              f.fn = "execute_command"
       PROVE  Nested(g, start_env') /\ Len(g) <= 4
  <2>1. /\ frames[Len(frames)].fn = "execute_env" /\ g[Len(frames)].at = "run"
        /\ g[Len(frames) + 1].fn = "execute_command"
    BY <1>2, <1>5, <1>14
  <2>2. Nested(g, FALSE) /\ Len(g) <= 4
    BY <1>1, <1>3, <1>5, <1>6, <1>8, <2>1, NestedRuns
  <2> QED BY <1>14, <2>2
<1>9. Nested(g, start_env') /\ Len(g) <= 4
  BY <1>7, <1>14
<1>10. Len(frames) < 4
  BY <1>2, <1>3, <1>9
<1>11. HeldBy(g) = HeldBy(frames) - Top.held + x.held
  BY <1>1, <1>2, <1>3, <1>5, <1>8, <1>10, HeldChange
<1>12. Top.held \in Nat
  BY <1>2, FrameFields
<1>13. HeldBy(g) = HeldBy(frames)
  BY <1>1, <1>11, <1>12
<1> QED BY <1>3, <1>4, <1>5, <1>9, <1>13, Zenon

\* A function ends its body: nothing is allocated or freed.
LEMMA BodyEnds ==
    ASSUME ShellCmdInv, NEW fn, At(fn, "body"), ShellGoto("exit"), UNCHANGED start_env
    PROVE  /\ frames' \in Seq(CmdFrame) /\ Len(frames') <= 4 /\ frames' # <<>>
           /\ Nested(frames', start_env')
           /\ HeldBy(frames') = HeldBy(frames) /\ HeldBy(frames') \in Nat
<1>1. frames # <<>> /\ Top.at = "body"
  BY AtTop
<1>2. Top \in CmdFrame
  BY <1>1, TopFacts
<1> DEFINE x == [Top EXCEPT !.at = "exit"]
<1>3. x \in CmdFrame /\ x.fn = Top.fn /\ x.held = Top.held /\ x.at = "exit"
  BY <1>2, FrameWaits DEF FrameSteps
<1>4. frames' = Under \o <<x>>
  BY DEF ShellGoto
<1> HIDE DEF x
<1>5. start_env' \in BOOLEAN /\ HeldBy(frames) \in Nat /\ Top.held \in Nat
  BY <1>2, CmdTypes, FrameFields
<1>6. start_env' = start_env /\ Top.at # "run" /\ x.at # "entry"
  BY <1>1, <1>3
<1>7. /\ frames' \in Seq(CmdFrame) /\ Len(frames') <= 4 /\ frames' # <<>>
      /\ Nested(frames', start_env')
      /\ HeldBy(frames') = HeldBy(frames) - Top.held + x.held
      /\ HeldBy(frames') \in Nat
  BY <1>1, <1>3, <1>4, <1>5, <1>6, TopReplaced
<1>8. HeldBy(frames') = HeldBy(frames)
  BY <1>3, <1>5, <1>7
<1> QED BY <1>7, <1>8

LEMMA ReturnKeeps ==
    ASSUME ShellCmdInv, ~ wild, NEW fn, At(fn, "body"), ShellGoto("exit"), guest' \in BOOLEAN,
           UNCHANGED <<envlist, env_init, start_env, envblocks, head, wild>>
    PROVE  ShellCmdInv'
<1>1. /\ frames' \in Seq(CmdFrame) /\ Len(frames') <= 4 /\ frames' # <<>>
      /\ Nested(frames', start_env')
      /\ HeldBy(frames') = HeldBy(frames) /\ HeldBy(frames') \in Nat
  BY BodyEnds
<1>2. start_env' \in BOOLEAN /\ wild' \in BOOLEAN /\ envblocks \in Nat /\ HeldBy(frames) \in Nat
  BY CmdTypes
<1>3. envblocks' = envblocks + HeldBy(frames') - HeldBy(frames)
  BY <1>1, <1>2
<1>4. frames' = <<>> => start_env'
  BY <1>1
<1> QED BY <1>1, <1>2, <1>3, <1>4, CallsKeep

\* A line is run when nothing is.
LEMMA EnterKeeps ==
    ASSUME ShellCmdInv, ~ wild, NEW l \in Lines, Enter(l)
    PROVE  ShellCmdInv'
<1> DEFINE f == Frame("execute_command", l, <<>>)
<1>1. frames = <<>> /\ frames' = <<f>>
      /\ UNCHANGED <<envlist, env_init, start_env, envblocks, guest, head, wild>>
  BY DEF Enter
<1>2. f \in CmdFrame /\ f.fn = "execute_command" /\ f.held = 0
  BY WordFacts DEF Frame, CmdFrame
<1> HIDE DEF f
<1>3. /\ frames' \in Seq(CmdFrame) /\ Len(frames') = 1 /\ frames'[1] = f
      /\ DOMAIN frames' = {1} /\ frames' # <<>>
  BY <1>1, <1>2
<1>4. /\ envblocks \in Nat /\ start_env' \in BOOLEAN /\ wild' \in BOOLEAN /\ guest' \in BOOLEAN
      /\ frames \in Seq(CmdFrame)
  BY <1>1, CmdTypes
<1>5. start_env
  BY <1>1 DEF ShellCmdInv, ShellBounded
<1>6. Nested(frames', start_env')
  BY <1>1, <1>2, <1>3, <1>5 DEF Nested
<1>7. HeldBy(frames') = 0
  BY <1>2, <1>3, HeldSums
<1>8. HeldBy(frames) = 0
  <2>1. \A fs \in Seq(CmdFrame) : fs = <<>> => HeldBy(fs) = 0
    BY HeldSums
  <2> QED BY <1>1, <1>4, <2>1
<1>9. envblocks' = envblocks + HeldBy(frames') - HeldBy(frames) /\ HeldBy(frames') \in Nat
  BY <1>1, <1>4, <1>7, <1>8
<1>10. Len(frames') <= 4 /\ (frames' = <<>> => start_env')
  BY <1>3
<1> QED BY <1>1, <1>3, <1>4, <1>6, <1>9, <1>10, CallsKeep

LEMMA AllocateKeeps ==
    ASSUME ShellCmdInv, ~ wild, NEW fn \in DOMAIN Needs, ShellAllocate(fn, Needs[fn])
    PROVE  ShellCmdInv'
<1> DEFINE n == Needs[fn]
<1>1. n \in Nat
  BY WordFacts
<1>2. /\ At(fn, "entry")
      /\ UNCHANGED <<envlist, env_init, start_env, guest, head, wild>>
  BY DEF ShellAllocate
<1>3. PICK k \in 0 .. n :
         /\ frames' = Under \o <<[Top EXCEPT !.held = k, !.at = IF k = n THEN "body" ELSE "exit"]>>
         /\ envblocks' = envblocks + k
  BY DEF ShellAllocate
<1>4. frames # <<>> /\ Top.at = "entry" /\ k \in Nat
  BY <1>1, <1>2, AtTop
<1>5. Top \in CmdFrame /\ Top = frames[Len(frames)] /\ Len(frames) \in {1, 2, 3, 4}
  BY <1>4, TopFacts
<1> DEFINE w == IF k = n THEN "body" ELSE "exit"
           x == [Top EXCEPT !.held = k, !.at = w]
<1>6. w \in FrameSteps /\ w # "entry"
  BY DEF FrameSteps
<1>7. frames' = Under \o <<x>>
  BY <1>3
<1> HIDE DEF w
<1>8. x \in CmdFrame /\ x.fn = Top.fn /\ x.held = k /\ x.at = w
  <2>1. \A f \in CmdFrame : \A h \in Nat : \A s \in FrameSteps :
           /\ [f EXCEPT !.held = h, !.at = s] \in CmdFrame
           /\ [f EXCEPT !.held = h, !.at = s].fn = f.fn
           /\ [f EXCEPT !.held = h, !.at = s].held = h
           /\ [f EXCEPT !.held = h, !.at = s].at = s
    BY FrameHoldsWaits
  <2>2. \A h \in Nat : \A s \in FrameSteps :
           /\ [Top EXCEPT !.held = h, !.at = s] \in CmdFrame
           /\ [Top EXCEPT !.held = h, !.at = s].fn = Top.fn
           /\ [Top EXCEPT !.held = h, !.at = s].held = h
           /\ [Top EXCEPT !.held = h, !.at = s].at = s
    BY <1>5, <2>1
  <2>3. \A s \in FrameSteps :
           /\ [Top EXCEPT !.held = k, !.at = s] \in CmdFrame
           /\ [Top EXCEPT !.held = k, !.at = s].fn = Top.fn
           /\ [Top EXCEPT !.held = k, !.at = s].held = k
           /\ [Top EXCEPT !.held = k, !.at = s].at = s
    BY <1>4, <2>2
  <2> QED BY <1>6, <2>3
<1> HIDE DEF x
<1>9. /\ start_env' \in BOOLEAN /\ wild' \in BOOLEAN /\ guest' \in BOOLEAN
      /\ envblocks \in Nat /\ HeldBy(frames) \in Nat /\ frames \in Seq(CmdFrame)
  BY <1>2, CmdTypes
<1>10. start_env' = start_env /\ Top.at # "run" /\ x.at # "entry"
  BY <1>2, <1>4, <1>6, <1>8
<1>11. /\ frames' \in Seq(CmdFrame) /\ Len(frames') <= 4 /\ frames' # <<>>
       /\ Nested(frames', start_env')
       /\ HeldBy(frames') = HeldBy(frames) - Top.held + x.held
       /\ HeldBy(frames') \in Nat
  BY <1>4, <1>7, <1>8, <1>9, <1>10, TopReplaced
<1>12. Top.held = 0
  <2>1. Len(frames) \in DOMAIN frames
    <3>1. DOMAIN frames = 1 .. Len(frames)
      BY <1>9, CallElements
    <3> QED BY <1>5, <3>1
  <2>2. Nested(frames, start_env)
    BY DEF ShellCmdInv
  <2> QED BY <1>4, <1>5, <2>1, <2>2 DEF Nested
<1>13. envblocks' = envblocks + HeldBy(frames') - HeldBy(frames)
  BY <1>3, <1>4, <1>8, <1>9, <1>11, <1>12
<1>14. frames' = <<>> => start_env'
  BY <1>11
<1> QED BY <1>2, <1>9, <1>11, <1>13, <1>14, CallsKeep

LEMMA ExitKeeps ==
    ASSUME ShellCmdInv, ~ wild, NEW fn, Exit(fn),
           UNCHANGED <<envlist, env_init, start_env, guest, head, wild>>
    PROVE  ShellCmdInv'
<1>1. At(fn, "exit") /\ frames' = Under /\ envblocks' = envblocks - Top.held
  BY DEF Exit
<1>2. frames # <<>> /\ Top.at = "exit"
  BY <1>1, AtTop
<1>3. Top \in CmdFrame /\ Top = frames[Len(frames)] /\ Len(frames) \in {1, 2, 3, 4}
  BY <1>2, TopFacts
<1>4. /\ start_env \in BOOLEAN /\ wild' \in BOOLEAN /\ guest' \in BOOLEAN
      /\ envblocks \in Nat /\ HeldBy(frames) \in Nat /\ frames \in Seq(CmdFrame) /\ Len(frames) <= 4
  BY CmdTypes
<1> DEFINE g == SubSeq(frames, 1, Len(frames) - 1)
<1>5. /\ g \in Seq(CmdFrame) /\ Len(g) = Len(frames) - 1
      /\ \A i \in 1 .. (Len(frames) - 1) : g[i] = frames[i]
  BY <1>2, <1>3, <1>4, UnderFacts
<1>6. frames' = g
  BY <1>1 DEF Under
<1> HIDE DEF g
<1>7. Nested(frames, start_env) /\ frames[Len(frames)].at = "exit"
  BY <1>2, <1>3 DEF ShellCmdInv
<1>8. Nested(g, start_env) /\ (g = <<>> => start_env)
  BY <1>2, <1>4, <1>5, <1>7, NestedPop
<1>9. HeldBy(g) = HeldBy(frames) - Top.held
  BY <1>2, <1>3, <1>4, <1>5, HeldChange
<1>10. Top.held \in Nat /\ HeldBy(g) \in Nat
  BY <1>3, <1>5, FrameFields, HeldIsNat
<1>11. envblocks' = envblocks + HeldBy(g) - HeldBy(frames)
  BY <1>1, <1>4, <1>9, <1>10
<1>12. Len(g) <= 4
  BY <1>3, <1>5
<1>13. Nested(frames', start_env') /\ (frames' = <<>> => start_env') /\ start_env' \in BOOLEAN
  BY <1>4, <1>6, <1>8
<1> QED BY <1>4, <1>5, <1>6, <1>10, <1>11, <1>12, <1>13, CallsKeep

LEMMA CommandKeeps ==
    ASSUME ShellCmdInv, ~ wild, execute_command
    PROVE  ShellCmdInv'
<1>1. /\ At("execute_command", "body")
      /\ UNCHANGED <<envlist, env_init, start_env, envblocks, guest, head>>
      /\ wild' \in BOOLEAN
  BY DEF execute_command
<1>2. frames # <<>> /\ Top.at = "body" /\ Top.fn = "execute_command"
  BY <1>1, AtTop
<1>3. Top \in CmdFrame
  BY <1>2, TopFacts
<1>4. /\ start_env' \in BOOLEAN /\ guest' \in BOOLEAN
      /\ envblocks \in Nat /\ HeldBy(frames) \in Nat
  BY <1>1, CmdTypes
<1>5. Top.line.op \in Command \cup {"word"} /\ Top.line \in Lines \cup EnvLine
  BY <1>3, FrameFields, LineFacts
<1> DEFINE x == [Top EXCEPT !.at = "exit"]
<1>6. x \in CmdFrame /\ x.fn = Top.fn /\ x.held = Top.held /\ x.at = "exit"
  BY <1>3, FrameWaits DEF FrameSteps
<1>7. ASSUME NEW fn \in DOMAIN Needs, CallFrom("exit", Frame(fn, Top.line, <<>>)),
             fn \in Command \/ (fn = "execute_env" /\ start_env),
             fn \in Command => Top.line.op = fn
      PROVE  ShellCmdInv'
  <2> DEFINE f == Frame(fn, Top.line, <<>>)
  <2>1. f \in CmdFrame /\ f.fn = fn /\ f.held = 0
    BY <1>5, <1>7 DEF Frame, CmdFrame
  <2>2. frames' = Under \o <<x, f>>
    BY <1>7 DEF CallFrom
  <2> HIDE DEF f, x
  <2>3. f.fn \in Command \/ (f.fn = "execute_env" /\ start_env)
    BY <1>7, <2>1
  <2>4. /\ frames' \in Seq(CmdFrame) /\ Len(frames') <= 4 /\ frames' # <<>>
        /\ Nested(frames', start_env')
        /\ HeldBy(frames') = HeldBy(frames)
    BY <1>1, <1>2, <1>4, <1>6, <2>1, <2>2, <2>3, TopCalls
  <2>5. envblocks' = envblocks + HeldBy(frames') - HeldBy(frames) /\ HeldBy(frames') \in Nat
    BY <1>1, <1>4, <2>4
  <2>6. frames' = <<>> => start_env'
    BY <2>4
  <2> QED BY <1>1, <1>4, <2>4, <2>5, <2>6, CallsKeep
<1>8. CASE Top.line.op # "word"
  <2>1. Top.line.op \in Command /\ Top.line.op \in DOMAIN Needs
    BY <1>5, <1>8, WordFacts
  <2>2. CallFrom("exit", Frame(Top.line.op, Top.line, <<>>))
    BY <1>8 DEF execute_command
  <2> QED BY <1>7, <2>1, <2>2
<1>9. CASE Top.line.op = "word" /\ start_env
  <2>1. CallFrom("exit", Frame("execute_env", Top.line, <<>>))
    BY <1>9 DEF execute_command
  <2>2. "execute_env" \in DOMAIN Needs /\ "execute_env" \notin Command
    BY WordFacts
  <2> QED BY <1>7, <1>9, <2>1, <2>2
<1>10. CASE Top.line.op = "word" /\ ~ start_env
  <2>1. ShellGoto("exit")
    BY <1>10 DEF execute_command
  <2>2. /\ frames' \in Seq(CmdFrame) /\ Len(frames') <= 4 /\ frames' # <<>>
        /\ Nested(frames', start_env')
        /\ HeldBy(frames') = HeldBy(frames) /\ HeldBy(frames') \in Nat
    BY <1>1, <2>1, BodyEnds
  <2>3. envblocks' = envblocks + HeldBy(frames') - HeldBy(frames)
    BY <1>1, <1>4, <2>2
  <2>4. frames' = <<>> => start_env'
    BY <2>2
  <2> QED BY <1>1, <1>4, <2>2, <2>3, <2>4, CallsKeep
<1> QED BY <1>8, <1>9, <1>10

\* The first node of a name.
LEMMA FirstNamed ==
    ASSUME NEW n, envlist \in Seq([name : EnvName, value : EnvValue]), Named(n) # {}
    PROVE  envlist[First(Named(n))].value \in EnvValue
<1>1. Named(n) \subseteq DOMAIN envlist /\ DOMAIN envlist = 1 .. Len(envlist) /\ Len(envlist) \in Nat
  BY CallElements DEF Named
<1>2. Named(n) \in SUBSET Nat
  BY <1>1
<1>3. \E k \in Named(n) : \A x \in Named(n) : k <= x
  BY <1>2, LeastNat
<1>4. First(Named(n)) \in Named(n)
  BY <1>3 DEF First
<1>5. First(Named(n)) \in 1 .. Len(envlist)
  BY <1>1, <1>4
<1>6. envlist[First(Named(n))] \in [name : EnvName, value : EnvValue]
  BY <1>5, CallElements
<1> QED BY <1>6

LEMMA EnvKeeps ==
    ASSUME ShellCmdInv, ~ wild, execute_env
    PROVE  ShellCmdInv'
<1> DEFINE S == Named(Top.line.arg[1])
           x == IF S = {} THEN [Top EXCEPT !.at = "exit"]
                ELSE [Top EXCEPT !.at = "run", !.todo = envlist[First(S)].value]
<1>1. /\ At("execute_env", "body") /\ frames' = Under \o <<x>>
      /\ UNCHANGED <<envlist, env_init, start_env, envblocks, guest, head, wild>>
  BY DEF execute_env
<1>2. frames # <<>> /\ Top.at = "body" /\ Top.fn = "execute_env"
  BY <1>1, AtTop
<1>3. Top \in CmdFrame
  BY <1>2, TopFacts
<1>4. /\ start_env' \in BOOLEAN /\ guest' \in BOOLEAN /\ wild' \in BOOLEAN
      /\ envblocks \in Nat /\ HeldBy(frames) \in Nat
      /\ envlist \in Seq([name : EnvName, value : EnvValue])
  BY <1>1, CmdTypes
<1>5. x \in CmdFrame /\ x.fn = Top.fn /\ x.held = Top.held /\ x.at # "entry"
  <2>1. CASE S = {}
    <3>1. LET y == [Top EXCEPT !.at = "exit"]
          IN y \in CmdFrame /\ y.fn = Top.fn /\ y.held = Top.held /\ y.at = "exit"
      BY <1>3, FrameWaits DEF FrameSteps
    <3> QED BY <2>1, <3>1
  <2>2. CASE S # {}
    <3> DEFINE v == envlist[First(S)].value
    <3>1. v \in EnvValue
      BY <1>4, <2>2, FirstNamed
    <3>2. v \in Seq(EnvLine)
      BY <3>1, ShellCmdAssumption
    <3>3. x = [Top EXCEPT !.at = "run", !.todo = v]
      BY <2>2
    <3> HIDE DEF v
    <3>4. LET y == [Top EXCEPT !.at = "run", !.todo = v]
          IN y \in CmdFrame /\ y.fn = Top.fn /\ y.held = Top.held /\ y.at = "run"
      BY <1>3, <3>2, FrameWaitsToDo DEF FrameSteps
    <3> HIDE DEF x
    <3> QED BY <3>3, <3>4
  <2> QED BY <2>1, <2>2
<1> HIDE DEF x
<1>6. start_env' = start_env /\ Top.at # "run"
  BY <1>1, <1>2
<1>7. /\ frames' \in Seq(CmdFrame) /\ Len(frames') <= 4 /\ frames' # <<>>
      /\ Nested(frames', start_env')
      /\ HeldBy(frames') = HeldBy(frames) - Top.held + x.held
      /\ HeldBy(frames') \in Nat
  BY <1>1, <1>2, <1>4, <1>5, <1>6, TopReplaced
<1>8. Top.held \in Nat
  BY <1>3, FrameFields
<1>9. envblocks' = envblocks + HeldBy(frames') - HeldBy(frames)
  BY <1>1, <1>4, <1>5, <1>7, <1>8
<1>10. frames' = <<>> => start_env'
  BY <1>7
<1> QED BY <1>1, <1>4, <1>7, <1>9, <1>10, CallsKeep

LEMMA RunKeeps ==
    ASSUME ShellCmdInv, ~ wild, execute_env_run
    PROVE  ShellCmdInv'
<1>1. /\ At("execute_env", "run")
      /\ UNCHANGED <<envlist, env_init, envblocks, guest, head, wild>>
  BY DEF execute_env_run
<1>2. frames # <<>> /\ Top.at = "run" /\ Top.fn = "execute_env"
  BY <1>1, AtTop
<1>3. Top \in CmdFrame /\ Top.todo \in Seq(EnvLine) /\ Top.held \in Nat
  BY <1>2, TopFacts, FrameFields
<1>4. /\ guest' \in BOOLEAN /\ wild' \in BOOLEAN
      /\ envblocks \in Nat /\ HeldBy(frames) \in Nat
  BY <1>1, CmdTypes
<1>5. CASE Top.todo = <<>>
  <2>1. ShellGoto("exit") /\ start_env' = TRUE
    BY <1>5 DEF execute_env_run
  <2> DEFINE x == [Top EXCEPT !.at = "exit"]
  <2>2. x \in CmdFrame /\ x.fn = Top.fn /\ x.held = Top.held /\ x.at = "exit"
    BY <1>3, FrameWaits DEF FrameSteps
  <2>3. frames' = Under \o <<x>>
    BY <2>1 DEF ShellGoto
  <2> HIDE DEF x
  <2>4. x.at # "entry" /\ start_env' \in BOOLEAN
    BY <2>1, <2>2
  <2>5. /\ frames' \in Seq(CmdFrame) /\ Len(frames') <= 4 /\ frames' # <<>>
        /\ Nested(frames', start_env')
        /\ HeldBy(frames') = HeldBy(frames) - Top.held + x.held
        /\ HeldBy(frames') \in Nat
    BY <1>2, <2>1, <2>2, <2>3, <2>4, TopReplaced
  <2>6. envblocks' = envblocks + HeldBy(frames') - HeldBy(frames)
    BY <1>1, <1>3, <1>4, <2>2, <2>5
  <2>7. frames' = <<>> => start_env'
    BY <2>1
  <2> QED BY <1>1, <1>4, <2>4, <2>5, <2>6, <2>7, CallsKeep
<1>6. CASE Top.todo # <<>>
  <2> DEFINE t == Tail(Top.todo)
             l == Head(Top.todo)
             x == [Top EXCEPT !.todo = t]
             f == Frame("execute_command", l, <<>>)
  <2>1. frames' = Under \o <<x, f>> /\ start_env' = FALSE
    BY <1>6 DEF execute_env_run
  <2>2. t \in Seq(EnvLine) /\ l \in EnvLine
    BY <1>3, <1>6, HeadTailFacts
  <2>3. x \in CmdFrame /\ x.fn = Top.fn /\ x.held = Top.held /\ x.at = Top.at
    <3> HIDE DEF t
    <3> QED BY <1>3, <2>2, FrameToDo
  <2>4. f \in CmdFrame /\ f.fn = "execute_command" /\ f.held = 0
    <3> HIDE DEF l
    <3> QED BY <2>2, WordFacts DEF Frame, CmdFrame
  <2> HIDE DEF x, f
  <2>5. x.at = "run" /\ start_env' \in BOOLEAN
    BY <1>2, <2>1, <2>3
  <2>6. /\ frames' \in Seq(CmdFrame) /\ Len(frames') <= 4 /\ frames' # <<>>
        /\ Nested(frames', start_env')
        /\ HeldBy(frames') = HeldBy(frames)
    BY <1>2, <2>1, <2>3, <2>4, <2>5, TopCalls
  <2>7. envblocks' = envblocks + HeldBy(frames') - HeldBy(frames) /\ HeldBy(frames') \in Nat
    BY <1>1, <1>4, <2>6
  <2>8. frames' = <<>> => start_env'
    BY <2>6
  <2> QED BY <1>1, <1>4, <2>5, <2>6, <2>7, <2>8, CallsKeep
<1> QED BY <1>5, <1>6

\* A variable is added: its node has three blocks.
LEMMA SetenvKeeps ==
    ASSUME ShellCmdInv, ~ wild, sw_setenv
    PROVE  ShellCmdInv'
<1>1. At("setenv", "body") /\ ShellGoto("exit") /\ UNCHANGED <<start_env, guest, head>>
  BY DEF sw_setenv
<1>2. frames # <<>> /\ Top.fn = "setenv"
  BY <1>1, AtTop
<1>3. Top \in CmdFrame /\ Top.line \in Lines \cup EnvLine
  BY <1>2, TopFacts, FrameFields
<1>4. /\ start_env' \in BOOLEAN /\ guest' \in BOOLEAN /\ env_init \in BOOLEAN
      /\ envblocks \in Nat /\ HeldBy(frames) \in Nat
      /\ envlist \in Seq([name : EnvName, value : EnvValue]) /\ head \in {"whole", "none", "bare"}
  BY <1>1, CmdTypes
<1>5. CASE UNCHANGED <<envlist, env_init, envblocks, wild>>
  BY <1>1, <1>4, <1>5, ReturnKeeps
<1>6. CASE ~ UNCHANGED <<envlist, env_init, envblocks, wild>>
  <2> DEFINE node == [name |-> Top.line.arg[1], value |-> Top.line.arg[2]]
  <2>1. Top.line.arg[1] # "wrong"
    BY <1>6 DEF sw_setenv
  <2>2. /\ frames' \in Seq(CmdFrame) /\ Len(frames') <= 4 /\ frames' # <<>>
        /\ Nested(frames', start_env')
        /\ HeldBy(frames') = HeldBy(frames) /\ HeldBy(frames') \in Nat
    BY <1>1, BodyEnds
  <2>3. /\ HeldBy(frames) <= envblocks /\ head \in DOMAIN Allocated
        /\ ~ env_init => envlist = <<>>
        /\ env_init => head # "none"
        /\ head # "bare" => envblocks = HeldBy(frames) + NodeBlocks * Nodes
    BY DEF ShellCmdInv, ShellCmdTypeOK, ShellBounded
  <2>4. ASSUME envlist' \in Seq([name : EnvName, value : EnvValue]),
               env_init' \in BOOLEAN, wild' \in BOOLEAN, envblocks' \in Nat,
               envblocks <= envblocks',
               ~ env_init' => envlist' = <<>>,
               env_init' => head # "none",
               ~ wild' /\ head # "bare" => envblocks' = HeldBy(frames) + NodeBlocks * Nodes'
        PROVE  ShellCmdInv'
    <3>1. ShellCmdTypeOK'
      BY <1>1, <1>4, <2>2, <2>3, <2>4 DEF ShellCmdTypeOK
    <3>2. ShellBounded'
      BY <1>1, <2>2, <2>4 DEF ShellBounded
    <3>3. HeldBy(frames') <= envblocks'
      BY <1>4, <2>2, <2>3, <2>4
    <3> QED BY <1>1, <2>2, <2>4, <3>1, <3>2, <3>3 DEF ShellCmdInv
  <2>5. node \in [name : EnvName, value : EnvValue]
    <3>1. Top.line.op = "setenv"
      BY <1>2, <1>3, FrameFields DEF Command
    <3>2. Top.line.arg[1] \in EnvName /\ Top.line.arg[2] \in EnvValue
      BY <1>3, <2>1, <3>1, LineFacts
    <3> QED BY <3>2
  <2>6. CASE ~ env_init
    <3>1. /\ envlist' = IF head = "none" THEN envlist ELSE <<node>>
          /\ env_init' = (head # "none") /\ wild' = (head = "bare")
          /\ envblocks' = envblocks
      BY <2>1, <2>6 DEF sw_setenv
    <3> HIDE DEF node
    <3>2. envlist = <<>> /\ (head = "none" => Nodes = 0) /\ (head = "whole" => Nodes = 1)
      BY <2>3, <2>6 DEF Nodes
    <3>3. /\ env_init' \in BOOLEAN /\ wild' \in BOOLEAN /\ envblocks' \in Nat /\ envblocks <= envblocks'
          /\ env_init' => head # "none"
      <4>1. env_init' \in BOOLEAN /\ wild' \in BOOLEAN
        BY <3>1
      <4>2. env_init' => head # "none"
        BY <3>1, Zenon
      <4>3. envblocks' \in Nat /\ envblocks <= envblocks'
        BY <1>4, <3>1
      <4> QED BY <4>1, <4>2, <4>3
    <3>4. CASE head = "none"
      <4>1. envlist' = <<>> /\ ~ env_init' /\ Nodes' = 0 /\ Nodes = 0
        BY <1>1, <3>1, <3>2, <3>4 DEF Nodes
      <4>2. head # "bare" => envblocks' = HeldBy(frames) + NodeBlocks * Nodes'
        BY <2>3, <3>1, <3>4, <4>1
      <4> QED BY <2>4, <3>3, <4>1, <4>2
    <3>5. CASE head = "bare"
      <4>1. wild' /\ envlist' = <<node>> /\ env_init'
        BY <3>1, <3>5
      <4>2. <<node>> \in Seq([name : EnvName, value : EnvValue])
        BY <2>5
      <4> QED BY <2>4, <3>3, <4>1, <4>2
    <3>6. CASE head = "whole"
      <4>1. envlist' = <<node>> /\ env_init' /\ Len(<<node>>) = 1
        BY <3>1, <3>6
      <4>2. <<node>> \in Seq([name : EnvName, value : EnvValue])
        BY <2>5
      <4>3. Nodes' = 1 /\ Nodes = 1
        BY <1>1, <3>2, <3>6, <4>1 DEF Nodes
      <4>4. head # "bare" => envblocks' = HeldBy(frames) + NodeBlocks * Nodes'
        BY <2>3, <3>1, <3>6, <4>3
      <4> QED BY <2>4, <3>3, <4>1, <4>2, <4>4
    <3> QED BY <1>4, <3>4, <3>5, <3>6
  <2>7. CASE env_init
    <3>1. PICK k \in DOMAIN Allocated, n \in 0 .. NodeBlocks :
             /\ n \in Allocated[k] /\ envblocks' = envblocks + n
             /\ envlist' = IF k = "none" THEN envlist ELSE Append(envlist, node)
             /\ wild' = (k = "bare") /\ env_init' = env_init
      BY <2>1, <2>7 DEF sw_setenv
    <3> HIDE DEF node
    <3>2. n \in Nat /\ (k = "none" => n = 0) /\ (k = "whole" => n = 3) /\ k \in {"whole", "none", "bare"}
      BY <3>1 DEF Allocated, NodeBlocks
    <3>3. /\ env_init' \in BOOLEAN /\ wild' \in BOOLEAN /\ envblocks' \in Nat /\ envblocks <= envblocks'
          /\ env_init' /\ head # "none"
      BY <1>4, <2>3, <2>7, <3>1, <3>2
    <3>4. /\ Append(envlist, node) \in Seq([name : EnvName, value : EnvValue])
          /\ Len(Append(envlist, node)) = Len(envlist) + 1 /\ Len(envlist) \in Nat
      BY <1>4, <2>5
    <3>5. envlist' \in Seq([name : EnvName, value : EnvValue])
      BY <1>4, <3>1, <3>4
    <3>6. Nodes = Len(envlist) /\ Nodes' = Len(envlist')
      BY <1>1, <2>7, <3>3 DEF Nodes
    <3>7. ASSUME ~ wild', head # "bare"
          PROVE  envblocks' = HeldBy(frames) + NodeBlocks * Nodes'
      <4>1. envblocks = HeldBy(frames) + 3 * Len(envlist)
        BY <2>3, <3>6, <3>7 DEF NodeBlocks
      <4>2. k = "none" \/ k = "whole"
        BY <3>1, <3>2, <3>7
      <4>3. CASE k = "none"
        BY <1>4, <3>1, <3>2, <3>6, <4>1, <4>3 DEF NodeBlocks
      <4>4. CASE k = "whole"
        <5>1. Nodes' = Len(envlist) + 1 /\ envblocks' = envblocks + 3
          BY <3>1, <3>2, <3>4, <3>6, <4>4
        <5>2. \A a, b \in Nat : a + 3 * b + 3 = a + 3 * (b + 1)
          OBVIOUS
        <5> QED BY <1>4, <3>4, <4>1, <5>1, <5>2 DEF NodeBlocks
      <4> QED BY <4>2, <4>3, <4>4
    <3> QED BY <2>4, <3>3, <3>5, <3>7
  <2> QED BY <2>6, <2>7
<1> QED BY <1>5, <1>6

LEMMA CmdInitially == ASSUME ShellCmdInit PROVE ShellCmdInv
<1>1. /\ envlist = <<>> /\ env_init = FALSE /\ start_env = TRUE
      /\ frames = <<>> /\ guest = FALSE /\ wild = FALSE
      /\ head \in DOMAIN Allocated /\ envblocks \in Allocated[head]
  BY DEF ShellCmdInit
<1>2. head \in {"whole", "none", "bare"} /\ envblocks \in Nat
      /\ (head = "whole" => envblocks = 3) /\ (head = "none" => envblocks = 0)
  BY <1>1 DEF Allocated, NodeBlocks
<1>3. HeldBy(frames) = 0 /\ frames \in Seq(CmdFrame)
  <2>1. \A fs \in Seq(CmdFrame) : fs = <<>> => HeldBy(fs) = 0
    BY HeldSums
  <2>2. frames \in Seq(CmdFrame)
    BY <1>1
  <2> QED BY <1>1, <2>1, <2>2
<1>4. Len(frames) = 0 /\ DOMAIN frames = {}
  BY <1>1
<1>5. Nested(frames, start_env)
  BY <1>1, <1>4 DEF Nested
<1>6. head # "bare" => envblocks = HeldBy(frames) + NodeBlocks * Nodes
  BY <1>1, <1>2, <1>3 DEF Nodes, NodeBlocks
<1>7. ShellCmdTypeOK
  <2>1. {env_init, start_env, guest, wild} \subseteq BOOLEAN
    BY <1>1
  <2>2. envlist \in Seq([name : EnvName, value : EnvValue])
    BY <1>1
  <2> QED BY <1>1, <1>2, <1>3, <2>1, <2>2 DEF ShellCmdTypeOK
<1>8. ShellBounded
  BY <1>1, <1>4, <1>6 DEF ShellBounded
<1>9. HeldBy(frames) <= envblocks
  BY <1>2, <1>3
<1>10. (~ env_init => envlist = <<>>) /\ (env_init => head # "none")
  BY <1>1
<1> QED BY <1>5, <1>7, <1>8, <1>9, <1>10 DEF ShellCmdInv

LEMMA CmdStepKeeps ==
    ASSUME ShellCmdInv, [ShellCmdNext]_cmdvars
    PROVE  ShellCmdInv'
<1>1. CASE UNCHANGED cmdvars
  BY <1>1 DEF cmdvars, ShellCmdInv, ShellCmdTypeOK, ShellBounded, Nested, HeldBy, HeldAt, Nodes
<1>2. CASE ShellCmdNext
  <2>1. ~ wild /\ ShellCmdStep
    BY <1>2 DEF ShellCmdNext
  <2>2. ASSUME NEW l \in Lines, Enter(l) PROVE ShellCmdInv'
    BY <2>1, <2>2, EnterKeeps
  <2>3. CASE execute_command
    BY <2>1, <2>3, CommandKeeps
  <2>4. CASE execute_env
    BY <2>1, <2>4, EnvKeeps
  <2>5. CASE execute_env_run
    BY <2>1, <2>5, RunKeeps
  <2>6. CASE sw_setenv
    BY <2>1, <2>6, SetenvKeeps
  <2>7. CASE start
    <3>1. /\ At("start", "body") /\ ShellGoto("exit") /\ guest' \in BOOLEAN
          /\ UNCHANGED <<envlist, env_init, start_env, envblocks, head, wild>>
      BY <2>7, CmdTypes DEF start
    <3> QED BY <2>1, <3>1, ReturnKeeps
  <2>8. CASE list
    <3>1. /\ At("list", "body") /\ ShellGoto("exit") /\ guest' \in BOOLEAN
          /\ UNCHANGED <<envlist, env_init, start_env, envblocks, head, wild>>
      BY <2>8, CmdTypes DEF list
    <3> QED BY <2>1, <3>1, ReturnKeeps
  <2>9. ASSUME NEW fn \in DOMAIN Needs, Prints(fn) PROVE ShellCmdInv'
    <3>1. /\ At(fn, "body") /\ ShellGoto("exit") /\ guest' \in BOOLEAN
          /\ UNCHANGED <<envlist, env_init, start_env, envblocks, head, wild>>
      BY <2>9, CmdTypes DEF Prints
    <3> QED BY <2>1, <3>1, ReturnKeeps
  <2>10. ASSUME NEW fn \in DOMAIN Needs, ShellAllocate(fn, Needs[fn]) PROVE ShellCmdInv'
    BY <2>1, <2>10, AllocateKeeps
  <2>11. ASSUME NEW fn \in DOMAIN Needs, Exit(fn),
                UNCHANGED <<envlist, env_init, start_env, guest, head, wild>>
         PROVE  ShellCmdInv'
    BY <2>1, <2>11, ExitKeeps
  <2> QED BY <2>1, <2>2, <2>3, <2>4, <2>5, <2>6, <2>7, <2>8, <2>9, <2>10, <2>11 DEF ShellCmdStep
<1> QED BY <1>1, <1>2

\* Which function of the shell has called which, what each holds, and the list
\* of variables agree (ShellCmdInv), for any variables, values and lines, and
\* whichever allocation fails.
THEOREM ShellCmdInvariant == ShellCmdSpec => []ShellCmdInv
<1>1. ShellCmdInit => ShellCmdInv
  BY CmdInitially
<1>2. ShellCmdInv /\ [ShellCmdNext]_cmdvars => ShellCmdInv'
  BY CmdStepKeeps
<1> QED BY <1>1, <1>2, PTL DEF ShellCmdSpec

\* execute_command and execute_env nest four deep at most, whatever variables
\* name, and every block they allocate is freed on every path.
THEOREM ShellCallsBounded == ShellCmdSpec => []ShellBounded
<1>1. ShellCmdInv => ShellBounded
  BY DEF ShellCmdInv
<1> QED BY <1>1, ShellCmdInvariant, PTL
==============================================================================
