------------------------------ MODULE ShellCmd ------------------------------
(***************************************************************************)
(* The commands of the shell (core/shell_command_manager.c) and the list   *)
(* of environment variables it runs by name.                               *)
(*                                                                         *)
(* A command line is what its words say: [op, arg], or a word that is no   *)
(* command.  The value of a variable is the sequence of the lines between  *)
(* its semicolons.  Each function is a frame of a stack with the blocks it *)
(* allocated; any of them may fail to be had.                              *)
(***************************************************************************)
EXTENDS Naturals, Sequences, FiniteSets, Functions

CONSTANTS
    EnvName,  \* words that are no command
    EnvValue, \* values of variables: sequences of lines
    MaxEnv    \* bound: variables

\* The words that are commands, and the lines in the values of variables.
Command == {"help", "saveenv", "printenv", "ps", "list", "start", "setenv"}
EnvLine == UNION {Range(v) : v \in EnvValue}

ASSUME ShellCmdAssumption ==
    /\ MaxEnv \in Nat
    /\ EnvValue \subseteq Seq(EnvLine)
    /\ \A l \in EnvLine :
          /\ l.op \in Command \cup {"word"}
          /\ l.op = "setenv" /\ l.arg[1] # "wrong" => l.arg \in EnvName \X EnvValue

VARIABLES
    envlist,   \* the list: nodes [name, value]
    env_init,  \* the first node, allocated with the task, has been used
    start_env, \* of the first node: variables may be run
    frames,    \* the calls in progress, the innermost last
    envblocks,    \* blocks allocated
    guest,     \* guest_started
    head,      \* the first node: "whole", "none", or "bare" of its strings
    wild       \* history: a string or a node that was not allocated was used

cmdvars == <<envlist, env_init, start_env, frames, envblocks, guest, head, wild>>

\* setenv with name and value; the other commands with the right argument, or
\* with one that is missing, wrong or one too many.
Line(o, a) == [op |-> o, arg |-> a]
Lines ==
    {Line(o, <<a>>) : o \in {"help", "saveenv", "printenv", "ps", "list", "start"}, a \in {"right", "wrong"}}
    \cup {Line("setenv", <<"wrong">>)}
    \cup {Line("setenv", <<n, v>>) : n \in EnvName, v \in EnvValue}
    \cup {Line("word", <<n>>) : n \in EnvName}

NodeBlocks == 3

Frame(fn, l, todo) == [fn |-> fn, line |-> l, todo |-> todo, held |-> 0, at |-> "entry"]

\* shell_env_alloc: the node, then its two strings, of which a bare one has at
\* most one.
Allocated == [whole |-> {NodeBlocks}, bare |-> {1, 2}, none |-> {0}]

\* shell_process_task: the node of the list head, then "autoboot=start guest"
\* as if it was typed.
ShellCmdInit ==
    /\ envlist = <<>> /\ env_init = FALSE /\ start_env = TRUE
    /\ frames = <<>> /\ guest = FALSE /\ wild = FALSE
    /\ head \in DOMAIN Allocated /\ envblocks \in Allocated[head]

Top == frames[Len(frames)]
Under == SubSeq(frames, 1, Len(frames) - 1)
At(fn, at) == Len(frames) > 0 /\ Top.fn = fn /\ Top.at = at

\* sw_malloc of n blocks on entry; the ones that were had stay for the exit.
ShellAllocate(fn, n) ==
    /\ At(fn, "entry")
    /\ \E k \in 0 .. n :
          /\ frames' = Under \o <<[Top EXCEPT !.held = k, !.at = IF k = n THEN "body" ELSE "exit"]>>
          /\ envblocks' = envblocks + k
    /\ UNCHANGED <<envlist, env_init, start_env, guest, head, wild>>

\* The blocks are freed, and the caller goes on.
Exit(fn) ==
    /\ At(fn, "exit")
    /\ frames' = Under /\ envblocks' = envblocks - Top.held

ShellGoto(at) == frames' = Under \o <<[Top EXCEPT !.at = at]>>
CallFrom(at, f) == frames' = Under \o <<[Top EXCEPT !.at = at], f>>

----------------------------------------------------------------------------
\* A line from the editor, or the one the task starts with.
Enter(l) ==
    /\ frames = <<>>
    /\ frames' = <<Frame("execute_command", l, <<>>)>>
    /\ UNCHANGED <<envlist, env_init, start_env, envblocks, guest, head, wild>>

\* Commands by name; then a variable, unless a variable is being run.  A head
\* that is not there, has no strings or holds no variable yet is read.
execute_command ==
    /\ At("execute_command", "body")
    /\ IF Top.line.op # "word" THEN CallFrom("exit", Frame(Top.line.op, Top.line, <<>>))
       ELSE IF start_env THEN CallFrom("exit", Frame("execute_env", Top.line, <<>>))
       ELSE ShellGoto("exit")
    /\ wild' = (Top.line.op = "word" /\ ~ env_init)
    /\ UNCHANGED <<envlist, env_init, start_env, envblocks, guest, head>>

Named(n) == {k \in DOMAIN envlist : envlist[k].name = n}
First(S) == CHOOSE k \in S : \A x \in S : k <= x

\* The first node of that name.
execute_env ==
    /\ At("execute_env", "body")
    /\ LET S == Named(Top.line.arg[1]) IN
       frames' = Under \o <<IF S = {} THEN [Top EXCEPT !.at = "exit"]
                            ELSE [Top EXCEPT !.at = "run", !.todo = envlist[First(S)].value]>>
    /\ UNCHANGED <<envlist, env_init, start_env, envblocks, guest, head, wild>>

\* Defect: variables may be run while one is.
execute_env_run_open ==
    /\ At("execute_env", "run")
    /\ IF Top.todo = <<>> THEN ShellGoto("exit") /\ start_env' = TRUE
       ELSE /\ frames' = Under \o <<[Top EXCEPT !.todo = Tail(@)],
                                   Frame("execute_command", Head(Top.todo), <<>>)>>
            /\ UNCHANGED start_env
    /\ UNCHANGED <<envlist, env_init, envblocks, guest, head, wild>>

\* Its lines one after the other.
execute_env_run ==
    /\ At("execute_env", "run")
    /\ IF Top.todo = <<>> THEN ShellGoto("exit") /\ start_env' = TRUE
       ELSE /\ frames' = Under \o <<[Top EXCEPT !.todo = Tail(@)],
                                   Frame("execute_command", Head(Top.todo), <<>>)>>
            /\ start_env' = FALSE
    /\ UNCHANGED <<envlist, env_init, envblocks, guest, head, wild>>

\* The first setenv fills the node of the head, the others add one at the end;
\* a name that is there already is added again.
sw_setenv ==
    /\ At("setenv", "body") /\ ShellGoto("exit")
    /\ IF Top.line.arg[1] = "wrong" THEN UNCHANGED <<envlist, env_init, envblocks, wild>>
       ELSE LET node == [name |-> Top.line.arg[1], value |-> Top.line.arg[2]] IN
            IF ~ env_init
            THEN /\ envlist' = IF head = "none" THEN envlist ELSE <<node>>
                 /\ env_init' = (head # "none") /\ wild' = (head = "bare")
                 /\ UNCHANGED envblocks
            ELSE \E k \in DOMAIN Allocated, n \in 0 .. NodeBlocks :
                 /\ n \in Allocated[k] /\ envblocks' = envblocks + n
                 /\ Len(envlist) < MaxEnv
                 /\ envlist' = IF k = "none" THEN envlist ELSE Append(envlist, node)
                 /\ wild' = (k = "bare")
                 /\ UNCHANGED env_init
    /\ UNCHANGED <<start_env, guest, head>>

start ==
    /\ At("start", "body") /\ ShellGoto("exit")
    /\ guest' = (guest \/ Top.line.arg[1] = "right")
    /\ UNCHANGED <<envlist, env_init, start_env, envblocks, head, wild>>

list ==
    /\ At("list", "body") /\ ShellGoto("exit")
    /\ UNCHANGED <<envlist, env_init, start_env, envblocks, guest, head, wild>>

\* help, sw_saveenv, sw_printenv and ps only print.
Prints(op) ==
    /\ op \in {"help", "saveenv", "printenv", "ps"} /\ At(op, "body") /\ ShellGoto("exit")
    /\ UNCHANGED <<envlist, env_init, start_env, envblocks, guest, head, wild>>

Needs == [execute_command |-> 1, execute_env |-> 2, setenv |-> 2, list |-> 1, start |-> 1,
          help |-> 0, saveenv |-> 0, printenv |-> 0, ps |-> 0]

ShellCmdStep ==
    \/ \E l \in Lines : Enter(l)
    \/ execute_command \/ execute_env \/ execute_env_run \/ sw_setenv \/ start \/ list
    \/ \E fn \in DOMAIN Needs :
          \/ Prints(fn) \/ ShellAllocate(fn, Needs[fn])
          \/ Exit(fn) /\ UNCHANGED <<envlist, env_init, start_env, guest, head, wild>>

ShellCmdNext == ~ wild /\ ShellCmdStep

ShellCmdSpec == ShellCmdInit /\ [][ShellCmdNext]_cmdvars

----------------------------------------------------------------------------
HeldAt(fs, k) == IF k <= Len(fs) THEN fs[k].held ELSE 0
HeldBy(fs) == HeldAt(fs, 1) + HeldAt(fs, 2) + HeldAt(fs, 3) + HeldAt(fs, 4)

\* The nodes that were allocated: the first with the task.
Nodes == IF head = "none" THEN 0 ELSE IF env_init THEN Len(envlist) ELSE 1

\* Whatever runs whatever, the calls nest four deep, also when the value of a
\* variable names itself, and the blocks allocated are those of the calls in
\* progress and of the nodes of the list, as long as every node that was had
\* had its strings.
ShellBounded ==
    /\ Len(frames) <= 4
    /\ ~ wild /\ head # "bare" => envblocks = HeldBy(frames) + NodeBlocks * Nodes
    /\ frames = <<>> => start_env

----------------------------------------------------------------------------
(* What makes ShellBounded inductive.                                       *)

\* A command is called for a line that names it.
CmdFrame ==
    {f \in [fn : DOMAIN Needs, line : Lines \cup EnvLine, todo : Seq(EnvLine), held : Nat,
            at : {"entry", "body", "run", "exit"}] : f.fn \in Command => f.line.op = f.fn}

ShellCmdTypeOK ==
    /\ envlist \in Seq([name : EnvName, value : EnvValue])
    /\ {env_init, start_env, guest, wild} \subseteq BOOLEAN
    /\ frames \in Seq(CmdFrame) /\ envblocks \in Nat /\ head \in DOMAIN Allocated

\* Which function has called which, and where it waits: only a line that was
\* typed runs a variable, and variables are barred for as long as it does.
Nested(fs, may) ==
    /\ Len(fs) >= 1 => fs[1].fn = "execute_command"
    /\ Len(fs) >= 2 => fs[1].at = "exit" /\ fs[2].fn # "execute_command"
    /\ Len(fs) >= 3 => fs[3].fn = "execute_command" /\ ~ may
    /\ Len(fs) >= 4 => fs[3].at = "exit" /\ fs[4].fn \in Command
    /\ ~ may => Len(fs) >= 2 /\ fs[2].fn = "execute_env" /\ fs[2].at = "run"
    /\ \A k \in DOMAIN fs : fs[k].at = "entry" => fs[k].held = 0

ShellCmdInv ==
    /\ ShellCmdTypeOK /\ ShellBounded /\ Nested(frames, start_env)
    /\ HeldBy(frames) <= envblocks
    /\ ~ env_init => envlist = <<>>
    /\ env_init => head # "none"
=============================================================================
