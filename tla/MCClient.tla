------------------------------ MODULE MCClient ------------------------------
(* A TLC instance of the Linux side above the SMC calls: a behaviour is one   *)
(* of the driver's files, a client of otz_api, a sample program, a program of *)
(* the TEE client API or one invocation of it.                                *)
EXTENDS OtzFiles, OtzApps, TeeClient, TeeInvoke

CONSTANTS t1, t2, s1, s2, e1, m1, o1, o2

Threads2 == {t1, t2}
Symmetric == Permutations(Threads2)
OneService == {"echo"}
Sessions2 == {s1, s2}
Contexts1 == {e1}
Operations2 == {o1, o2}
OneBlock == {m1}

VARIABLE part

apivars == <<prog, line, avars>>
clientvars == <<part, fvars, apivars, tvars, ivars>>

\* A part that is not at work is in one fixed state.
ClientInit ==
    /\ part \in {"files", "api", "programs", "tee", "invoke"}
    /\ OtzFilesInit /\ OtzAppsInit /\ TeeClientInit /\ TeeInvokeInit
    /\ part # "programs" => prog = CHOOSE x \in DOMAIN Program : TRUE
    /\ part # "tee" => tprog = CHOOSE x \in DOMAIN TeeProgram : TRUE
    /\ part # "invoke" => par = [i \in 1 .. NParam |-> CHOOSE x \in ParamType : TRUE]

FilesPart == part = "files" /\ OtzFilesNext /\ UNCHANGED <<part, apivars, tvars, ivars>>
ApiPart == part = "api" /\ OtzApiNext /\ UNCHANGED <<part, prog, line, fvars, tvars, ivars>>
ProgramPart == part = "programs" /\ OtzAppsNext /\ UNCHANGED <<part, fvars, tvars, ivars>>
TeePart == part = "tee" /\ TeeClientNext /\ UNCHANGED <<part, fvars, apivars, ivars>>
InvokePart == part = "invoke" /\ TeeInvokeNext /\ UNCHANGED <<part, fvars, apivars, tvars>>

ClientNext == FilesPart \/ ApiPart \/ ProgramPart \/ TeePart \/ InvokePart

ClientSpec == ClientInit /\ [][ClientNext]_clientvars
----------------------------------------------------------------------------
\* No error path of a client program leaves what it opened: the programs of
\* the TEE client API keep its counts exact and its file closed when they may
\* (TeecCountsExact), and the sample programs of otz_api close the device
\* (AppCloses).
ProgramsClose == TeecCountsExact /\ (part = "programs" => AppCloses)
=============================================================================
