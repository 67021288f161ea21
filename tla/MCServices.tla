----------------------------- MODULE MCServices -----------------------------
(* A TLC instance of the services, the shell and the devices they use: a      *)
(* behaviour is one of the handlers of requests, a client of the crypto API,  *)
(* the verification programs, the device files, the shell's line, its         *)
(* commands, the interrupts or the big numbers.                               *)
EXTENDS TLC, Services, TeeCrypto, CryptoVerify, SwDevices, ShellLine, ShellCmd, Gic,
        BigNum

CONSTANTS n1, w1, w2

Sections1 == {n1}
Workers2 == {w1, w2}

\* The tasks of the services are alike.
WorkerSymmetry == Permutations(Workers2)

Grants == [t \in DevTask |-> IF t = "a" THEN {"uart", "fb"} ELSE {"uart"}]

\* Variables that run one another, start the guest, and set one another.
Word(n) == [op |-> "word", arg |-> <<n>>]
Values == {<<Word("x")>>,
           <<[op |-> "start", arg |-> <<"right">>], Word("y")>>,
           <<[op |-> "setenv", arg |-> <<"x", <<Word("x")>>>>]>>}

\* Numbers of two words of three bits: the small ones, and those around words
\* of all ones.
Numbers == (0 .. 15) \cup {23, 24, 31, 32, 40, 47, 48, 55, 56, 62, 63}

VARIABLE part

partvars ==
    <<part, svcvars, cvars, verifyvars, devvars, linevars, cmdvars, gicvars, bigvars>>

\* A part that is not at work is in one fixed state.
PartsInit ==
    /\ part \in {"handlers", "crypto", "verify", "devices", "line", "commands", "interrupts",
                "numbers"}
    /\ ServicesInit /\ TeeCryptoInit /\ CryptoVerifyInit /\ DevInit /\ LineInit /\ ShellCmdInit
    /\ GicInit /\ BigInit
    /\ part # "devices" => dev_list = <<"uart">>
    /\ part # "commands" => head = "none"

HandlersPart ==
    /\ part = "handlers" /\ ServicesNext
    /\ UNCHANGED <<part, cvars, verifyvars, devvars, linevars, cmdvars, gicvars, bigvars>>

CryptoPart ==
    /\ part = "crypto" /\ TeeCryptoNext
    /\ UNCHANGED <<part, svcvars, verifyvars, devvars, linevars, cmdvars, gicvars, bigvars>>

VerifyPart ==
    /\ part = "verify" /\ CryptoVerifyNext
    /\ UNCHANGED <<part, svcvars, cvars, devvars, linevars, cmdvars, gicvars, bigvars>>

DevicesPart ==
    /\ part = "devices" /\ DevNext
    /\ UNCHANGED <<part, svcvars, cvars, verifyvars, linevars, cmdvars, gicvars, bigvars>>

LinePart ==
    /\ part = "line" /\ LineNext
    /\ UNCHANGED <<part, svcvars, cvars, verifyvars, devvars, cmdvars, gicvars, bigvars>>

CommandsPart ==
    /\ part = "commands" /\ ShellCmdNext
    /\ UNCHANGED <<part, svcvars, cvars, verifyvars, devvars, linevars, gicvars, bigvars>>

InterruptsPart ==
    /\ part = "interrupts" /\ GicNext
    /\ UNCHANGED <<part, svcvars, cvars, verifyvars, devvars, linevars, cmdvars, bigvars>>

NumbersPart ==
    /\ part = "numbers" /\ BigNext
    /\ UNCHANGED <<part, svcvars, cvars, verifyvars, devvars, linevars, cmdvars, gicvars>>

PartsNext ==
    \/ HandlersPart \/ CryptoPart \/ VerifyPart \/ DevicesPart \/ LinePart \/ CommandsPart
    \/ InterruptsPart \/ NumbersPart

PartsSpec == PartsInit /\ [][PartsNext]_partvars
=============================================================================
