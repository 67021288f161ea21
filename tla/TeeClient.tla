------------------------------ MODULE TeeClient ------------------------------
(***************************************************************************)
(* The GlobalPlatform client API (otz_api/otz_tee_api.c): contexts,        *)
(* sessions and shared memory of one client, driven by the sample programs *)
(* (otz_tee_app.c, otz_user_app.c, otz_gettan_app.c).  What an invocation  *)
(* does is in TeeInvoke; here it succeeds or fails.                        *)
(***************************************************************************)
EXTENDS Integers, FiniteSets, Sequences

CONSTANT TMem      \* TEEC_SharedMemory structures, by number

VARIABLES
    tctx,   \* TEEC_Context: is the file open, session_count, shared_mem_cnt
    tses,   \* is the session open in the driver
    tblk,   \* blocks: "raw" (uninitialised), "listed" in the context, "released"
    tprog, tline,  \* the program and its next line; line 0 is its end
    misused        \* history: blocks released while they were "raw"

tvars == <<tctx, tses, tblk, tprog, tline, misused>>

\* The structures of otz_tee_client_api.h, by the fields the calls look at.
\* What a session keeps is its place in the driver: it is open or not.
TEEC_Context == [fd : BOOLEAN, sessions : Int, mems : Int]
TEEC_Session == BOOLEAN
TEEC_SharedMemory == {"raw", "listed", "released"}

Do(call, m, fail) == [call |-> call, m |-> m, fail |-> fail]

----------------------------------------------------------------------------
(* The programs.                                                           *)

\* An invoke that fails goes to cleanup_7 (line 12), which releases three
\* blocks that the first invokes come before the allocation of.
otz_tee_app ==
    <<Do("Initialize", 0, 0), Do("Open", 0, 17), Do("Register", 1, 16),
      Do("Invoke", 0, 12), Do("Allocate", 2, 15), Do("Invoke", 0, 12), Do("Invoke", 0, 12),
      Do("Allocate", 3, 14), Do("Allocate", 4, 13), Do("Invoke", 0, 12), Do("Invoke", 0, 12),
      Do("Release", 4, 0), Do("Release", 3, 0), Do("Release", 2, 0), Do("Release", 1, 0),
      Do("Close", 0, 0), Do("Finalize", 0, 0)>>

\* The result of the allocation is not tested: without a buffer the copy
\* into it ends the program.
test_otz_mutex ==
    <<Do("Initialize", 0, 0), Do("Open", 0, 7), Do("Allocate", 1, 0), Do("Invoke", 0, 5),
      Do("Release", 1, 0), Do("Close", 0, 0), Do("Finalize", 0, 0)>>

test_shm ==
    <<Do("Initialize", 0, 0), Do("Open", 0, 5), Do("Invoke", 0, 4),
      Do("Close", 0, 0), Do("Finalize", 0, 0)>>

\* After a successful invoke the program returns with everything open.
otz_gettan_app ==
    <<Do("Initialize", 0, 0), Do("Open", 0, 6), Do("Invoke", 0, 5), Do("Return", 0, 0),
      Do("Close", 0, 0), Do("Finalize", 0, 0)>>

TeeProgram == [otz_tee_app |-> otz_tee_app, test_otz_mutex |-> test_otz_mutex,
               test_shm |-> test_shm, otz_gettan_app |-> otz_gettan_app]

TStep == TeeProgram[tprog][tline]
TNext(ok) ==
    LET n == IF ok THEN tline + 1 ELSE TStep.fail
    IN  tline' = IF n > Len(TeeProgram[tprog]) THEN 0 ELSE n

TeeClientInit ==
    /\ tctx = [fd |-> FALSE, sessions |-> 0, mems |-> 0]
    /\ tses = FALSE
    /\ tblk = [m \in TMem |-> "raw"]
    /\ tprog \in DOMAIN TeeProgram /\ tline = 1
    /\ misused = {}

----------------------------------------------------------------------------
TEEC_InitializeContext ==
    /\ TStep.call = "Initialize"
    /\ \/ TNext(TRUE) /\ tctx' = [fd |-> TRUE, sessions |-> 0, mems |-> 0]
       \/ TNext(FALSE) /\ UNCHANGED tctx
    /\ UNCHANGED <<tses, tblk, misused>>

\* The file is closed, and with it what the driver keeps for it, only when
\* both counts are zero.
TEEC_FinalizeContext ==
    /\ TStep.call = "Finalize" /\ TNext(TRUE)
    /\ tctx' = IF tctx.sessions = 0 /\ tctx.mems = 0 THEN [tctx EXCEPT !.fd = FALSE] ELSE tctx
    /\ UNCHANGED <<tses, tblk, misused>>

Listed(m) == tblk' = [tblk EXCEPT ![m] = "listed"] /\ tctx' = [tctx EXCEPT !.mems = @ + 1]

TEEC_AllocateSharedMemory ==
    /\ TStep.call = "Allocate"
    /\ \/ TNext(TRUE) /\ Listed(TStep.m)
       \/ TNext(FALSE) /\ UNCHANGED <<tctx, tblk>>
    /\ UNCHANGED <<tses, misused>>

\* The programs register well-formed blocks only: the call does not fail.
TEEC_RegisterSharedMemory ==
    /\ TStep.call = "Register" /\ TNext(TRUE) /\ Listed(TStep.m)
    /\ UNCHANGED <<tses, misused>>

\* A block that is not in its context's list is not counted off.  Of an
\* uninitialised structure only the history is kept.
TEEC_ReleaseSharedMemory ==
    /\ TStep.call = "Release" /\ TNext(TRUE)
    /\ IF tblk[TStep.m] = "listed"
       THEN /\ tblk' = [tblk EXCEPT ![TStep.m] = "released"]
            /\ tctx' = [tctx EXCEPT !.mems = @ - 1]
            /\ UNCHANGED misused
       ELSE misused' = misused \cup {TStep.m} /\ UNCHANGED <<tblk, tctx>>
    /\ UNCHANGED tses

TEEC_OpenSession ==
    /\ TStep.call = "Open"
    /\ \/ /\ TNext(TRUE) /\ tses' = TRUE
          /\ tctx' = [tctx EXCEPT !.sessions = @ + 1]
       \/ TNext(FALSE) /\ UNCHANGED <<tses, tctx>>
    /\ UNCHANGED <<tblk, misused>>

\* A close the driver refuses leaves the session and its count.
TEEC_CloseSession ==
    /\ TStep.call = "Close" /\ TNext(TRUE)
    /\ \/ tses' = FALSE /\ tctx' = [tctx EXCEPT !.sessions = @ - 1]
       \/ UNCHANGED <<tses, tctx>>
    /\ UNCHANGED <<tblk, misused>>

\* operation_cnt is back at its old value when the call returns.
Invoked ==
    /\ TStep.call = "Invoke" /\ (TNext(TRUE) \/ TNext(FALSE))
    /\ UNCHANGED <<tctx, tses, tblk, misused>>

Returned ==
    /\ TStep.call = "Return" /\ TNext(FALSE)
    /\ UNCHANGED <<tctx, tses, tblk, misused>>

TeeClientNext ==
    /\ tline # 0 /\ UNCHANGED tprog
    /\ \/ TEEC_InitializeContext \/ TEEC_FinalizeContext
       \/ TEEC_AllocateSharedMemory \/ TEEC_RegisterSharedMemory \/ TEEC_ReleaseSharedMemory
       \/ TEEC_OpenSession \/ TEEC_CloseSession \/ Invoked \/ Returned

TeeClientSpec == TeeClientInit /\ [][TeeClientNext]_tvars
----------------------------------------------------------------------------
\* The client's structures, and the program that uses them.
TeeClientTypeOK ==
    /\ tctx \in TEEC_Context /\ tses \in TEEC_Session
    /\ tblk \in [TMem -> TEEC_SharedMemory]
    /\ tprog \in DOMAIN TeeProgram /\ tline \in 0 .. Len(TeeProgram[tprog])
    /\ misused \in SUBSET TMem

\* Through every error path of the programs, the counts that decide whether
\* TEEC_FinalizeContext closes the file are those of the sessions and blocks
\* that exist, the file stays open while there is any, and a program that
\* closed its session and released no block before it was initialised leaves
\* the file closed.
TeecCountsExact ==
    /\ tctx.sessions = (IF tses THEN 1 ELSE 0)
    /\ tctx.mems = Cardinality({m \in TMem : tblk[m] = "listed"})
    /\ tses \/ tctx.mems > 0 => tctx.fd
    /\ tline = 0 /\ ~tses /\ misused = {} => ~tctx.fd
=============================================================================
