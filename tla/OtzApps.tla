------------------------------- MODULE OtzApps -------------------------------
(***************************************************************************)
(* The sample clients of the ARM API (ns_client_apps/otzapp.c,             *)
(* otz_test_app.c), composed with the API itself: a program is a sequence  *)
(* of calls of OtzApi, each with the line it goes to when the call fails.  *)
(***************************************************************************)
EXTENDS OtzApi, Sequences

CONSTANTS TheOp, TheSes, TheMem   \* the programs have one structure of each

ASSUME OneOfEach == TheOp \in AOp /\ TheSes \in ASess /\ TheMem \in AMem

VARIABLES prog, line   \* the program that runs and its next line

appvars == <<prog, line, avars>>

\* One call, and the line a failure goes to; line 0 is the end of the program.
To(call, fail) == [call |-> call, fail |-> fail]

----------------------------------------------------------------------------
(* The programs.                                                           *)

\* A failed open goes to the line that closes the device.
OpenPart(end) ==
    <<To("device_open", 0), To("prepare_open", end), To("perform_open", end), To("release", 0)>>

\* A close that fails, or is refused, is marked INVALID and released all the
\* same, and the device closed.
ClosePart ==
    <<To("set_undefined", 0), To("prepare_close", 0), To("perform_close", 0),
      To("set_invalid", 0), To("release", 0), To("device_close", 0)>>

\* Echo by copy, echo in shared memory, echo in array space.  An error (line
\* 33) closes the session, at line 27, without freeing the shared block.
perform_echo ==
    OpenPart(32)
    \o <<To("prepare_invoke", 27), To("encode", 33), To("encode", 33), To("encode", 33),
         To("perform_invoke", 33), To("decode", 0), To("release", 0),
         To("shm_allocate", 27),
         To("prepare_invoke", 27), To("encode", 33), To("encode", 33), To("encode", 33),
         To("perform_invoke", 33), To("decode", 0), To("release", 0),
         To("prepare_invoke", 27), To("encode", 33), To("array_space", 33),
         To("perform_invoke", 33), To("decode", 0), To("release", 0), To("shm_release", 0)>>
    \o ClosePart
    \o <<To("release_goto", 27)>>

\* Defect: an error goes to handle_error_2 and skips the release.
perform_crypto_noRelease ==
    OpenPart(16)
    \o <<To("prepare_invoke", 11), To("encode", 11), To("encode", 11),
         To("perform_invoke", 11), To("decode", 0), To("release", 0)>>
    \o ClosePart

\* One digest, MAC or cipher: handle_error_1 is line 10, handle_error_2 line
\* 11, end_func line 16.  Two encode calls stand for the two to six made.
perform_crypto ==
    OpenPart(16)
    \o <<To("prepare_invoke", 11), To("encode", 10), To("encode", 10),
         To("perform_invoke", 10), To("decode", 0), To("release", 0)>>
    \o ClosePart

test_notification ==
    OpenPart(17)
    \o <<To("prepare_invoke", 12), To("encode", 11), To("encode", 11), To("encode", 11),
         To("perform_invoke", 11), To("decode", 0), To("release", 0)>>
    \o ClosePart

Program == [perform_echo |-> perform_echo, perform_crypto |-> perform_crypto,
            test_notification |-> test_notification]

----------------------------------------------------------------------------
Step == Program[prog][line]

\* The next line if the call went well, the line it names if not.
Goes(ok) == line' = IF ok THEN line + 1 ELSE Step.fail

OtzAppsInit == OtzApiInit /\ prog \in DOMAIN Program /\ line = 1

\* A failed open: the session is UNDEFINED again, the operation released.
FailedOpen ==
    /\ ses' = [ses EXCEPT ![TheSes] = NoSes]
    /\ op' = [op EXCEPT ![TheOp] = NoOp]
    /\ UNCHANGED <<dev, shm, drvSes, drvCtx, drvMem, stuck, odd>>

\* The programs write ui_state themselves: UNDEFINED before they prepare the
\* close, INVALID after a failed one, which leaves it RUNNING or INVALID.
SetState(state) ==
    /\ op' = [op EXCEPT ![TheOp].state = state]
    /\ UNCHANGED <<dev, ses, shm, drvSes, drvCtx, drvMem, stuck, odd>>

DeviceCalls ==
    \/ Step.call = "device_open" /\ otz_device_open /\ Goes(dev'.state = "open")
    \/ Step.call = "device_close" /\ otz_device_close /\ line' = 0
    \/ Step.call = "device_close" /\ dev.sessions # 0 /\ UNCHANGED avars /\ line' = 0

SessionCalls ==
    \/ Step.call = "prepare_open" /\ otz_operation_prepare_open(TheOp, TheSes) /\ Goes(TRUE)
    \/ Step.call = "perform_open" /\ PerformOpen(TheOp) /\ ses'[TheSes].state = "open" /\ Goes(TRUE)
    \/ Step.call = "perform_open" /\ FailedOpen /\ Goes(FALSE)
    \/ Step.call = "prepare_close" /\ otz_operation_prepare_close(TheOp, TheSes) /\ Goes(TRUE)
    \/ Step.call = "perform_close" /\ PerformClose(TheOp) /\ Goes(TRUE)
    \/ Step.call = "set_undefined" /\ SetState("undefined") /\ Goes(TRUE)
    \/ Step.call = "set_invalid" /\ SetState("invalid") /\ Goes(TRUE)

\* A service error and a success of an invoke leave the same state.  The
\* error of a decoder is not looked at: the programs test the encoder's.
OperationCalls ==
    \/ Step.call = "prepare_invoke" /\ otz_operation_prepare_invoke(TheOp, TheSes) /\ Goes(TRUE)
    \/ Step.call = "encode" /\ otz_encode(TheOp) /\ Goes(~op'[TheOp].encErr)
    \/ Step.call = "array_space" /\ otz_encode_array_space(TheOp) /\ Goes(~op'[TheOp].encErr)
    \/ Step.call = "perform_invoke" /\ PerformInvoke(TheOp)
       /\ (Goes(FALSE) \/ (op'[TheOp].state = "decode" /\ Goes(TRUE)))
    \/ Step.call = "decode" /\ (otz_decode_fails(TheOp) \/ UNCHANGED avars) /\ Goes(TRUE)
    \/ Step.call = "release" /\ otz_operation_release(TheOp) /\ Goes(TRUE)
    \/ Step.call = "release_goto" /\ otz_operation_release(TheOp) /\ Goes(FALSE)

MemoryCalls ==
    \/ /\ Step.call = "shm_allocate"
       /\ otz_shared_memory_allocate(TheSes, TheMem) /\ Goes(shm'[TheMem].state = "open")
    \/ Step.call = "shm_release" /\ otz_shared_memory_release(TheMem) /\ Goes(TRUE)

OtzAppsNext ==
    /\ line # 0 /\ UNCHANGED prog
    /\ DeviceCalls \/ SessionCalls \/ OperationCalls \/ MemoryCalls

OtzAppsSpec == OtzAppsInit /\ [][OtzAppsNext]_appvars
----------------------------------------------------------------------------
\* A program leaves the device open only when the service refused the close,
\* or when it leaves its shared block behind: no error path forgets an
\* operation, which would make the API refuse the close.
AppCloses ==
    /\ stuck # {} => shm[TheMem].state = "open"
    /\ line = 0 /\ dev.state = "open" /\ shm[TheMem].state # "open" => TheSes \in drvSes
=============================================================================
