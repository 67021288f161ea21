------------------------------- MODULE OtzApi -------------------------------
(***************************************************************************)
(* The ARM TrustZone client API (otz_api/otz_api.c): device, sessions,     *)
(* operations and shared memory of one client, over the driver.  A call is *)
(* one action; its ioctls succeed or fail as the driver decides.  Calls    *)
(* that return an error before changing anything are left out.             *)
(***************************************************************************)
EXTENDS Integers, FiniteSets

CONSTANTS
    ASess, AOp, AMem,  \* the client's session, operation, memory structures
    ACtx               \* ids the driver gives encode contexts

NoId == -1

ASSUME ApiAssumption ==
    /\ IsFiniteSet(ASess) /\ IsFiniteSet(AOp) /\ IsFiniteSet(AMem)
    /\ NoId \notin ASess /\ NoId \notin ACtx

----------------------------------------------------------------------------
(* The structures of otz_api.h, by the fields the calls look at.           *)

OtzState == {"undefined", "invalid", "open", "closing", "encode", "performable", "running", "decode"}
OtzOperationType == {"open", "invoke", "close", "none"}

\* enc_dec holds the encode id and the errors of the two directions.
otz_operation_t ==
    [state : OtzState, type : OtzOperationType, ses : ASess \cup {NoId}, id : ACtx \cup {NoId},
     encErr : BOOLEAN, decErr : BOOLEAN, temps : 0 .. 1]
otz_session_t == [state : OtzState, ops : Int, mems : Int]
otz_device_t == [state : OtzState, sessions : Int]
otz_shared_mem_t == [state : OtzState, ses : ASess \cup {NoId}]

VARIABLES
    dev,     \* otz_device_t: ui_state, session_count
    ses,     \* otz_session_t: ui_state, operation_count, shared_mem_cnt
    op,      \* otz_operation_t: ui_state, type, session, encode_id, errors
    shm,     \* otz_shared_mem_t: ui_state, session
    drvSes,  \* sessions the driver has open
    drvCtx,  \* encode contexts the driver keeps for each session
    drvMem,  \* blocks in the shared memory list of each session
    stuck,   \* an operation was left RUNNING by a close that was refused
    odd      \* history: "unsent", an open operation was released without being
             \* performed; "reused", an open operation was prepared in a
             \* structure that still holds the encode id of an earlier invoke

avars == <<dev, ses, op, shm, drvSes, drvCtx, drvMem, stuck, odd>>

NoOp  == [state |-> "undefined", type |-> "none", ses |-> NoId, id |-> NoId,
          encErr |-> FALSE, decErr |-> FALSE, temps |-> 0]
NoSes == [state |-> "undefined", ops |-> 0, mems |-> 0]
NoShm == [state |-> "undefined", ses |-> NoId]

OtzApiInit ==
    /\ dev = [state |-> "undefined", sessions |-> 0]
    /\ ses = [s \in ASess |-> NoSes]
    /\ op = [o \in AOp |-> NoOp]
    /\ shm = [m \in AMem |-> NoShm]
    /\ drvSes = {}
    /\ drvCtx = [s \in ASess |-> {}]
    /\ drvMem = [s \in ASess |-> 0]
    /\ stuck = {} /\ odd = {}

FreshIds == ACtx \ UNION {drvCtx[s] : s \in ASess}

----------------------------------------------------------------------------
(* The device.                                                             *)

otz_device_open ==
    /\ dev.state = "undefined"
    /\ \/ dev' = [state |-> "open", sessions |-> 0]
       \/ dev' = [dev EXCEPT !.state = "invalid"]
    /\ UNCHANGED <<ses, op, shm, drvSes, drvCtx, drvMem, stuck, odd>>

\* Refused while session_count is not zero.  Closing the file closes what
\* the driver still has open.
otz_device_close ==
    /\ \/ dev.state = "invalid"
       \/ dev.state = "open" /\ dev.sessions = 0
    /\ dev' = [dev EXCEPT !.state = "undefined"]
    /\ drvSes' = {}
    /\ drvCtx' = [s \in ASess |-> {}]
    /\ drvMem' = [s \in ASess |-> 0]
    /\ UNCHANGED <<ses, op, shm, stuck, odd>>

----------------------------------------------------------------------------
(* Preparing operations: structures are UNDEFINED, as the header demands.  *)

\* session_count is left alone, and the encode id keeps its old value.
otz_operation_prepare_open(o, s) ==
    /\ dev.state = "open" /\ op[o].state = "undefined"
    /\ ses[s].state \in {"undefined", "invalid"} /\ ses[s].ops = 0
    /\ ses' = [ses EXCEPT ![s] = [state |-> "invalid", ops |-> 1, mems |-> 0]]
    /\ op' = [op EXCEPT ![o] = [@ EXCEPT !.state = "encode", !.type = "open",
                                         !.ses = s, !.temps = 0]]
    /\ odd' = IF op[o].id # NoId THEN odd \cup {"reused"} ELSE odd
    /\ UNCHANGED <<dev, shm, drvSes, drvCtx, drvMem, stuck>>

otz_operation_prepare_invoke(o, s) ==
    /\ ses[s].state = "open" /\ op[o].state = "undefined"
    /\ ses' = [ses EXCEPT ![s].ops = @ + 1]
    /\ op' = [op EXCEPT ![o] = [NoOp EXCEPT !.state = "encode", !.type = "invoke", !.ses = s]]
    /\ UNCHANGED <<dev, shm, drvSes, drvCtx, drvMem, stuck, odd>>

otz_operation_prepare_close(o, s) ==
    /\ ses[s].state = "open" /\ op[o].state = "undefined"
    /\ ses' = [ses EXCEPT ![s] = [@ EXCEPT !.state = "closing", !.ops = ses[s].ops + 1]]
    /\ op' = [op EXCEPT ![o] = [@ EXCEPT !.state = "performable", !.type = "close",
                                         !.ses = s, !.temps = 0]]
    /\ UNCHANGED <<dev, shm, drvSes, drvCtx, drvMem, stuck, odd>>

----------------------------------------------------------------------------
(* Encoding and decoding an invoke operation.                              *)

\* check_encode
CanEncode(o) == op[o].state = "encode" /\ op[o].type = "invoke" /\ ~op[o].encErr

\* The context the driver uses: the one the id names, or a new one; none for
\* a session it does not know.
DriverCtx(o) ==
    IF op[o].ses \notin drvSes THEN {}
    ELSE IF op[o].id \in drvCtx[op[o].ses] THEN {op[o].id} ELSE FreshIds

\* otz_encode_uint32, otz_encode_array, otz_encode_memory_reference.  When
\* the ioctl fails the new id is not stored, even if the driver made it.
otz_encode(o) ==
    /\ CanEncode(o)
    /\ LET s == op[o].ses IN
       \/ \E c \in DriverCtx(o) :
             /\ drvCtx' = [drvCtx EXCEPT ![s] = @ \cup {c}]
             /\ \/ op' = [op EXCEPT ![o].id = c]
                \/ op' = [op EXCEPT ![o].encErr = TRUE]
       \/ op' = [op EXCEPT ![o].encErr = TRUE] /\ UNCHANGED drvCtx
    /\ UNCHANGED <<dev, ses, shm, drvSes, drvMem, stuck, odd>>

\* A temporary block is mapped, registered and encoded; an error unmaps it
\* and takes it from the session again.  Bound: one block per operation.
otz_encode_array_space(o) ==
    /\ CanEncode(o) /\ op[o].temps = 0
    /\ LET s == op[o].ses IN
       \/ \E c \in DriverCtx(o) :
             /\ drvCtx' = [drvCtx EXCEPT ![s] = @ \cup {c}]
             /\ drvMem' = [drvMem EXCEPT ![s] = @ + 1]
             /\ op' = [op EXCEPT ![o] = [@ EXCEPT !.id = c, !.temps = 1]]
       \/ op' = [op EXCEPT ![o].encErr = TRUE] /\ UNCHANGED <<drvCtx, drvMem>>
    /\ UNCHANGED <<dev, ses, shm, drvSes, stuck, odd>>

\* otz_decode_uint32, otz_decode_array_space: the ioctl fails, and the
\* decoder with it.
otz_decode_fails(o) ==
    /\ op[o].state = "decode" /\ op[o].type = "invoke" /\ ~op[o].decErr
    /\ op' = [op EXCEPT ![o].decErr = TRUE]
    /\ UNCHANGED <<dev, ses, shm, drvSes, drvCtx, drvMem, stuck, odd>>

----------------------------------------------------------------------------
(* Performing operations.                                                  *)

\* An error before the service, or of the service.
PerformOpen(o) ==
    /\ op[o].state = "encode" /\ op[o].type = "open"
    /\ LET s == op[o].ses IN
       \/ op' = [op EXCEPT ![o].state = "invalid"] /\ UNCHANGED <<dev, ses, drvSes>>
       \/ /\ dev.state = "open"
          /\ op' = [op EXCEPT ![o].state = "decode"] /\ UNCHANGED <<dev, ses, drvSes>>
       \/ /\ dev.state = "open"
          /\ op' = [op EXCEPT ![o].state = "decode"]
          /\ ses' = [ses EXCEPT ![s].state = "open"]
          /\ dev' = [dev EXCEPT !.sessions = @ + 1]
          /\ drvSes' = drvSes \cup {s}
    /\ UNCHANGED <<shm, drvCtx, drvMem, stuck, odd>>

\* The state of the encoder is not looked at.  Without a context the driver
\* makes one, which the operation never learns of.
PerformInvoke(o) ==
    /\ op[o].state = "encode" /\ op[o].type = "invoke"
    /\ LET s == op[o].ses IN
       \/ op' = [op EXCEPT ![o].state = "invalid"] /\ UNCHANGED <<ses, drvCtx>>
       \/ \E c \in DriverCtx(o) :
             /\ op[o].id \in {NoId, c}
             /\ drvCtx' = [drvCtx EXCEPT ![s] = @ \cup {c}]
             /\ \/ op' = [op EXCEPT ![o].state = "invalid"] /\ UNCHANGED ses
                \/ op' = [op EXCEPT ![o].state = "decode"] /\ UNCHANGED ses
                \/ /\ op' = [op EXCEPT ![o].state = "decode"]
                   /\ ses' = [ses EXCEPT ![s].state = "open"]
    /\ UNCHANGED <<dev, shm, drvSes, drvMem, stuck, odd>>

\* Defect: the session is closed whatever is still attached to it.
PerformClose_any(o) ==
    /\ op[o].state = "performable"
    /\ LET s == op[o].ses IN
       /\ dev.state = "open"
       /\ dev' = [dev EXCEPT !.sessions = @ - 1]
       /\ ses' = [ses EXCEPT ![s].state = "undefined"]
       /\ drvSes' = drvSes \ {s}
       /\ drvCtx' = [drvCtx EXCEPT ![s] = {}]
       /\ drvMem' = [drvMem EXCEPT ![s] = 0]
    /\ op' = [op EXCEPT ![o].state = "invalid"]
    /\ UNCHANGED <<shm, stuck, odd>>

\* With other operations or shared memory left, the call returns and leaves
\* the operation RUNNING and the session CLOSING.
PerformClose(o) ==
    /\ op[o].state = "performable"
    /\ LET s == op[o].ses IN
       \/ /\ ses[s].ops = 1 /\ ses[s].mems = 0
          /\ \/ UNCHANGED <<dev, ses, drvSes, drvCtx, drvMem>>
             \/ /\ dev.state = "open"
                /\ dev' = [dev EXCEPT !.sessions = @ - 1]
                /\ ses' = [ses EXCEPT ![s].state = "undefined"]
                /\ drvSes' = drvSes \ {s}
                /\ drvCtx' = [drvCtx EXCEPT ![s] = {}]
                /\ drvMem' = [drvMem EXCEPT ![s] = 0]
          /\ op' = [op EXCEPT ![o].state = "invalid"]
          /\ UNCHANGED stuck
       \/ /\ ses[s].ops # 1 \/ ses[s].mems # 0
          /\ op' = [op EXCEPT ![o].state = "running"]
          /\ stuck' = stuck \cup {o}
          /\ UNCHANGED <<dev, ses, drvSes, drvCtx, drvMem>>
    /\ UNCHANGED <<shm, odd>>

\* The temporary blocks are freed; an unperformed open takes a session off
\* session_count that was never counted; only in state DECODE is the
\* context released, whatever id the operation holds.
otz_operation_release(o) ==
    /\ op[o].state \in {"encode", "performable", "decode", "invalid"}
    /\ LET s == op[o].ses
           unsent == op[o].state = "encode" /\ op[o].type = "open"
       IN  /\ ses' = [ses EXCEPT ![s] =
                        [@ EXCEPT !.ops = ses[s].ops - 1,
                                  !.state = IF unsent THEN "undefined"
                                            ELSE IF op[o].state = "performable" THEN "open"
                                            ELSE ses[s].state]]
           /\ dev' = IF unsent THEN [dev EXCEPT !.sessions = @ - 1] ELSE dev
           /\ odd' = IF unsent THEN odd \cup {"unsent"} ELSE odd
           /\ drvMem' = [drvMem EXCEPT ![s] = IF s \in drvSes THEN @ - op[o].temps ELSE @]
           /\ drvCtx' = [drvCtx EXCEPT ![s] =
                           IF op[o].state = "decode" THEN @ \ {op[o].id} ELSE @]
    /\ op' = [op EXCEPT ![o] = [@ EXCEPT !.state = "undefined", !.type = "none", !.ses = NoId]]
    /\ UNCHANGED <<shm, drvSes, stuck>>

----------------------------------------------------------------------------
(* Shared memory.                                                          *)

\* A failure leaves the mapping to the device file.
otz_shared_memory_allocate(s, m) ==
    /\ ses[s].state = "open" /\ shm[m].state # "open"
    /\ \/ /\ s \in drvSes
          /\ shm' = [shm EXCEPT ![m] = [state |-> "open", ses |-> s]]
          /\ ses' = [ses EXCEPT ![s].mems = @ + 1]
          /\ drvMem' = [drvMem EXCEPT ![s] = @ + 1]
       \/ shm' = [shm EXCEPT ![m] = [state |-> "invalid", ses |-> NoId]] /\ UNCHANGED <<ses, drvMem>>
    /\ UNCHANGED <<dev, op, drvSes, drvCtx, stuck, odd>>

\* The driver refuses a session it does not know; the block then stays.
otz_shared_memory_release(m) ==
    /\ shm[m].state = "open"
    /\ LET s == shm[m].ses IN
       /\ s \in drvSes
       /\ shm' = [shm EXCEPT ![m] = NoShm]
       /\ ses' = [ses EXCEPT ![s].mems = @ - 1]
       /\ drvMem' = [drvMem EXCEPT ![s] = @ - 1]
    /\ UNCHANGED <<dev, op, drvSes, drvCtx, stuck, odd>>

\* Bound: the client is followed until it leaves the usual paths (odd).
OtzApiNext ==
    /\ odd = {}
    /\ \/ otz_device_open \/ otz_device_close
       \/ \E o \in AOp :
             \/ \E s \in ASess : \/ otz_operation_prepare_open(o, s)
                                 \/ otz_operation_prepare_invoke(o, s)
                                 \/ otz_operation_prepare_close(o, s)
             \/ otz_encode(o) \/ otz_encode_array_space(o) \/ otz_decode_fails(o)
             \/ PerformOpen(o) \/ PerformInvoke(o) \/ PerformClose(o)
             \/ otz_operation_release(o)
       \/ \E m \in AMem : \/ \E s \in ASess : otz_shared_memory_allocate(s, m)
                          \/ otz_shared_memory_release(m)

OtzApiSpec == OtzApiInit /\ [][OtzApiNext]_avars
----------------------------------------------------------------------------
\* The client's structures, and what the driver keeps for them.
ApiTypeOK ==
    /\ dev \in otz_device_t
    /\ ses \in [ASess -> otz_session_t]
    /\ op \in [AOp -> otz_operation_t]
    /\ shm \in [AMem -> otz_shared_mem_t]
    /\ drvSes \in SUBSET ASess
    /\ drvCtx \in [ASess -> SUBSET ACtx]
    /\ drvMem \in [ASess -> Int]
    /\ stuck \in SUBSET AOp /\ odd \in SUBSET {"unsent", "reused"}

Attached(s) == {o \in AOp : op[o].ses = s}

\* The counts that decide whether a session and the device may be closed are
\* exact, through every error: a session counts the operations and blocks
\* attached to it, and the device the sessions the driver has open, until an
\* open operation is released without having been performed.
CountsExact ==
    /\ \A s \in ASess :
          /\ ses[s].ops = Cardinality(Attached(s))
          /\ ses[s].mems = Cardinality({m \in AMem : shm[m].state = "open" /\ shm[m].ses = s})
    /\ "unsent" \notin odd /\ dev.state = "open" => dev.sessions = Cardinality(drvSes)

\* The context an invoke operation encodes into, sends and decodes from is
\* one the driver still keeps for its session, and is no other operation's:
\* neither a close nor the release of another operation takes it away.  (An
\* open operation in a reused structure does, when it is released.)
ContextAlive ==
    \A o \in AOp :
        op[o].type = "invoke" /\ op[o].id # NoId /\ odd = {} =>
            /\ op[o].id \in drvCtx[op[o].ses]
            /\ \A p \in AOp \ {o} : op[p].type = "invoke" => op[p].id # op[o].id

\* Through every sequence of calls the counts of otz_api are exact and the
\* contexts of operations alive.
ApiExact == CountsExact /\ ContextAlive

----------------------------------------------------------------------------
(* What makes ApiExact inductive.                                           *)

\* The driver has a session open exactly while the client's structure says
\* so, and has none without the device.
SessionsAgree ==
    /\ \A s \in ASess : s \in drvSes <=> ses[s].state \in {"open", "closing"}
    /\ dev.state # "open" => drvSes = {}

\* An operation is attached to a session from its preparation to its release;
\* one that invokes, or can close, has its session open, one that will open a
\* session has it alone.
OperationsAttached ==
    /\ \A o \in AOp :
          /\ op[o].state = "undefined" <=> op[o].ses = NoId
          /\ op[o].state = "undefined" <=> op[o].type = "none"
          /\ op[o].type = "invoke" => op[o].ses \in drvSes
          /\ op[o].state = "performable" => op[o].type = "close" /\ op[o].ses \in drvSes
          /\ op[o].state = "decode" => op[o].type # "close"
          /\ op[o].type = "open" /\ op[o].state = "encode" => ses[op[o].ses].state = "invalid"
          /\ op[o].type = "open" /\ odd = {} => op[o].id = NoId
    /\ \A o, p \in AOp :
          op[o].type = "open" /\ op[o].state = "encode" /\ op[p].ses = op[o].ses => p = o

\* Shared memory is that of a session the driver has open.
BlocksAttached == \A m \in AMem : shm[m].state = "open" => shm[m].ses \in drvSes

ApiInv == ApiTypeOK /\ CountsExact /\ ContextAlive /\ SessionsAgree /\ OperationsAttached /\ BlocksAttached
=============================================================================
