------------------------------ MODULE Services ------------------------------
(***************************************************************************)
(* A command of Linux in the task of a service: process_otzapi maps the    *)
(* buffers, the handler of the command decodes its parameters (echo_task.c,*)
(* drm_task.c, crypto_task.c with task_control.c), and all is given back.  *)
(* The tasks preempt one another between any two calls, and the dispatcher *)
(* looks into a command with the same table of sections.                   *)
(***************************************************************************)
EXTENDS NsSections, Sequences, FiniteSets

CONSTANTS
    Worker,   \* the tasks of the services
    MaxStray, \* bound: nothing is abandoned in a section with that many stray references
    MaxRobbed \* bound: no command is received after more sections were robbed

None == "none"

ASSUME ServicesAssumption == IsFiniteSet(Worker) /\ None \notin NsSec /\ {MaxStray, MaxRobbed} \subseteq Nat

Role == {"cmd", "req", "res", "meta", "data"}

VARIABLES
    at,     \* where a task is: "idle", the buffer it maps next, "check",
            \* "malloc", "decode", "free", "out"
    have,   \* the section mapped for each buffer of the task
    full,   \* the buffers the command has: a subset of {"req", "res"}
    plan,   \* what is left of the handler
    blocks, \* work blocks the handler holds
    peek,   \* the section of the command the dispatcher looks into
    stray,  \* history: references whose user is gone
    robbed  \* history: the sections a reference of which was released by a
            \* handler that did not have it

svcvars == <<nsvars, at, have, full, plan, blocks, peek, stray, robbed>>

NoBuffers == [r \in Role |-> None]
NoPlan == [mallocs |-> 0, params |-> <<>>]

ServicesInit ==
    /\ NsInit
    /\ at = [t \in Worker |-> "idle"] /\ have = [t \in Worker |-> NoBuffers]
    /\ full = [t \in Worker |-> {}] /\ plan = [t \in Worker |-> NoPlan]
    /\ blocks = [t \in Worker |-> 0] /\ peek = None
    /\ stray = [s \in NsSec |-> 0] /\ robbed = {}

----------------------------------------------------------------------------
(* The handlers: the work blocks they allocate, the parameters they take   *)
(* from the request and from the response, the types each may have, and    *)
(* whether a length is refused.  A memory reference is unmapped after its  *)
(* use, except by the IPI command ("keep").                                *)

Type == {"uint32", "array", "memref"}
\* A secure reference has type "memref" too.
P(types, limit) == [types |-> types, limit |-> limit, keep |-> FALSE]
Buffer == {"array", "memref"}

If(c, s) == IF c THEN s ELSE <<>>
Simple(f, q, r) == [mallocs |-> 1, params |-> If("req" \in f, q) \o If("res" \in f, r)]

process_otz_echo_send_cmd(f) ==
    Simple(f, <<P({"uint32"}, FALSE), P({"array"}, FALSE)>>, <<P({"array"}, FALSE)>>)
process_otz_echo_send_cmd_shared_buf(f) ==
    Simple(f, <<P({"uint32"}, FALSE), P({"memref"}, FALSE)>>, <<P({"memref"}, FALSE)>>)
process_otz_echo_ipi_send_cmd(f) ==
    LET p == [P({"memref"}, FALSE) EXCEPT !.keep = TRUE] IN Simple(f, <<p>>, <<p>>)
process_otz_drm_send_cmd(f) ==
    Simple(f, <<P({"uint32"}, FALSE), P({"array"}, FALSE)>>, <<P({"array"}, FALSE)>>)
process_otz_drm_send_cmd_shared_buf(f) ==
    Simple(f, <<P({"uint32"}, FALSE), P({"memref"}, FALSE)>>, <<P({"memref"}, FALSE)>>)

\* Data, then result; lengths are limited by the work block and the result.
process_otz_crypto_digest_cmd == [mallocs |-> 1, params |-> <<P(Buffer, TRUE), P(Buffer, TRUE)>>]
\* Key, data, result.
process_otz_crypto_hmac_cmd ==
    [mallocs |-> 1, params |-> <<P(Buffer, TRUE), P(Buffer, TRUE), P(Buffer, TRUE)>>]
\* Direction and "is there an IV", the IV if so, key, data, result.
process_otz_crypto_cipher_cmd(iv) ==
    [mallocs |-> 3,
     params |-> <<P(Buffer, FALSE), P(Buffer, FALSE)>> \o If(iv, <<P(Buffer, TRUE)>>)
                \o <<P(Buffer, TRUE), P(Buffer, TRUE), P(Buffer, TRUE)>>]

\* What each service does with a command; those it does not know, and the
\* crypto commands without a buffer, return at once.
process_otz_echo_svc(f) ==
    {process_otz_echo_send_cmd(f), process_otz_echo_send_cmd_shared_buf(f),
     process_otz_echo_ipi_send_cmd(f), NoPlan}
process_otz_drm_svc(f) ==
    {process_otz_drm_send_cmd(f), process_otz_drm_send_cmd_shared_buf(f), NoPlan}
process_otz_crypto_svc(f) ==
    IF f # {"req", "res"} THEN {NoPlan}
    ELSE {process_otz_crypto_digest_cmd, process_otz_crypto_hmac_cmd, NoPlan}
         \cup {process_otz_crypto_cipher_cmd(iv) : iv \in BOOLEAN}

Handlers(f) == process_otz_echo_svc(f) \cup process_otz_drm_svc(f) \cup process_otz_crypto_svc(f)

----------------------------------------------------------------------------
(* Mapping, checking and giving back: process_otzapi.                      *)

Goto(t, l) == at' = [at EXCEPT ![t] = l]
Hold(t, r, s) == have' = [have EXCEPT ![t][r] = s]

\* The buffer mapped after this one; an empty request or response is not.
After(r, f) ==
    CASE r = "cmd" /\ "req" \in f -> "req"
      [] r \in {"cmd", "req"} /\ "res" \in f -> "res"
      [] r = "meta" -> "check"
      [] OTHER -> "meta"

\* Where the handler of a refused mapping starts to unmap.
Refused(r) == IF r = "cmd" THEN "idle" ELSE "out"

\* Bound: once a count was not allocated, or too many sections were robbed, the
\* requests in hand are followed to their end and no other is received.
Receive(t) ==
    /\ at[t] = "idle" /\ ~ noref /\ Cardinality(robbed) <= MaxRobbed
    /\ \E f \in SUBSET {"req", "res"} : full' = [full EXCEPT ![t] = f]
    /\ Goto(t, "cmd")
    /\ UNCHANGED <<nsvars, have, plan, blocks, peek, stray, robbed>>

MapNext(t) ==
    /\ at[t] \in {"cmd", "req", "res", "meta"}
    /\ \/ \E s \in NsSec : map_to_ns(s) /\ Hold(t, at[t], s) /\ Goto(t, After(at[t], full[t]))
       \/ Goto(t, Refused(at[t])) /\ UNCHANGED <<nsvars, have>>
    /\ UNCHANGED <<full, plan, blocks, peek, stray, robbed>>

\* Number of buffers the task t holds in a section.
HeldIn(t, s) == Cardinality({r \in Role : have[t][r] = s})

\* A command for another session returns at once, and its four buffers stay
\* mapped.
CheckSession(t) ==
    /\ at[t] = "check"
    /\ \/ \E h \in Handlers(full[t]) :
             plan' = [plan EXCEPT ![t] = h] /\ Goto(t, "malloc") /\ UNCHANGED <<have, stray>>
       \/ /\ \A s \in NsSec : stray[s] < MaxStray
          /\ stray' = [s \in NsSec |-> stray[s] + HeldIn(t, s)]
          /\ have' = [have EXCEPT ![t] = NoBuffers]
          /\ Goto(t, "idle") /\ UNCHANGED plan
    /\ UNCHANGED <<nsvars, full, blocks, peek, robbed>>

Malloc(t) ==
    /\ at[t] = "malloc"
    /\ \/ blocks[t] = plan[t].mallocs /\ Goto(t, "decode") /\ UNCHANGED blocks
       \/ blocks[t] < plan[t].mallocs /\ blocks' = [blocks EXCEPT ![t] = @ + 1] /\ UNCHANGED at
       \/ blocks[t] < plan[t].mallocs /\ Goto(t, "free") /\ UNCHANGED blocks
    /\ UNCHANGED <<nsvars, have, full, plan, peek, stray, robbed>>

\* decode_data of one parameter: only a memory reference is mapped; a secure one
\* (UseSecure) is not.  A type it does not know, or a mapping refused, ends the
\* command.
decode_data(t) ==
    /\ at[t] = "decode" /\ plan[t].params # <<>> /\ have[t].data = None
    /\ \/ /\ \E s \in NsSec : map_to_ns(s) /\ Hold(t, "data", s)
          /\ IF "memref" \in Head(plan[t].params).types THEN UNCHANGED at ELSE Goto(t, "free")
          /\ UNCHANGED plan
       \/ /\ \E ty \in Type \ {"memref"} :
                IF ty \in Head(plan[t].params).types THEN UNCHANGED at ELSE Goto(t, "free")
          /\ plan' = [plan EXCEPT ![t].params = Tail(@)]
          /\ UNCHANGED <<nsvars, have>>
       \/ Goto(t, "free") /\ UNCHANGED <<nsvars, have, plan>>
    /\ UNCHANGED <<full, blocks, peek, stray, robbed>>

\* The parameter has been copied; free_decoded_data if it was a reference.
\* A length that is refused, or a command that keeps it, leaves it mapped.
Use(t) ==
    /\ at[t] = "decode" /\ have[t].data # None
    /\ LET p == Head(plan[t].params) IN
       \/ ~ p.keep /\ unmap_from_ns(have[t].data) /\ UNCHANGED <<at, stray>>
       \/ /\ p.keep \/ p.limit
          /\ stray[have[t].data] < MaxStray
          /\ stray' = [stray EXCEPT ![have[t].data] = @ + 1]
          /\ IF p.limit THEN Goto(t, "free") ELSE UNCHANGED at
          /\ UNCHANGED nsvars
    /\ Hold(t, "data", None)
    /\ plan' = [plan EXCEPT ![t].params = Tail(@)]
    /\ UNCHANGED <<full, blocks, peek, robbed>>

\* decode_data gives a secure reference the type of a memory reference and maps
\* nothing; the handler, which does not look at "mapped", uses the address and
\* unmaps its section all the same: one that is mapped for others, or none.
UseSecure(t) ==
    /\ at[t] = "decode" /\ plan[t].params # <<>> /\ have[t].data = None
    /\ "memref" \in Head(plan[t].params).types
    /\ \/ /\ ~ Head(plan[t].params).keep
          /\ \E s \in NsSec :
                /\ unmap_from_ns(s)
                /\ robbed' = IF nsref[s] > 0 THEN robbed \cup {s} ELSE robbed
       \/ Head(plan[t].params).keep /\ UNCHANGED <<nsvars, robbed>>
    /\ plan' = [plan EXCEPT ![t].params = Tail(@)]
    /\ UNCHANGED <<at, have, full, blocks, peek, stray>>

Decoded(t) ==
    /\ at[t] = "decode" /\ plan[t].params = <<>> /\ have[t].data = None
    /\ Goto(t, "free")
    /\ UNCHANGED <<nsvars, have, full, plan, blocks, peek, stray, robbed>>

\* Defect: only the first work block is freed.
HandlerExit_one(t) ==
    /\ at[t] = "free"
    /\ have[t].data \in NsSec => stray[have[t].data] < MaxStray
    /\ stray' = IF have[t].data = None THEN stray ELSE [stray EXCEPT ![have[t].data] = @ + 1]
    /\ Hold(t, "data", None)
    /\ blocks' = [blocks EXCEPT ![t] = IF @ = 0 THEN 0 ELSE @ - 1]
    /\ plan' = [plan EXCEPT ![t] = NoPlan] /\ Goto(t, "out")
    /\ UNCHANGED <<nsvars, full, peek, robbed>>

\* The one way out of a handler: the blocks it has are freed; a reference of
\* the wrong type stays mapped.
HandlerExit(t) ==
    /\ at[t] = "free"
    /\ have[t].data \in NsSec => stray[have[t].data] < MaxStray
    /\ stray' = IF have[t].data = None THEN stray ELSE [stray EXCEPT ![have[t].data] = @ + 1]
    /\ Hold(t, "data", None)
    /\ blocks' = [blocks EXCEPT ![t] = 0]
    /\ plan' = [plan EXCEPT ![t] = NoPlan] /\ Goto(t, "out")
    /\ UNCHANGED <<nsvars, full, peek, robbed>>

\* handle_err2 and handle_err1: request, response, table of types, command.
LastMapped(t) ==
    IF have[t].req # None THEN "req" ELSE IF have[t].res # None THEN "res"
    ELSE IF have[t].meta # None THEN "meta" ELSE "cmd"

handle_err(t) ==
    /\ at[t] = "out"
    /\ IF have[t] = NoBuffers THEN Goto(t, "idle") /\ UNCHANGED <<nsvars, have>>
       ELSE /\ unmap_from_ns(have[t][LastMapped(t)]) /\ Hold(t, LastMapped(t), None)
            /\ UNCHANGED at
    /\ UNCHANGED <<full, plan, blocks, peek, stray, robbed>>

\* get_api_context: the dispatcher maps a command to see whom it is for.
get_api_context ==
    /\ IF peek = None THEN \E s \in NsSec : map_to_ns(s) /\ peek' = s
       ELSE unmap_from_ns(peek) /\ peek' = None
    /\ UNCHANGED <<at, have, full, plan, blocks, stray, robbed>>

ServicesNext ==
    \/ \E t \in Worker :
          \/ Receive(t) \/ MapNext(t) \/ CheckSession(t) \/ Malloc(t) \/ decode_data(t)
          \/ Use(t) \/ UseSecure(t) \/ Decoded(t) \/ HandlerExit(t) \/ handle_err(t)
    \/ get_api_context

ServicesSpec == ServicesInit /\ [][ServicesNext]_svcvars

----------------------------------------------------------------------------
Users(s) == {x \in Worker \X Role : have[x[1]][x[2]] = s}

RefCount(s) == stray[s] + Cardinality(Users(s)) + (IF peek = s THEN 1 ELSE 0)

\* What the list says of a section.
SectionCounted(s) ==
    /\ s \in nsent <=> nsref[s] > 0
    /\ nsref[s] <= RefCount(s)
    /\ s \notin robbed => nsref[s] = RefCount(s)

\* The references of a section are those of its users and the ones the code
\* abandons (a command for another session, a reference of the wrong type or
\* length, the IPI command), so that no task or dispatcher finds a buffer
\* unmapped under it, on every way out of every handler but one: the handler of
\* a command with a secure reference, which releases a reference of another
\* user.  From then on that section may have fewer, never more.  It holds unless
\* a reference could not be allocated.
ReferencesExact == ~ noref => \A s \in NsSec : SectionCounted(s)

\* A service that has answered keeps nothing: no work block, no buffer.
AnsweredClean == \A t \in Worker : at[t] = "idle" => blocks[t] = 0 /\ have[t] = NoBuffers

\* Both, for every way through the handlers.
ServicesExact == ReferencesExact /\ AnsweredClean

\* What makes both inductive: what a task holds at each place of its way
\* through a command.
SvcTypeOK ==
    /\ nsent \subseteq NsSec /\ nsref \in [NsSec -> Nat] /\ noref \in BOOLEAN
    /\ at \in [Worker -> {"idle", "cmd", "req", "res", "meta", "check", "malloc", "decode",
                          "free", "out"}]
    /\ have \in [Worker -> [Role -> NsSec \cup {None}]]
    /\ blocks \in [Worker -> Nat] /\ stray \in [NsSec -> Nat] /\ peek \in NsSec \cup {None}
    /\ robbed \subseteq NsSec

HeldOnTheWay ==
    \A t \in Worker :
        /\ at[t] \in {"idle", "cmd", "req", "res", "meta", "check", "out"}
              => blocks[t] = 0 /\ have[t].data = None
        /\ at[t] \in {"idle", "cmd"} => have[t] = NoBuffers
        /\ at[t] = "req" => have[t].req = None
        /\ at[t] \in {"req", "res"} => have[t].res = None
        /\ at[t] \in {"req", "res", "meta"} => have[t].meta = None

ServicesInv == SvcTypeOK /\ HeldOnTheWay /\ ReferencesExact
=============================================================================
