------------------------------ MODULE TeeInvoke ------------------------------
(***************************************************************************)
(* One TEEC_InvokeCommand, through the three parties that walk over its    *)
(* parameter streams: the client library and the driver's encoders         *)
(* (otz_tee_api.c, otz_client_main.c), the service's decoder in the secure *)
(* world (task_control.c), and the driver's decoders.  Buffers are counted *)
(* in words; a parameter's data is the name of the parameter.              *)
(***************************************************************************)
EXTENDS Integers, Sequences, FiniteSets

CONSTANTS
    NParam,      \* parameters of an invocation (4 in the code)
    MemLen,      \* words of a buffer parameter
    OTZ_MAX_REQ_PARAMS, OTZ_MAX_RES_PARAMS,   \* 12 and 4
    BufWords     \* OTZ_1K_SIZE in words

ASSUME InvokeBounds == {NParam, MemLen, OTZ_MAX_REQ_PARAMS, OTZ_MAX_RES_PARAMS, BufWords} \subseteq Nat

\* Parameter types: values with or without a field b; memory references, to
\* an allocated block ("memref") or to registered or temporary memory, which
\* is copied ("array"); and those the library rejects (no buffer, direction
\* against the block's flags, range past its end).
Dir == {"in", "out", "inout"}
TEEC_Value == [kind : {"value"}, dir : Dir, b : BOOLEAN]
TEEC_TempMemoryReference == [kind : {"array"}, dir : Dir]
TEEC_RegisteredMemoryReference == [kind : {"memref", "array"}, dir : Dir]
TEEC_Parameter == TEEC_Value \cup TEEC_TempMemoryReference \cup TEEC_RegisteredMemoryReference
ParamType == TEEC_Parameter \cup {[kind |-> "none"], [kind |-> "rejected"]}

\* The parameters of an operation, with their types.
TEEC_Operation == [1 .. NParam -> ParamType]

VARIABLES
    par,    \* the parameters
    phase,  \* "encode", "send", "decode", "release", "done"
    todo,   \* items still to be encoded, or decoded
    ectx,   \* the driver's encode context, if it exists
    known,  \* whether the library has its id
    iret,   \* the value the call will return: "ok", "api", "service"
    served, \* what the service read for each request item
    got     \* what the client has for each response item

ivars == <<par, phase, todo, ectx, known, iret, served, got>>

----------------------------------------------------------------------------
(* The items of an invocation: one ioctl each.                             *)

SidesOf(dir) == [in |-> <<"req">>, out |-> <<"res">>, inout |-> <<"req", "res">>][dir]

Item(k, f, side, type, len) == [who |-> <<k, f>>, side |-> side, type |-> type, len |-> len]

ItemsFor(k, dir, f, type, len) ==
    [i \in 1..Len(SidesOf(dir)) |-> Item(k, f, SidesOf(dir)[i], type, len)]

\* The encode loop of TEEC_InvokeCommand: a then b; the input before the
\* output of the same parameter.
ItemsOf(k) ==
    LET p == par[k] IN
    CASE p.kind = "none" -> <<>>
      [] p.kind = "rejected" -> <<Item(k, "m", "req", "rejected", 0)>>
      [] p.kind = "value" -> ItemsFor(k, p.dir, "a", "uint32", 1)
                             \o (IF p.b THEN ItemsFor(k, p.dir, "b", "uint32", 1) ELSE <<>>)
      [] OTHER -> ItemsFor(k, p.dir, "m", p.kind, MemLen)

Concat[k \in 0..NParam] == IF k = 0 THEN <<>> ELSE Concat[k - 1] \o ItemsOf(k)
Items == Concat[NParam]
Side(s) == SelectSeq(Items, LAMBDA it : it.side = s)

\* Words a parameter takes of its stream.  A memory reference takes one, but
\* it is stored at, and read from, the word whose index is the byte offset.
Words(it) == IF it.type = "array" THEN it.len ELSE 1
PlaceOf(it, off) ==
    CASE it.type = "memref" -> {4 * off}
      [] it.type = "array" -> off .. (off + it.len - 1)
      [] OTHER -> {off}

EmptyBuf == [w \in 0 .. (4 * BufWords) |-> <<0, "none">>]
Put(buf, places, x) == [w \in DOMAIN buf |-> IF w \in places THEN x ELSE buf[w]]

NoEctx == [meta |-> [req |-> <<>>, res |-> <<>>], off |-> [req |-> 0, res |-> 0],
           buf |-> [req |-> EmptyBuf, res |-> EmptyBuf], dpos |-> 0, doff |-> 0]

TeeInvokeInit ==
    /\ par \in TEEC_Operation
    /\ phase = "encode" /\ todo = Items
    /\ ectx = {} /\ known = FALSE /\ iret = "ok"
    /\ served = <<>> /\ got = <<>>

----------------------------------------------------------------------------
(* Encoding.                                                               *)

Context == IF ectx = {} THEN NoEctx ELSE CHOOSE c \in ectx : TRUE
MaxParams == [req |-> OTZ_MAX_REQ_PARAMS, res |-> OTZ_MAX_RES_PARAMS]

\* Space in the 1K buffer and in the table of parameters.
Fits(c, it) ==
    /\ c.off[it.side] + Words(it) <= BufWords
    /\ Len(c.meta[it.side]) < MaxParams[it.side]

\* What the encoder stores: nothing for a value or an array that is output.
Stored(c, it) ==
    IF it.side = "res" /\ it.type # "memref" THEN c.buf[it.side]
    ELSE Put(c.buf[it.side], PlaceOf(it, c.off[it.side]), it.who)

Appended(c, it) ==
    [c EXCEPT !.buf[it.side] = Stored(c, it),
              !.off[it.side] = @ + Words(it),
              !.meta[it.side] = Append(@, [type |-> it.type, len |-> it.len, usr |-> it.who, ret |-> 0])]

EncodeFails == iret' = "api" /\ phase' = "release"

\* otz_client_encode_uint32, _encode_array, _encode_mem_ref.  The context is
\* made by the first; it stays, and its id is returned, when the parameter
\* then fails (no memory for the buffer, no space, data not readable).
otz_client_encode ==
    /\ phase = "encode" /\ todo # <<>> /\ Head(todo).type # "rejected"
    /\ todo' = Tail(todo)
    /\ \/ /\ Fits(Context, Head(todo))
          /\ ectx' = {Appended(Context, Head(todo))} /\ known' = TRUE
          /\ UNCHANGED <<iret, phase>>
       \/ ectx' = {Context} /\ known' = TRUE /\ EncodeFails     \* no space, no memory
       \/ ectx' = {Context} /\ EncodeFails /\ UNCHANGED known   \* id not copied back
       \/ ectx = {} /\ EncodeFails /\ UNCHANGED <<ectx, known>> \* no context
    /\ UNCHANGED <<par, served, got>>

Rejected ==
    /\ phase = "encode" /\ todo # <<>> /\ Head(todo).type = "rejected"
    /\ EncodeFails /\ todo' = Tail(todo)
    /\ UNCHANGED <<par, ectx, known, served, got>>

Encoded ==
    /\ phase = "encode" /\ todo = <<>>
    /\ phase' = "send"
    /\ UNCHANGED <<par, todo, ectx, known, iret, served, got>>

----------------------------------------------------------------------------
(* The service: it decodes the streams with decode_data, parameter after   *)
(* parameter, and sets the length of what it returns.                      *)

\* Offset of the i-th parameter of a stream, as decode_data advances it.
RECURSIVE OffsetIn(_, _)
OffsetIn(meta, i) == IF i = 1 THEN 0 ELSE OffsetIn(meta, i - 1) + Words(meta[i - 1])

\* What decode_data gives for the i-th parameter of a stream.
Seen(c, side, i) ==
    LET at == PlaceOf(c.meta[side][i], OffsetIn(c.meta[side], i))
    IN  {c.buf[side][w] : w \in at \cap (0 .. (BufWords - 1))}

\* It writes its answers in order, and update_response_len records how many
\* words there are.  Of a memory reference only the reference matters here.
AnswerTo(who) == <<who[1] + NParam, who[2]>>
RECURSIVE Answered(_, _, _)
Answered(c, i, ret) ==
    IF i > Len(c.meta.res) THEN c
    ELSE LET m == c.meta.res[i]
             at == PlaceOf(m, OffsetIn(c.meta.res, i))
             c1 == [c EXCEPT !.meta.res[i].ret = ret[m.type],
                             !.buf.res = IF m.type = "memref" THEN @ ELSE Put(@, at, AnswerTo(m.usr))]
         IN  Answered(c1, i + 1, ret)

\* Lengths a service may return: all of the buffer, or more than there is.
Lengths == {[uint32 |-> 1, array |-> n, memref |-> n] : n \in {MemLen, MemLen + 1}}

\* Without parameters the driver makes the context now; its id reaches the
\* library only if the command succeeds.
otz_client_send_cmd_api ==
    /\ phase = "send"
    /\ \/ \E ret \in Lengths :
             /\ ectx' = {Answered(Context, 1, ret)}
             /\ served' = [i \in 1..Len(Context.meta.req) |-> Seen(Context, "req", i)]
             /\ known' = TRUE /\ phase' = "decode" /\ todo' = Side("res")
             /\ UNCHANGED iret
       \/ /\ ectx' = {Context} /\ iret' = "service" /\ phase' = "release"
          /\ UNCHANGED <<served, known, todo>>
    /\ UNCHANGED <<par, got>>

----------------------------------------------------------------------------
(* Decoding.                                                               *)

\* Defect: the offset moves by the length returned, not by the length encoded.
otz_client_decode_array_space_short(c) ==
    LET m == c.meta.res[c.dpos + 1]
    IN  [ok  |-> m.ret <= m.len,
         val |-> IF m.type = "array" THEN c.buf.res[c.doff] ELSE m.usr,
         ctx |-> [c EXCEPT !.dpos = @ + 1, !.doff = @ + (IF m.type = "array" THEN 0 ELSE 1)]]

\* An array is copied to the address of its parameter, a memory reference is
\* given by address.  The service's length may not exceed the buffer's.
otz_client_decode_array_space(c) ==
    LET m == c.meta.res[c.dpos + 1]
    IN  [ok  |-> m.ret <= m.len,
         val |-> IF m.type = "array" THEN c.buf.res[c.doff] ELSE m.usr,
         ctx |-> [c EXCEPT !.dpos = @ + 1, !.doff = @ + Words(m)]]

\* Of another type, nothing is decoded and no error returned.
otz_client_decode_uint32(c) ==
    LET m == c.meta.res[c.dpos + 1]
    IN  IF m.type # "uint32" THEN [ok |-> TRUE, val |-> <<0, "none">>, ctx |-> c]
        ELSE [ok |-> TRUE, val |-> c.buf.res[c.doff],
              ctx |-> [c EXCEPT !.dpos = @ + 1, !.doff = @ + 1]]

\* The decode loop goes over the output parameters in the order of the
\* encode loop.
Decode ==
    /\ phase = "decode" /\ todo # <<>>
    /\ LET it == Head(todo)
           d == IF it.type = "uint32" THEN otz_client_decode_uint32(Context)
                ELSE otz_client_decode_array_space(Context)
       IN  IF d.ok
           THEN /\ got' = Append(got, d.val) /\ ectx' = {d.ctx}
                /\ UNCHANGED <<iret, phase>>
           ELSE iret' = "api" /\ phase' = "release" /\ UNCHANGED <<got, ectx>>
    /\ todo' = Tail(todo)
    /\ UNCHANGED <<par, known, served>>

Decoded ==
    /\ phase = "decode" /\ todo = <<>>
    /\ phase' = "release"
    /\ UNCHANGED <<par, todo, ectx, known, iret, served, got>>

\* operation_release: every way out of TEEC_InvokeCommand.
Release ==
    /\ phase = "release"
    /\ phase' = "done"
    /\ ectx' = IF known THEN {} ELSE ectx
    /\ UNCHANGED <<par, todo, known, iret, served, got>>

TeeInvokeNext ==
    \/ otz_client_encode \/ Rejected \/ Encoded \/ otz_client_send_cmd_api
    \/ Decode \/ Decoded \/ Release

TeeInvokeSpec == TeeInvokeInit /\ [][TeeInvokeNext]_ivars
----------------------------------------------------------------------------
\* The words of the parameters of a stream are apart and in the buffer.
\* They are, unless a memory reference is encoded after another parameter:
\* its word then lies three times as far into the buffer again.

Places(s, i) == PlaceOf(s[i], OffsetIn(s, i))
Apart(s) ==
    \A i \in 1..Len(s) :
        /\ Places(s, i) \subseteq 0 .. (BufWords - 1)
        /\ \A j \in 1..Len(s) \ {i} : Places(s, i) \cap Places(s, j) = {}

\* What the client encodes is what the service reads, parameter by parameter.
RequestIntact ==
    phase \in {"decode", "done"} /\ iret = "ok" /\ Apart(Side("req")) =>
        served = [i \in 1..Len(Side("req")) |-> {Side("req")[i].who}]

\* What the service answers is what the client decodes, in each parameter
\* that the command changes, whatever the parameters before it.
ResponseIntact ==
    phase = "done" /\ iret = "ok" /\ Apart(Side("res")) =>
        got = [i \in 1..Len(Side("res")) |->
                  LET it == Side("res")[i]
                  IN  IF it.type = "memref" THEN it.who ELSE AnswerTo(it.who)]

\* No way out of the call leaves its context in the driver, except when the
\* id was not returned: a copy to the client failed, or a command without
\* parameters was refused.
ContextReleased == phase = "done" /\ known => ectx = {}

\* The three together, for every combination of parameter types.
InvokeExact == RequestIntact /\ ResponseIntact /\ ContextReleased
=============================================================================
