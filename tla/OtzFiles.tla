------------------------------ MODULE OtzFiles ------------------------------
(***************************************************************************)
(* What the Linux driver keeps for its clients: device files, sessions,    *)
(* encode contexts and shared memory, from module load to unload           *)
(* (otz_driver/otz_client_main.c).  The lists have no lock.  Each ioctl    *)
(* holds a mutex of its own kind only, or none, so threads meet in them:   *)
(* a call walks lists, sleeps in kmalloc, the SMC or a copy while it keeps *)
(* what it found, and changes lists.  When a change meets another call in  *)
(* the same list, or frees what another call keeps, what follows is        *)
(* undefined: raced notes the two calls, and the model stops there.        *)
(***************************************************************************)
EXTENDS Naturals, Sequences, FiniteSets, SequencesExt

CONSTANTS
    Thread,    \* threads of the clients
    NFile,     \* bound: opens of the device node
    Service,   \* service ids of otz_client_open
    Sess,      \* session ids the secure world hands out
    Enc,       \* addresses kmalloc returns for an encode context, its id too
    Mem        \* page blocks __get_free_pages returns

ASSUME FilesAssumption ==
    NFile \in Nat /\ Service # {} /\ Sess # {} /\ Enc # {} /\ Mem # {}

File == 1 .. NFile

VARIABLES
    kern,      \* what otz_client_init registered with the kernel
    fileCnt,   \* device_file_cnt
    files,     \* dev_file_list
    held,      \* files whose open succeeded and whose release has not begun
    sessions,  \* sessions_list of each file and service
    contexts,  \* encode_list of each session
    pages,     \* page blocks allocated and not freed
    devMem, sesMem,  \* shared_mem_list of each file, of each session
    lost,      \* page blocks no list leads to (history)
    secure,    \* sessions open in the secure world
    orphan,    \* sessions the client was never told of, or refused to close (history)
    notify,    \* notify_data is allocated
    call,      \* the call each thread is in, and where
    raced      \* the calls that met in a list (history)

lists  == <<files, held, sessions, contexts>>
memory == <<pages, devMem, sesMem, lost>>
world  == <<secure, orphan>>
fvars  == <<kern, fileCnt, lists, memory, world, notify, call, raced>>

Idle == [op |-> "none", at |-> "user", f |-> 0, v |-> CHOOSE v \in Service : TRUE,
         s |-> CHOOSE s \in Sess : TRUE, e |-> CHOOSE e \in Enc : TRUE,
         m |-> CHOOSE m \in Mem : TRUE]

\* The ioctls a client may issue, with its arguments.
Request ==
    LET Args(ops, V, S, E, M) ==
            [op : ops, at : {"walk"}, f : File, v : V, s : S, e : E, m : M] IN
        Args({"session_open"}, Service, {Idle.s}, {Idle.e}, {Idle.m})
        \cup Args({"session_close"}, Service, Sess, {Idle.e}, {Idle.m})
        \cup Args({"shared_mem_alloc", "shared_mem_free"}, Service, Sess, {Idle.e}, Mem)
        \cup Args({"encode", "decode", "send_cmd", "operation_release"},
                  Service, Sess, Enc, {Idle.m})

\* Ioctls under a mutex, each kind under its own.
Locked == {"session_open", "session_close", "shared_mem_alloc", "shared_mem_free",
           "encode", "decode", "send_cmd"}

OtzFilesInit ==
    /\ kern = {} /\ fileCnt = 0 /\ files = {} /\ held = {}
    /\ sessions = [f \in File |-> [v \in Service |-> <<>>]]
    /\ contexts = [s \in Sess |-> {}]
    /\ pages = {} /\ lost = {}
    /\ devMem = [f \in File |-> {}] /\ sesMem = [s \in Sess |-> {}]
    /\ secure = {} /\ orphan = {} /\ notify = FALSE
    /\ call = [t \in Thread |-> Idle] /\ raced = {}

Loaded == "cdev" \in kern /\ "region" \in kern

At(t, op, at) == call[t].op = op /\ call[t].at = at
MovesTo(t, at) == call' = [call EXCEPT ![t].at = at]
Returns(t) == call' = [call EXCEPT ![t] = Idle]

\* The mutex of an operation: a send that waits has given its own up.
Unlocked(op) == op \in Locked => \A u \in Thread : call[u].op = op => call[u].at = "wait"

\* The session of a call, by the lookups' loops over the lists.
Has(c) == c.s \in Range(sessions[c.f][c.v])

----------------------------------------------------------------------------
(* Meetings in the lists.                                                  *)

\* The lists a call is going through, and those whose links it is changing.
Walks(c) ==
    CASE c.at = "walk" /\ c.op = "session_open"     -> {"files"}
      [] c.at = "walk" /\ c.op = "session_close"    -> {"files", "sessions"}
      [] c.at = "walk" /\ c.op = "shared_mem_alloc" -> {"files", "sessions", "device"}
      [] c.at = "walk" /\ c.op = "shared_mem_free"  -> {"files", "sessions", "blocks"}
      [] c.at = "walk"                              -> {"files", "sessions", "contexts"}
      [] c.at \in {"add", "exit"}                   -> {"files"}
      [] c.at = "busy" /\ c.op = "encode"           -> {"files", "blocks", "device"}
      [] OTHER                                      -> {}

Changes(c) ==
    CASE c.op = "open" /\ c.at = "link"              -> {"files"}
      [] c.op = "release" /\ c.at = "unlink"         -> {"files"}
      [] c.op = "mmap" /\ c.at = "add"               -> {"device"}
      [] c.op = "session_open" /\ c.at \in {"link", "undo"} -> {"sessions"}
      [] c.op = "session_close" /\ c.at = "unlink"   -> {"sessions", "contexts", "blocks"}
      [] c.op = "shared_mem_alloc" /\ c.at = "walk"  -> {"device", "blocks"}
      [] c.op = "shared_mem_free" /\ c.at = "walk"   -> {"blocks"}
      [] c.op = "operation_release" /\ c.at = "walk" -> {"contexts"}
      [] c.op \in {"encode", "send_cmd"} /\ c.at = "link" -> {"contexts"}
      [] OTHER                                       -> {}

\* A link added beside a call that only walks does not disturb it.
Removes(c) == IF c.at \in {"link", "add"} THEN {} ELSE Changes(c)

KeepsContext(c) == c.op \in {"encode", "decode", "send_cmd"} /\ c.at \in {"busy", "wait", "resume"}
KeepsSession(c) ==
    \/ KeepsContext(c)
    \/ c.op \in {"encode", "send_cmd"} /\ c.at \in {"new", "link"}
    \/ c.op = "session_open" /\ c.at \in {"copy", "undo"}
    \/ c.op = "session_close" /\ c.at \in {"closing", "unlink"}

SameSession(c, d) == c.f = d.f /\ c.v = d.v /\ c.s = d.s
SameList(l, c, d) ==
    CASE l = "files" -> TRUE
      [] l = "device" -> c.f = d.f
      [] l = "sessions" -> c.f = d.f /\ c.v = d.v
      [] OTHER -> SameSession(c, d)

\* The change call c is at disturbs call d.
Disturbs(c, d) ==
    \/ \E l \in Removes(c) \cap Walks(d) : SameList(l, c, d)
    \/ \E l \in Changes(c) \cap Changes(d) : SameList(l, c, d)
    \/ "sessions" \in Removes(c) /\ KeepsSession(d) /\ SameSession(c, d)
    \/ c.op = "operation_release" /\ KeepsContext(d) /\ c.e = d.e

\* A thread performs the change it is at.
Disturbed(t) == {<<call[t], call[u]>> : u \in {u \in Thread \ {t} : Disturbs(call[t], call[u])}}
Changed(t) == raced' = Disturbed(t)

\* What thread t read before it slept no longer holds when it acts on it.
Stale(t) == {<<call[t], Idle>>}

----------------------------------------------------------------------------
(* Module load and unload.                                                 *)

Stages == <<"region", "class", "device", "cdev">>

\* A stage that fails undoes the ones before it.
otz_client_init ==
    /\ "region" \notin kern
    /\ \E n \in 0 .. Len(Stages) :
          kern' = IF n < Len(Stages) THEN kern
                  ELSE Range(Stages) \cup {"handler"}
    /\ files' = {}
    /\ fileCnt' = 0 /\ notify' = FALSE
    /\ UNCHANGED <<held, sessions, contexts, memory, world, call, raced>>

\* There is no cdev_del.  The kernel unloads a module nobody has open.
otz_client_exit ==
    /\ Loaded /\ held = {} /\ \A t \in Thread : call[t] = Idle
    /\ kern' = kern \ {"handler", "device", "class", "region"}
    /\ UNCHANGED <<fileCnt, lists, memory, world, notify, call, raced>>

----------------------------------------------------------------------------
(* Device files.                                                           *)

\* device_file_cnt is the file's private_data at once, and its dev_file_id
\* only after the kmalloc: another open between them gives a file the id of
\* the other.  A file is linked before its services and the notification
\* memory are allocated, and stays linked when that fails: the kernel does
\* not release a file whose open failed.
otz_client_open(t) ==
    LET f == call[t].f IN
    \/ /\ call[t] = Idle /\ Loaded /\ fileCnt < NFile
       /\ fileCnt' = fileCnt + 1
       /\ call' = [call EXCEPT ![t] = [Idle EXCEPT !.op = "open", !.at = "alloc", !.f = fileCnt + 1]]
       /\ UNCHANGED <<files, held, notify, raced>>
    \/ /\ At(t, "open", "alloc") /\ MovesTo(t, "link")
       /\ UNCHANGED <<fileCnt, files, held, notify, raced>>
    \/ /\ At(t, "open", "link") /\ MovesTo(t, "services")
       /\ files' = files \cup {fileCnt}
       /\ raced' = Disturbed(t) \cup IF fileCnt # f THEN Stale(t) ELSE {}
       /\ UNCHANGED <<fileCnt, held, notify>>
    \/ /\ At(t, "open", "services") /\ MovesTo(t, IF notify THEN "register" ELSE "notify")
       /\ UNCHANGED <<fileCnt, files, held, notify, raced>>
    \/ /\ At(t, "open", "notify") /\ MovesTo(t, "register")
       /\ notify' = TRUE /\ raced' = IF notify THEN Stale(t) ELSE {}
       /\ UNCHANGED <<fileCnt, files, held>>
    \/ /\ At(t, "open", "register") /\ Returns(t)
       /\ held' = held \cup {f}
       /\ UNCHANGED <<fileCnt, files, notify, raced>>

OpenStep(t) ==
    otz_client_open(t) /\ UNCHANGED <<kern, sessions, contexts, memory, world>>

\* A session is freed whatever the SMC answered: its contexts (not their
\* buffers), then its shared memory with the pages.
Closed(S) ==
    /\ contexts' = [s \in Sess |-> IF s \in S THEN {} ELSE contexts[s]]
    /\ sesMem' = [s \in Sess |-> IF s \in S THEN {} ELSE sesMem[s]]

\* The SMC that closes sessions, which the secure world may refuse.
ClosingSMC(S) ==
    \E refused \in SUBSET S : secure' = secure \ (S \ refused) /\ orphan' = orphan \cup refused

MemOf(S) == UNION {sesMem[s] : s \in S}
SessionsOf(f) == UNION {Range(sessions[f][v]) : v \in Service}

\* Defect: the sessions are forgotten without being closed.
otz_client_release_quick(t) ==
    LET f == call[t].f IN
    \/ /\ call[t] = Idle
       /\ \E g \in held :
             /\ \A u \in Thread : call[u].f # g
             /\ held' = held \ {g}
             /\ call' = [call EXCEPT ![t] = [Idle EXCEPT !.op = "release", !.at = "exit", !.f = g]]
       /\ UNCHANGED <<files, sessions, contexts, memory, world, notify, raced>>
    \/ /\ At(t, "release", "exit") /\ MovesTo(t, "unlink")
       /\ sessions' = [sessions EXCEPT ![f] = [v \in Service |-> <<>>]]
       /\ devMem' = [devMem EXCEPT ![f] = {}]
       /\ pages' = pages \ devMem[f]
       /\ UNCHANGED <<files, held, contexts, sesMem, lost, world, notify, raced>>
    \/ /\ At(t, "release", "unlink") /\ Returns(t)
       /\ files' = files \ {f} /\ Changed(t)
       /\ UNCHANGED <<held, sessions, contexts, memory, world, notify>>

\* The kernel releases a file when nobody is inside the driver with it.  Its
\* notification memory is unregistered, its own shared memory freed, every
\* session closed, and the file unlinked; and if that was the last one, the
\* notification memory freed, though a file may be opened in between.
otz_client_release(t) ==
    LET f == call[t].f IN
    \/ /\ call[t] = Idle
       /\ \E g \in held :
             /\ \A u \in Thread : call[u].f # g
             /\ held' = held \ {g}
             /\ call' = [call EXCEPT ![t] = [Idle EXCEPT !.op = "release", !.at = "exit", !.f = g]]
       /\ UNCHANGED <<files, sessions, contexts, memory, world, notify, raced>>
    \/ /\ At(t, "release", "exit") /\ MovesTo(t, "unlink")
       /\ Closed(SessionsOf(f)) /\ ClosingSMC(SessionsOf(f))
       /\ sessions' = [sessions EXCEPT ![f] = [v \in Service |-> <<>>]]
       /\ devMem' = [devMem EXCEPT ![f] = {}]
       /\ pages' = pages \ (devMem[f] \cup MemOf(SessionsOf(f)))
       /\ UNCHANGED <<files, held, lost, notify, raced>>
    \/ /\ At(t, "release", "unlink")
       /\ files' = files \ {f} /\ Changed(t)
       /\ IF files' = {} THEN MovesTo(t, "last") ELSE Returns(t)
       /\ UNCHANGED <<held, sessions, contexts, memory, world, notify>>
    \/ /\ At(t, "release", "last") /\ Returns(t)
       /\ notify' = FALSE /\ raced' = IF files # {} THEN Stale(t) ELSE {}
       /\ UNCHANGED <<lists, memory, world>>

ReleaseStep(t) == otz_client_release(t) /\ UNCHANGED <<kern, fileCnt>>

----------------------------------------------------------------------------
(* Ioctls.                                                                 *)

Begins(t) ==
    /\ call[t] = Idle
    /\ \E c \in Request : c.f \in held /\ Unlocked(c.op) /\ call' = [call EXCEPT ![t] = c]
    /\ UNCHANGED <<lists, memory, world, raced>>

\* Calls end early when a lookup finds nothing, a kmalloc or the SMC fails,
\* and end after the SMC, a copy to the client, or an encoding.
Ends(t) ==
    /\ call[t].at \in {"alloc", "services", "notify", "register", "walk", "new", "opening",
                        "copy", "busy", "resume"}
    /\ Returns(t)
    /\ UNCHANGED <<lists, memory, world, raced>>

\* A session that cannot be copied to the client is unlinked and freed, with
\* what hangs on it lost, and stays open in the secure world.  (The secure
\* world does not hand out the id of a session that is still linked.)
otz_client_session_open(t) ==
    LET c == call[t] IN
    \/ /\ At(t, "session_open", "walk") /\ MovesTo(t, "opening")
       /\ UNCHANGED <<lists, memory, world, raced>>
    \/ /\ At(t, "session_open", "opening")
       /\ \E s \in Sess \ secure :
             /\ \A f \in File : s \notin SessionsOf(f)
             /\ secure' = secure \cup {s}
             /\ call' = [call EXCEPT ![t] = [c EXCEPT !.at = "link", !.s = s]]
       /\ UNCHANGED <<lists, memory, orphan, raced>>
    \/ /\ At(t, "session_open", "link") /\ MovesTo(t, "copy")
       /\ sessions' = [sessions EXCEPT ![c.f][c.v] = Append(@, c.s)]
       /\ Changed(t)
       /\ UNCHANGED <<files, held, contexts, memory, world>>
    \/ /\ At(t, "session_open", "copy") /\ MovesTo(t, "undo")
       /\ UNCHANGED <<lists, memory, world, raced>>
    \/ /\ At(t, "session_open", "undo") /\ Returns(t)
       /\ sessions' = [sessions EXCEPT ![c.f][c.v] = RemoveFirst(@, c.s)]
       /\ sesMem' = [sesMem EXCEPT ![c.s] = {}] /\ lost' = lost \cup sesMem[c.s]
       /\ orphan' = orphan \cup {c.s}
       /\ Changed(t)
       /\ UNCHANGED <<files, held, contexts, pages, devMem, secure>>

otz_client_session_close(t) ==
    LET c == call[t] IN
    \/ /\ At(t, "session_close", "walk") /\ Has(c) /\ MovesTo(t, "closing")
       /\ UNCHANGED <<lists, memory, world, raced>>
    \/ /\ At(t, "session_close", "closing") /\ MovesTo(t, "unlink")
       /\ ClosingSMC({c.s})
       /\ UNCHANGED <<lists, memory, raced>>
    \/ /\ At(t, "session_close", "unlink") /\ Returns(t)
       /\ sessions' = [sessions EXCEPT ![c.f][c.v] = RemoveFirst(@, c.s)]
       /\ Closed({c.s}) /\ pages' = pages \ sesMem[c.s]
       /\ Changed(t)
       /\ UNCHANGED <<files, held, devMem, lost, world>>

\* The pages are lost when the mapping or the kmalloc of the list element
\* fails.  No mutex of the driver is held.
otz_client_mmap(t) ==
    LET c == call[t] IN
    \/ /\ call[t] = Idle
       /\ \E f \in held, m \in Mem \ pages :
             /\ pages' = pages \cup {m}
             /\ call' = [call EXCEPT ![t] = [Idle EXCEPT !.op = "mmap", !.at = "map", !.f = f, !.m = m]]
       /\ UNCHANGED <<devMem, lost, raced>>
    \/ /\ At(t, "mmap", "map") /\ Returns(t)
       /\ lost' = lost \cup {c.m}
       /\ UNCHANGED <<pages, devMem, raced>>
    \/ /\ At(t, "mmap", "map") /\ MovesTo(t, "add")
       /\ UNCHANGED <<pages, devMem, lost, raced>>
    \/ /\ At(t, "mmap", "add") /\ Returns(t)
       /\ devMem' = [devMem EXCEPT ![c.f] = @ \cup {c.m}]
       /\ Changed(t)
       /\ UNCHANGED <<pages, lost>>

MmapStep(t) == otz_client_mmap(t) /\ UNCHANGED <<lists, sesMem, world>>

\* The block moves to the session.
otz_client_shared_mem_alloc(t) ==
    LET c == call[t] IN
    /\ At(t, "shared_mem_alloc", "walk") /\ Has(c) /\ c.m \in devMem[c.f]
    /\ devMem' = [devMem EXCEPT ![c.f] = @ \ {c.m}]
    /\ sesMem' = [sesMem EXCEPT ![c.s] = @ \cup {c.m}]
    /\ Returns(t) /\ Changed(t)
    /\ UNCHANGED <<lists, pages, lost, world>>

\* Only the list of the session is searched.
otz_client_shared_mem_free(t) ==
    LET c == call[t] IN
    /\ At(t, "shared_mem_free", "walk") /\ Has(c) /\ c.m \in sesMem[c.s]
    /\ sesMem' = [sesMem EXCEPT ![c.s] = @ \ {c.m}]
    /\ pages' = pages \ {c.m}
    /\ Returns(t) /\ Changed(t)
    /\ UNCHANGED <<lists, devMem, lost, world>>

----------------------------------------------------------------------------
(* Encode contexts.                                                        *)

\* The session a send finds is the first of the service or none: its loop
\* over the sessions is left after one turn.
Finds(c) == Has(c) /\ (c.op = "send_cmd" => Head(sessions[c.f][c.v]) = c.s)

\* Contexts that are allocated and in no list yet.
Linking == {call[u].e : u \in {u \in Thread : call[u].op \in {"encode", "send_cmd"} /\ call[u].at = "link"}}

\* The encoders go on with the context of the given id; they, and a send with
\* encode_id -1, create one where there is none.
otz_client_prepare_encode(t) ==
    LET c == call[t] IN
    /\ c.op \in {"encode", "send_cmd"}
    /\ \/ /\ c.at = "walk" /\ Finds(c) /\ MovesTo(t, IF c.e \in contexts[c.s] THEN "busy" ELSE "new")
          /\ UNCHANGED <<contexts, raced>>
       \/ /\ c.at = "new"
          /\ \E e \in Enc \ ((UNION {contexts[s] : s \in Sess}) \cup Linking) :
                call' = [call EXCEPT ![t] = [c EXCEPT !.at = "link", !.e = e]]
          /\ UNCHANGED <<contexts, raced>>
       \/ /\ c.at = "link" /\ MovesTo(t, "busy")
          /\ contexts' = [contexts EXCEPT ![c.s] = @ \cup {c.e}]
          /\ Changed(t)
    /\ UNCHANGED <<files, held, sessions, memory, world>>

otz_client_prepare_decode(t) ==
    LET c == call[t] IN
    /\ At(t, "decode", "walk") /\ Has(c) /\ c.e \in contexts[c.s] /\ MovesTo(t, "busy")
    /\ UNCHANGED <<lists, memory, world, raced>>

\* While the secure world is at work the send gives its mutex up, and takes
\* it again to fetch the answer.  An interrupted wait gives up a mutex that is
\* not its own.
otz_client_send_cmd(t) ==
    /\ \/ At(t, "send_cmd", "busy") /\ MovesTo(t, "wait") /\ UNCHANGED raced
       \/ At(t, "send_cmd", "wait") /\ Unlocked("send_cmd") /\ MovesTo(t, "resume") /\ UNCHANGED raced
       \/ At(t, "send_cmd", "wait") /\ Returns(t) /\ raced' = Stale(t)
    /\ UNCHANGED <<lists, memory, world>>

\* Defect: the session is looked up by its id alone, in every file.
otz_client_operation_release_any(t) ==
    LET c == call[t] IN
    /\ At(t, "operation_release", "walk") /\ c.e \in contexts[c.s]
    /\ contexts' = [contexts EXCEPT ![c.s] = @ \ {c.e}]
    /\ Returns(t) /\ Changed(t)
    /\ UNCHANGED <<files, held, sessions, memory, world>>

\* No mutex is taken.
otz_client_operation_release(t) ==
    LET c == call[t] IN
    /\ At(t, "operation_release", "walk") /\ Has(c) /\ c.e \in contexts[c.s]
    /\ contexts' = [contexts EXCEPT ![c.s] = @ \ {c.e}]
    /\ Returns(t) /\ Changed(t)
    /\ UNCHANGED <<files, held, sessions, memory, world>>

ClientStep(t) ==
    \/ Begins(t)
    \/ Ends(t)
    \/ otz_client_session_open(t)
    \/ otz_client_session_close(t)
    \/ MmapStep(t)
    \/ otz_client_shared_mem_alloc(t)
    \/ otz_client_shared_mem_free(t)
    \/ otz_client_prepare_encode(t)
    \/ otz_client_prepare_decode(t)
    \/ otz_client_send_cmd(t)
    \/ otz_client_operation_release(t)

OtzFilesNext ==
    /\ raced = {}
    /\ \/ otz_client_init \/ otz_client_exit
       \/ \E t \in Thread :
             \/ OpenStep(t)
             \/ ReleaseStep(t)
             \/ ClientStep(t) /\ UNCHANGED <<kern, fileCnt, notify>>

OtzFilesSpec == OtzFilesInit /\ [][OtzFilesNext]_fvars
----------------------------------------------------------------------------
ListedMem == UNION ({devMem[f] : f \in File} \cup {sesMem[s] : s \in Sess})

\* The threads at a stage of an operation, and the sessions they are there for.
Threads(op, at) == {t \in Thread : At(t, op, at)}
SessionsAt(op, at) == {call[t].s : t \in Threads(op, at)}
Mapping == {call[t].m : t \in Threads("mmap", "map") \cup Threads("mmap", "add")}

\* However memory is mapped, moved to sessions, freed, and its sessions and
\* files closed, each allocated page block is in exactly one list, is being
\* mapped, or was lost when a call failed; no list leads to freed pages, so
\* nothing is freed twice.
PagesListedOnce ==
    /\ pages = ListedMem \cup lost \cup Mapping
    /\ \A m \in Mem :
          Cardinality({f \in File : m \in devMem[f]}) + Cardinality({s \in Sess : m \in sesMem[s]})
             + (IF m \in lost \cup Mapping THEN 1 ELSE 0) <= 1

\* The sessions the secure world has open are those in the driver's lists,
\* each in one place, those a call is about to link, and those left behind by
\* a failed copy or a refused close; one that is listed and not open is being
\* closed.  So releasing a file closes all of its sessions.
SessionsKnown ==
    LET linked == UNION {SessionsOf(f) : f \in File} IN
        /\ linked \subseteq secure \cup SessionsAt("session_close", "unlink")
        /\ secure \subseteq linked \cup SessionsAt("session_open", "link") \cup orphan
        /\ \A f, g \in File, v, w \in Service :
              <<f, v>> # <<g, w>> => Range(sessions[f][v]) \cap Range(sessions[g][w]) = {}

\* Two calls meet in a list only when no mutex keeps them apart, and are of
\* one file unless one releases its file or both open theirs; a call acts on
\* something stale only when two files are opened, or one is opened while the
\* last is released, or when a wait is interrupted.
RacesKnown ==
    \A r \in raced : LET c == r[1]  d == r[2] IN
        \/ d = Idle /\ c.op \in {"open", "release", "send_cmd"}
        \/ /\ c.op = d.op => c.op \notin Locked
           /\ c.f = d.f \/ "release" \in {c.op, d.op} \/ {c.op, d.op} = {"open"}

\* All of it, over every interleaving of the threads' calls up to the first
\* two that meet; and which calls can meet.
FilesExact ==
    /\ raced = {} => PagesListedOnce /\ SessionsKnown /\ (held # {} => notify)
    /\ RacesKnown

Sending(t) == call[t].op = "send_cmd" /\ KeepsContext(call[t])

\* While a send is in the SMC, or waits for the secure world with no mutex,
\* no step of another file frees the context it uses: only the client's own
\* threads can.  (Once they have, the address may be another client's context
\* while the send still waits.)
SendUndisturbed ==
    [][\A t \in Thread :
          Sending(t) /\ (\E s \in Sess : call[t].e \in contexts[s] \ contexts'[s])
             => \E u \in Thread : call'[u] # call[u] /\ call[u].f = call[t].f]_fvars

----------------------------------------------------------------------------
(* The inductive invariant, up to the first two calls that meet.           *)

Kinds == {"none", "open", "release", "mmap", "operation_release"} \cup Locked
Points == {"user", "alloc", "link", "services", "notify", "register", "exit", "unlink", "last",
           "walk", "opening", "copy", "undo", "closing", "map", "add", "new", "busy", "wait", "resume"}

FilesTypeOK ==
    /\ kern \in SUBSET {"region", "class", "device", "cdev", "handler"}
    /\ fileCnt \in 0 .. NFile /\ files \in SUBSET (1 .. fileCnt) /\ held \in SUBSET files
    /\ sessions \in [File -> [Service -> Seq(Sess)]]
    /\ contexts \in [Sess -> SUBSET Enc]
    /\ pages \in SUBSET Mem /\ lost \in SUBSET Mem
    /\ devMem \in [File -> SUBSET Mem] /\ sesMem \in [Sess -> SUBSET Mem]
    /\ secure \in SUBSET Sess /\ orphan \in SUBSET Sess /\ notify \in BOOLEAN
    /\ call \in [Thread -> [op : Kinds, at : Points, f : 0 .. NFile, v : Service,
                             s : Sess, e : Enc, m : Mem]]

\* An ioctl or an mmap is for a file that stays open; a file that is being
\* opened or released is not open, and is in the list when it has to be.
FileOK(c) ==
    /\ c.op \in Locked \cup {"mmap", "operation_release"} => c.f \in held
    /\ c.op \in {"open", "release"} => c.f \in (1 .. fileCnt) \ held
    /\ c.op = "open" /\ c.at \in {"services", "notify", "register"} => c.f \in files
    /\ c.op = "open" /\ c.at = "register" => notify

FilesHeld ==
    /\ held # {} => notify
    /\ "region" \notin kern => held = {} /\ \A t \in Thread : call[t] = Idle
    /\ \A t \in Thread : FileOK(call[t])

\* Sessions are linked once, and open unless a close is about to unlink them;
\* a call that keeps one finds it linked, and one about to link finds it not.
Linked(s) == \E f \in File, v \in Service : s \in Range(sessions[f][v])

SessionsLinked ==
    /\ \A f \in File, v \in Service : IsInjective(sessions[f][v])
    /\ \A f, g \in File, v, w \in Service : \A s \in Sess :
          s \in Range(sessions[f][v]) /\ s \in Range(sessions[g][w]) => f = g /\ v = w
    /\ \A s \in Sess : Linked(s) =>
          s \in secure \/ \E t \in Thread : At(t, "session_close", "unlink") /\ call[t].s = s
    /\ \A s \in secure \ orphan :
          Linked(s) \/ \E t \in Thread : At(t, "session_open", "link") /\ call[t].s = s
    /\ \A t \in Thread : KeepsSession(call[t]) => Has(call[t])
    /\ \A t \in Thread : At(t, "session_open", "link") => call[t].s \in secure /\ ~Linked(call[t].s)
    /\ \A t \in Thread : At(t, "session_close", "unlink") => call[t].s \notin secure \ orphan

\* A context is in one list, and there as long as a call keeps it.
LinksContext(c) == c.op \in {"encode", "send_cmd"} /\ c.at = "link"

ContextsOwned ==
    /\ \A s, r \in Sess : \A e \in Enc : e \in contexts[s] /\ e \in contexts[r] => s = r
    /\ \A t \in Thread : KeepsContext(call[t]) => call[t].e \in contexts[call[t].s]
    /\ \A t \in Thread : LinksContext(call[t]) => \A s \in Sess : call[t].e \notin contexts[s]

\* A block is in one list, or being mapped, or lost.
OnList(m) == (\E f \in File : m \in devMem[f]) \/ (\E s \in Sess : m \in sesMem[s])

BlocksOwned ==
    /\ \A m \in Mem : OnList(m) => m \in pages \ lost
    /\ lost \subseteq pages
    /\ \A m \in pages \ lost : OnList(m) \/ \E t \in Thread : call[t].op = "mmap" /\ call[t].m = m
    /\ \A f, g \in File : \A m \in Mem : m \in devMem[f] /\ m \in devMem[g] => f = g
    /\ \A s, r \in Sess : \A m \in Mem : m \in sesMem[s] /\ m \in sesMem[r] => s = r
    /\ \A f \in File, s \in Sess : \A m \in Mem : ~(m \in devMem[f] /\ m \in sesMem[s])
    /\ \A t \in Thread : call[t].op = "mmap" =>
          call[t].at \in {"map", "add"} /\ call[t].m \in pages \ lost /\ ~OnList(call[t].m)

\* The mutex of each kind of ioctl, and what a call has to itself.
Exclude(c, d) ==
    /\ c.op = d.op /\ c.op \in Locked => c.at = "wait" \/ d.at = "wait"
    /\ c.op \in {"open", "release"} /\ d.op \in {"open", "release"} => c.f # d.f
    /\ LinksContext(c) /\ LinksContext(d) => c.e # d.e
    /\ c.op = "mmap" /\ d.op = "mmap" => c.m # d.m

CallsExclude == \A t, u \in Thread : t # u => Exclude(call[t], call[u])

ListsInv ==
    FilesTypeOK /\ FilesHeld /\ SessionsLinked /\ ContextsOwned /\ BlocksOwned /\ CallsExclude

FilesInv == RacesKnown /\ (raced = {} => ListsInv)
=============================================================================
