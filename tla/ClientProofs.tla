---------------------------- MODULE ClientProofs ----------------------------
(***************************************************************************)
(* Proofs about the Linux side above the SMC calls, for every number of    *)
(* files, services, sessions, operations, contexts and blocks: the lists   *)
(* of the driver (OtzFiles) and the counts of the client API (OtzApi); and *)
(* for any last content of the buffer, the verdicts of otzapp.c            *)
(* (CryptoVerify).                                                         *)
(***************************************************************************)
EXTENDS OtzFiles, OtzApi, CryptoVerify, ListLemmas

----------------------------------------------------------------------------
(* OtzFiles: the lists of the driver.                                      *)

CallType == [op : Kinds, at : Points, f : 0 .. NFile, v : Service, s : Sess, e : Enc, m : Mem]

LEMMA IdleFacts ==
    /\ Idle \in CallType /\ Idle.op = "none" /\ Idle.at = "user"
    /\ ~KeepsSession(Idle) /\ ~KeepsContext(Idle) /\ ~LinksContext(Idle)
<1>1. /\ (CHOOSE v \in Service : TRUE) \in Service /\ (CHOOSE s \in Sess : TRUE) \in Sess
      /\ (CHOOSE e \in Enc : TRUE) \in Enc /\ (CHOOSE m \in Mem : TRUE) \in Mem
  BY FilesAssumption
<1> DEFINE v0 == CHOOSE v \in Service : TRUE
           s0 == CHOOSE s \in Sess : TRUE
           e0 == CHOOSE e \in Enc : TRUE
           m0 == CHOOSE m \in Mem : TRUE
<1>2. Idle = [op |-> "none", at |-> "user", f |-> 0, v |-> v0, s |-> s0, e |-> e0, m |-> m0]
  BY DEF Idle
<1> HIDE DEF v0, s0, e0, m0
<1>3. v0 \in Service /\ s0 \in Sess /\ e0 \in Enc /\ m0 \in Mem
  BY <1>1 DEF v0, s0, e0, m0
<1>4. Idle \in CallType /\ Idle.op = "none" /\ Idle.at = "user"
  BY <1>2, <1>3, FilesAssumption DEF CallType, Kinds, Points
<1> QED BY <1>4 DEF KeepsSession, KeepsContext, LinksContext

LEMMA FilesInitInv == OtzFilesInit => FilesInv
<1> SUFFICES ASSUME OtzFilesInit PROVE FilesInv
  OBVIOUS
<1>1. \A t \in Thread : call[t] = Idle
  BY DEF OtzFilesInit
<1>2. FilesTypeOK
  <2>1. /\ sessions \in [File -> [Service -> Seq(Sess)]] /\ 0 \in 0 .. NFile
        /\ contexts \in [Sess -> SUBSET Enc]
        /\ devMem \in [File -> SUBSET Mem] /\ sesMem \in [Sess -> SUBSET Mem]
    BY FilesAssumption DEF OtzFilesInit
  <2>2. call \in [Thread -> CallType]
    BY IdleFacts DEF OtzFilesInit
  <2>3. kern = {} /\ fileCnt = 0 /\ files = {} /\ held = {} /\ pages = {} /\ lost = {}
        /\ secure = {} /\ orphan = {} /\ notify = FALSE
    BY DEF OtzFilesInit
  <2> QED BY <2>1, <2>2, <2>3 DEF FilesTypeOK, CallType
<1>3. FilesHeld
  BY <1>1, IdleFacts DEF OtzFilesInit, FilesHeld, FileOK, Locked
<1>4. SessionsLinked
  <2>1. \A f \in File, v \in Service : IsInjective(sessions[f][v]) /\ Range(sessions[f][v]) = {}
    BY EmptyFacts DEF OtzFilesInit
  <2>2. secure = {}
    BY DEF OtzFilesInit
  <2> QED BY <1>1, <2>1, <2>2, IdleFacts DEF SessionsLinked, Linked, At
<1>5. ContextsOwned /\ BlocksOwned
  BY <1>1, IdleFacts DEF OtzFilesInit, ContextsOwned, BlocksOwned, OnList
<1>6. CallsExclude /\ RacesKnown
  BY <1>1, IdleFacts DEF OtzFilesInit, CallsExclude, Exclude, LinksContext, Locked, RacesKnown
<1> QED BY <1>2, <1>3, <1>4, <1>5, <1>6 DEF FilesInv, ListsInv

\* What a step of one thread leaves of the invariant when it changes nothing
\* but where the thread is.
LEMMA CallTo ==
    ASSUME FilesTypeOK, NEW t \in Thread, NEW d \in CallType, call' = [call EXCEPT ![t] = d]
    PROVE  /\ call' \in [Thread -> CallType] /\ call'[t] = d
           /\ \A u \in Thread : u # t => call'[u] = call[u]
BY DEF FilesTypeOK, CallType

LEMMA FilesFrame ==
    ASSUME FilesTypeOK, FilesHeld, NEW t \in Thread, NEW d \in CallType, call' = [call EXCEPT ![t] = d],
           UNCHANGED <<kern, fileCnt, files, held, notify>>, "region" \in kern, FileOK(d)
    PROVE  FilesHeld'
<1>1. \A u \in Thread : u # t => call'[u] = call[u] /\ FileOK(call[u])
  BY CallTo DEF FilesHeld
<1>2. call'[t] = d
  BY CallTo
<1>3. ASSUME NEW u \in Thread PROVE FileOK(call[u])'
  BY <1>1, <1>2, <1>3 DEF FileOK
<1> QED BY <1>3 DEF FilesHeld

LEMMA SessionsFrame ==
    ASSUME FilesTypeOK, SessionsLinked, NEW t \in Thread, NEW d \in CallType,
           call' = [call EXCEPT ![t] = d], UNCHANGED <<sessions, secure, orphan>>,
           ~At(t, "session_close", "unlink"), ~At(t, "session_open", "link"),
           KeepsSession(d) => Has(d), ~(d.op = "session_open" /\ d.at = "link"),
           ~(d.op = "session_close" /\ d.at = "unlink")
    PROVE  SessionsLinked'
<1>1. /\ call'[t] = d
      /\ \A u \in Thread : u # t => call'[u] = call[u]
  BY CallTo
<1>2. \A s \in Sess : Linked(s)' <=> Linked(s)
  BY DEF Linked
<1>3. ASSUME NEW u \in Thread, KeepsSession(call[u])' PROVE Has(call[u])'
  BY <1>1, <1>3 DEF SessionsLinked, Has, KeepsSession, KeepsContext
<1>4. ASSUME NEW u \in Thread, At(u, "session_open", "link")'
      PROVE  call'[u].s \in secure /\ ~Linked(call[u].s)'
  BY <1>1, <1>4 DEF SessionsLinked, At, Linked
<1>5. ASSUME NEW s \in Sess, Linked(s)'
      PROVE  s \in secure \/ \E u \in Thread : At(u, "session_close", "unlink")' /\ call'[u].s = s
  BY <1>1, <1>2, <1>5 DEF SessionsLinked, At
<1>6. ASSUME NEW s \in secure \ orphan
      PROVE  Linked(s)' \/ \E u \in Thread : At(u, "session_open", "link")' /\ call'[u].s = s
  BY <1>1, <1>6 DEF SessionsLinked, At, Linked
<1>7. ASSUME NEW u \in Thread, At(u, "session_close", "unlink")'
      PROVE  call'[u].s \notin secure \ orphan \/ u = t
  BY <1>1, <1>7 DEF SessionsLinked, At
<1>8. SessionsLinked'
  BY <1>1, <1>3, <1>4, <1>5, <1>6, <1>7 DEF SessionsLinked, KeepsSession, KeepsContext, At
<1> QED BY <1>8

LEMMA ContextsFrame ==
    ASSUME FilesTypeOK, ContextsOwned, NEW t \in Thread, NEW d \in CallType,
           call' = [call EXCEPT ![t] = d], contexts' = contexts,
           KeepsContext(d) => d.e \in contexts[d.s],
           LinksContext(d) => \A s \in Sess : d.e \notin contexts[s]
    PROVE  ContextsOwned'
<1>1. /\ call'[t] = d
      /\ \A u \in Thread : u # t => call'[u] = call[u]
  BY CallTo
<1>2. ASSUME NEW u \in Thread
      PROVE  /\ KeepsContext(call'[u]) => call'[u].e \in contexts[call'[u].s]
             /\ LinksContext(call'[u]) => \A s \in Sess : call'[u].e \notin contexts[s]
  BY <1>1 DEF ContextsOwned
<1> QED BY <1>2 DEF ContextsOwned, KeepsContext, LinksContext

LEMMA BlocksFrame ==
    ASSUME FilesTypeOK, BlocksOwned, NEW t \in Thread, NEW d \in CallType,
           call' = [call EXCEPT ![t] = d], UNCHANGED memory, call[t].op # "mmap", d.op # "mmap"
    PROVE  BlocksOwned'
<1>1. /\ call'[t] = d
      /\ \A u \in Thread : u # t => call'[u] = call[u]
  BY CallTo
<1> QED BY <1>1 DEF BlocksOwned, OnList, memory

LEMMA ExcludeFrame ==
    ASSUME FilesTypeOK, CallsExclude, NEW t \in Thread, NEW d \in CallType,
           call' = [call EXCEPT ![t] = d], \A u \in Thread : u # t => Exclude(d, call[u])
    PROVE  CallsExclude'
<1>1. /\ call'[t] = d
      /\ \A u \in Thread : u # t => call'[u] = call[u]
  BY CallTo
<1>2. \A a, b : Exclude(a, b) => Exclude(b, a)
  BY DEF Exclude
<1>3. ASSUME NEW u \in Thread, NEW w \in Thread, u # w PROVE Exclude(call'[u], call'[w])
  BY <1>1, <1>2, <1>3 DEF CallsExclude
<1> QED BY <1>3 DEF CallsExclude, Exclude, LinksContext

\* Returning, and going on in the same call.
LEMMA ExcludeMove ==
    ASSUME NEW c, NEW d, NEW x, Exclude(c, x), d.op \in {c.op, "none"}, d.op # "none" => d.f = c.f /\ d.m = c.m,
           c.at # "wait" \/ d.at = "wait", ~LinksContext(d)
    PROVE  Exclude(d, x)
BY DEF Exclude, Locked

\* A call is for a file the driver can have.
LEMMA CallFile ==
    ASSUME ListsInv, NEW t \in Thread, call[t].op # "none"
    PROVE  /\ call[t] \in CallType /\ call[t].f \in File /\ call[t].f \in 1 .. fileCnt
           /\ held \subseteq File /\ "region" \in kern
<1>1. call[t] \in CallType /\ fileCnt \in 0 .. NFile /\ held \subseteq 1 .. fileCnt /\ NFile \in Nat
  BY FilesAssumption DEF ListsInv, FilesTypeOK, CallType
<1>2. FileOK(call[t])
  BY DEF ListsInv, FilesHeld
<1>3. call[t].f \in 1 .. fileCnt
  BY <1>1, <1>2 DEF FileOK, CallType, Kinds
<1>4. "region" \in kern
  BY IdleFacts DEF ListsInv, FilesHeld
<1> QED BY <1>1, <1>3, <1>4 DEF File

\* The calls that meet another one are those RacesKnown tells of.
LEMMA MeetingsKnown ==
    ASSUME ListsInv, NEW t \in Thread, call[t].at # "wait",
           call[t].op = "operation_release" => Has(call[t]) /\ call[t].e \in contexts[call[t].s],
           \/ raced' \subseteq Disturbed(t)
           \/ raced' \subseteq Disturbed(t) \cup Stale(t) /\ call[t].op \in {"open", "release", "send_cmd"}
    PROVE  RacesKnown'
<1>1. ASSUME NEW u \in Thread \ {t}, Disturbs(call[t], call[u])
      PROVE  /\ call[t].op = call[u].op => call[t].op \notin Locked
             /\ \/ call[t].f = call[u].f \/ "release" \in {call[t].op, call[u].op}
                \/ {call[t].op, call[u].op} = {"open"}
  <2> DEFINE c == call[t]
             d == call[u]
  <2>1. Exclude(c, d)
    BY DEF ListsInv, CallsExclude
  <2>2. KeepsContext(d) => d.e \in contexts[d.s] /\ Has(d)
    BY DEF ListsInv, ContextsOwned, SessionsLinked, KeepsSession
  <2>3. c.op = "operation_release" /\ KeepsContext(d) /\ c.e = d.e => c.f = d.f
    <3>1. SUFFICES ASSUME c.op = "operation_release", KeepsContext(d), c.e = d.e PROVE c.f = d.f
      OBVIOUS
    <3>2. c \in CallType /\ d \in CallType /\ c.f \in File /\ d.f \in File
      <4>1. c.op # "none" /\ d.op # "none"
        BY <3>1 DEF KeepsContext
      <4> QED BY <4>1, CallFile
    <3>3. c.s = d.s
      BY <2>2, <3>1, <3>2 DEF ListsInv, ContextsOwned, CallType
    <3> QED BY <2>2, <3>1, <3>2, <3>3 DEF ListsInv, SessionsLinked, Has, CallType
  <2>4. "files" \in Changes(c) => c.op \in {"open", "release"}
    BY DEF Changes
  <2>5. "files" \in Removes(c) => c.op = "release"
    BY DEF Changes, Removes
  <2>6. "files" \in Changes(d) => d.op \in {"open", "release"}
    BY DEF Changes
  <2> HIDE DEF c, d
  <2>7. c.f = d.f \/ "release" \in {c.op, d.op} \/ {c.op, d.op} = {"open"}
    <3>1. Disturbs(c, d)
      BY <1>1 DEF c, d
    <3>2. CASE \E l \in Removes(c) \cap Walks(d) : SameList(l, c, d)
      BY <2>5, <3>2 DEF SameList, SameSession
    <3>3. CASE \E l \in Changes(c) \cap Changes(d) : SameList(l, c, d)
      BY <2>4, <2>6, <3>3 DEF SameList, SameSession
    <3> QED BY <2>3, <3>1, <3>2, <3>3 DEF Disturbs, SameSession
  <2>8. c.op = d.op /\ c.op \in Locked => FALSE
    <3>1. SUFFICES ASSUME c.op = d.op, c.op \in Locked PROVE FALSE
      OBVIOUS
    <3>2. d.at = "wait"
      BY <2>1, <3>1 DEF Exclude, c
    <3>3. Walks(d) = {} /\ Changes(d) = {}
      BY <3>2, <3>1 DEF Walks, Changes, Locked
    <3>4. "sessions" \in Removes(c) => ~KeepsSession(d)
      <4>1. "sessions" \in Changes(c) => c.op \in {"session_open", "session_close"}
        BY DEF Changes
      <4>2. d.op \in {"session_open", "session_close"} => ~KeepsSession(d)
        BY <3>2 DEF KeepsSession, KeepsContext
      <4> QED BY <3>1, <4>1, <4>2 DEF Removes
    <3>5. Disturbs(c, d)
      BY <1>1 DEF c, d
    <3> QED BY <3>1, <3>3, <3>4, <3>5 DEF Disturbs, Locked
  <2> QED BY <2>7, <2>8 DEF c, d
<1>2. ASSUME NEW r \in raced'
      PROVE  \/ r[2] = Idle /\ r[1].op \in {"open", "release", "send_cmd"}
             \/ /\ r[1].op = r[2].op => r[1].op \notin Locked
                /\ \/ r[1].f = r[2].f \/ "release" \in {r[1].op, r[2].op}
                   \/ {r[1].op, r[2].op} = {"open"}
  <2>1. CASE r \in Disturbed(t)
    <3>1. PICK u \in Thread \ {t} : Disturbs(call[t], call[u]) /\ r = <<call[t], call[u]>>
      BY <2>1 DEF Disturbed
    <3> QED BY <1>1, <3>1
  <2>2. CASE r \in Stale(t) /\ call[t].op \in {"open", "release", "send_cmd"}
    BY <2>2 DEF Stale
  <2> QED BY <1>2, <2>1, <2>2
<1> QED BY <1>2 DEF RacesKnown

LEMMA Undisturbed ==
    ASSUME NEW t \in Thread, Disturbed(t) = {}, NEW u \in Thread, u # t
    PROVE  ~Disturbs(call[t], call[u])
BY DEF Disturbed

\* Steps that change neither sessions nor contexts nor memory.
LEMMA ListFrame ==
    ASSUME ListsInv, NEW t \in Thread, NEW d \in CallType, call' = [call EXCEPT ![t] = d],
           UNCHANGED <<sessions, contexts, memory, world>>,
           call[t].op \in {"none", "open", "release"}, d.op \in {"none", "open", "release"}
    PROVE  SessionsLinked' /\ ContextsOwned' /\ BlocksOwned'
<1>1. /\ ~KeepsSession(d) /\ ~KeepsContext(d) /\ ~LinksContext(d)
      /\ ~At(t, "session_close", "unlink") /\ ~At(t, "session_open", "link")
      /\ d.op # "session_open" /\ d.op # "session_close"
  BY DEF KeepsSession, KeepsContext, LinksContext, At
<1>2. FilesTypeOK /\ SessionsLinked /\ ContextsOwned /\ BlocksOwned
  BY DEF ListsInv
<1>3. SessionsLinked'
  BY <1>1, <1>2, SessionsFrame DEF world
<1>4. ContextsOwned'
  BY <1>1, <1>2, ContextsFrame
<1>5. BlocksOwned'
  BY <1>2, BlocksFrame
<1> QED BY <1>3, <1>4, <1>5

LEMMA LoadKeeps ==
    ASSUME ListsInv, otz_client_init \/ otz_client_exit, raced = {}
    PROVE  FilesInv'
<1>1. /\ held = {} /\ held' = {} /\ kern' \in SUBSET {"region", "class", "device", "cdev", "handler"}
      /\ fileCnt' \in 0 .. NFile /\ files' \in SUBSET (1 .. fileCnt') /\ notify' \in BOOLEAN
      /\ UNCHANGED <<sessions, contexts, memory, secure, orphan, call, raced>>
      /\ \A t \in Thread : call[t] = Idle
  <2>1. CASE otz_client_init
    <3>1. Range(Stages) \subseteq {"region", "class", "device", "cdev"}
      BY DEF Stages, Range
    <3>2. kern' \in {kern, Range(Stages) \cup {"handler"}} /\ kern \in SUBSET {"region", "class", "device", "cdev", "handler"}
      BY <2>1 DEF otz_client_init, ListsInv, FilesTypeOK
    <3>3. 0 \in 0 .. NFile
      BY FilesAssumption
    <3>4. kern' \in SUBSET {"region", "class", "device", "cdev", "handler"}
      BY <3>1, <3>2
    <3> QED BY <2>1, <3>3, <3>4 DEF ListsInv, FilesHeld, otz_client_init, world
  <2>2. CASE otz_client_exit
    BY <2>2 DEF ListsInv, FilesTypeOK, otz_client_exit, lists, world
  <2> QED BY <2>1, <2>2
<1>2. FilesTypeOK'
  BY <1>1 DEF ListsInv, FilesTypeOK, memory
<1>3. FilesHeld'
  BY <1>1, IdleFacts DEF FilesHeld, FileOK, Locked
<1>4. SessionsLinked'
  BY <1>1 DEF ListsInv, SessionsLinked, Linked, At, KeepsSession, KeepsContext, Has
<1>5. ContextsOwned' /\ BlocksOwned' /\ CallsExclude'
  BY <1>1 DEF ListsInv, ContextsOwned, BlocksOwned, CallsExclude, Exclude, KeepsContext, LinksContext,
     OnList, memory
<1>6. RacesKnown'
  BY <1>1 DEF RacesKnown
<1> QED BY <1>2, <1>3, <1>4, <1>5, <1>6 DEF FilesInv, ListsInv

LEMMA OpenKeeps ==
    ASSUME ListsInv, NEW t \in Thread, OpenStep(t), raced = {}
    PROVE  FilesInv'
<1> DEFINE c == call[t]
           f == call[t].f
<1>1. /\ call \in [Thread -> CallType] /\ fileCnt \in 0 .. NFile /\ files \subseteq 1 .. fileCnt
      /\ held \subseteq files /\ NFile \in Nat /\ notify \in BOOLEAN /\ FilesTypeOK
  BY FilesAssumption DEF ListsInv, FilesTypeOK, CallType
<1>2. UNCHANGED <<kern, sessions, contexts, memory, world>>
  BY DEF OpenStep
<1>3. \A u \in Thread : FileOK(call[u])
  BY DEF ListsInv, FilesHeld
<1>4. \A u \in Thread : u # t => Exclude(call[t], call[u])
  BY DEF ListsInv, CallsExclude
\* It is enough to say what a step does to the files.
<1>5. ASSUME NEW d \in CallType, call' = [call EXCEPT ![t] = d],
             c.op \in {"none", "open"}, d.op \in {"none", "open"},
             \A u \in Thread : u # t => Exclude(d, call[u]),
             /\ fileCnt' \in 0 .. NFile /\ files' \subseteq 1 .. fileCnt' /\ held' \subseteq files'
             /\ notify' \in BOOLEAN,
             held' # {} => notify', "region" \in kern, FileOK(d)',
             \A u \in Thread : u # t => FileOK(call[u])'
      PROVE  ListsInv'
  <2>1. /\ call' \in [Thread -> CallType] /\ call'[t] = d
        /\ \A u \in Thread : u # t => call'[u] = call[u]
    BY <1>1, <1>5, CallTo
  <2>2. SessionsLinked' /\ ContextsOwned' /\ BlocksOwned'
    BY <1>2, <1>5, ListFrame
  <2>3. CallsExclude'
    BY <1>1, <1>5, ExcludeFrame DEF ListsInv
  <2>4. FilesTypeOK'
    BY <1>1, <1>2, <1>5, <2>1 DEF FilesTypeOK, CallType, memory, world
  <2>5. ASSUME NEW u \in Thread PROVE FileOK(call[u])'
    BY <1>5, <2>1 DEF FileOK
  <2> QED BY <1>2, <1>5, <2>2, <2>3, <2>4, <2>5 DEF ListsInv, FilesHeld
<1>6. ASSUME call[t] = Idle, Loaded, fileCnt < NFile, fileCnt' = fileCnt + 1,
             call' = [call EXCEPT ![t] = [Idle EXCEPT !.op = "open", !.at = "alloc", !.f = fileCnt + 1]],
             UNCHANGED <<files, held, notify, raced>>
      PROVE  FilesInv'
  <2>0. fileCnt + 1 \in 0 .. NFile /\ "open" \in Kinds /\ "alloc" \in Points
    BY <1>1, <1>6 DEF Kinds, Points
  <2>1. PICK d \in CallType : /\ d = [Idle EXCEPT !.op = "open", !.at = "alloc", !.f = fileCnt + 1]
                             /\ d.op = "open" /\ d.at = "alloc" /\ d.f = fileCnt + 1
    <3>1. PICK i \in CallType : i = Idle
      BY IdleFacts
    <3>2. [i EXCEPT !.op = "open", !.at = "alloc", !.f = fileCnt + 1] \in CallType
      BY <2>0 DEF CallType
    <3> QED BY <3>1, <3>2 DEF CallType
  <2>2. call' = [call EXCEPT ![t] = d] /\ c.op = "none" /\ "region" \in kern
    BY <1>6, <2>1, IdleFacts DEF Loaded
  <2>3. \A u \in Thread : u # t => Exclude(d, call[u])
    BY <1>1, <1>3, <2>1 DEF Exclude, FileOK, Locked, LinksContext, CallType
  <2>4. /\ fileCnt' \in 0 .. NFile /\ files' \subseteq 1 .. fileCnt' /\ held' \subseteq files'
        /\ fileCnt + 1 \notin held
    BY <1>1, <1>6
  <2>5. FileOK(d)'
    BY <1>1, <1>6, <2>1, <2>4 DEF FileOK, Locked
  <2>6. \A u \in Thread : u # t => FileOK(call[u])'
    <3>1. ASSUME NEW u \in Thread, u # t PROVE FileOK(call[u])'
      <4>1. PICK x : x = call'[u] /\ x = call[u]
        BY <1>1, <2>1, <2>2, <3>1, CallTo
      <4>2. FileOK(x)
        BY <1>3, <4>1
      <4>3. FileOK(x)'
        BY <1>1, <1>6, <4>2 DEF FileOK
      <4> QED BY <4>1, <4>3 DEF FileOK
    <3> QED BY <3>1
  <2>7. ListsInv'
    BY <1>1, <1>5, <1>6, <2>1, <2>2, <2>3, <2>4, <2>5, <2>6 DEF ListsInv, FilesHeld
  <2> QED BY <1>6, <2>7 DEF FilesInv, RacesKnown
\* The steps of a call that is under way.
<1>7. ASSUME NEW at \in Points, NEW d \in {[call[t] EXCEPT !.at = at], Idle},
             call' = [call EXCEPT ![t] = d], c.op = "open", c.at # "wait",
             fileCnt' = fileCnt,
             raced' = {} =>
                /\ files \subseteq files' /\ files' \subseteq files \cup {f}
                /\ held' \subseteq held \cup {f} /\ held \subseteq held'
                /\ held' \subseteq files' /\ (f \in held' => d = Idle)
                /\ notify' \in BOOLEAN /\ (notify => notify') /\ (held' # {} => notify')
                /\ d # Idle => (at \in {"services", "notify", "register"} => f \in files')
                                /\ (at = "register" => notify')
      PROVE  raced' = {} => ListsInv'
  <2>0. SUFFICES ASSUME raced' = {} PROVE ListsInv'
    OBVIOUS
  <2>1. c \in CallType /\ f \in 1 .. fileCnt /\ "region" \in kern
    BY <1>7, CallFile
  <2>2. /\ d \in CallType /\ d.op \in {"none", "open"}
        /\ d # Idle => d.op = "open" /\ d.at = at /\ d.f = f /\ d.m = c.m
        /\ d = Idle => d.op = "none"
        /\ ~LinksContext(d)
    BY <1>7, <2>1, IdleFacts DEF CallType, LinksContext
  <2>3. \A u \in Thread : u # t => Exclude(d, call[u])
    BY <1>4, <1>7, <2>2, ExcludeMove
  <2>4. /\ fileCnt' \in 0 .. NFile /\ files' \subseteq 1 .. fileCnt' /\ held' \subseteq files'
        /\ notify' \in BOOLEAN
    BY <1>1, <1>7, <2>0, <2>1
  <2>5. FileOK(d)'
    <3>1. f \notin held
      BY <1>3, <1>7 DEF FileOK
    <3> QED BY <1>7, <2>0, <2>1, <2>2, <3>1 DEF FileOK, Locked
  <2>6. ASSUME NEW u \in Thread, u # t PROVE FileOK(call[u])'
    <3>1. PICK x : x = call'[u] /\ x = call[u]
      BY <1>1, <1>7, <2>2, <2>6, CallTo
    <3>2. FileOK(x) /\ (x.op \in {"open", "release"} => x.f # f)
      BY <1>3, <1>4, <1>7, <2>6, <3>1 DEF Exclude
    <3>3. FileOK(x)'
      BY <1>7, <2>0, <3>2 DEF FileOK
    <3> QED BY <3>1, <3>3 DEF FileOK
  <2> QED BY <1>5, <1>7, <2>0, <2>1, <2>2, <2>3, <2>4, <2>5, <2>6
<1>8. ASSUME At(t, "open", "alloc"), MovesTo(t, "link"), UNCHANGED <<fileCnt, files, held, notify, raced>>
      PROVE  FilesInv'
  <2>1. held # {} => notify
    BY DEF ListsInv, FilesHeld
  <2>2. call' = [call EXCEPT ![t] = [call[t] EXCEPT !.at = "link"]] /\ "link" \in Points
    BY <1>8 DEF MovesTo, Points
  <2>3. f \notin held
    BY <1>3, <1>8 DEF At, FileOK
  <2>4. ListsInv'
    BY <1>1, <1>7, <1>8, <2>1, <2>2, <2>3 DEF At
  <2> QED BY <1>8, <2>4 DEF FilesInv, RacesKnown
<1>9. ASSUME At(t, "open", "link"), MovesTo(t, "services"), files' = files \cup {fileCnt},
             raced' = Disturbed(t) \cup IF fileCnt # f THEN Stale(t) ELSE {},
             UNCHANGED <<fileCnt, held, notify>>
      PROVE  FilesInv'
  <2>1. held # {} => notify
    BY DEF ListsInv, FilesHeld
  <2>2. call' = [call EXCEPT ![t] = [call[t] EXCEPT !.at = "services"]] /\ "services" \in Points
    BY <1>9 DEF MovesTo, Points
  <2>3. raced' = {} => fileCnt = f
    BY <1>9 DEF Stale
  <2>4. f \notin held
    BY <1>3, <1>9 DEF At, FileOK
  <2>5. raced' = {} => ListsInv'
    BY <1>1, <1>7, <1>9, <2>1, <2>2, <2>3, <2>4 DEF At
  <2>6. RacesKnown'
    BY <1>9, MeetingsKnown DEF At
  <2> QED BY <2>5, <2>6 DEF FilesInv
<1>10. ASSUME At(t, "open", "services"), MovesTo(t, IF notify THEN "register" ELSE "notify"),
              UNCHANGED <<fileCnt, files, held, notify, raced>>
       PROVE  FilesInv'
  <2>1. (held # {} => notify) /\ f \in files /\ f \notin held
    BY <1>3, <1>10 DEF ListsInv, FilesHeld, FileOK, At
  <2>2. PICK at \in {"register", "notify"} : at = IF notify THEN "register" ELSE "notify"
    BY <1>1
  <2>3. call' = [call EXCEPT ![t] = [call[t] EXCEPT !.at = at]] /\ at \in Points
    BY <1>10, <2>2 DEF MovesTo, Points
  <2>4. at = "register" => notify
    BY <2>2
  <2>5. ListsInv'
    BY <1>1, <1>7, <1>10, <2>1, <2>3, <2>4 DEF At
  <2> QED BY <1>10, <2>5 DEF FilesInv, RacesKnown
<1>11. ASSUME At(t, "open", "notify"), MovesTo(t, "register"), notify' = TRUE,
              raced' = IF notify THEN Stale(t) ELSE {}, UNCHANGED <<fileCnt, files, held>>
       PROVE  FilesInv'
  <2>1. f \in files /\ f \notin held
    BY <1>3, <1>11 DEF FileOK, At
  <2>2. call' = [call EXCEPT ![t] = [call[t] EXCEPT !.at = "register"]] /\ "register" \in Points
    BY <1>11 DEF MovesTo, Points
  <2>3. raced' = {} => ListsInv'
    BY <1>1, <1>7, <1>11, <2>1, <2>2 DEF At
  <2>4. RacesKnown'
    BY <1>11, MeetingsKnown DEF At
  <2> QED BY <2>3, <2>4 DEF FilesInv
<1>12. ASSUME At(t, "open", "register"), Returns(t), held' = held \cup {f},
              UNCHANGED <<fileCnt, files, notify, raced>>
       PROVE  FilesInv'
  <2>1. f \in files /\ notify
    BY <1>3, <1>12 DEF FileOK, At
  <2>2. call' = [call EXCEPT ![t] = Idle] /\ "register" \in Points
    BY <1>12 DEF Returns, Points
  <2>3. ListsInv'
    BY <1>1, <1>7, <1>12, <2>1, <2>2 DEF At
  <2> QED BY <1>12, <2>3 DEF FilesInv, RacesKnown
<1> QED BY <1>6, <1>8, <1>9, <1>10, <1>11, <1>12 DEF OpenStep, otz_client_open

\* What forgetting the sessions S does to the rest.
LEMMA SessionsGone ==
    ASSUME ListsInv, NEW S \in SUBSET Sess,
           sessions' \in [File -> [Service -> Seq(Sess)]],
           \A g \in File, v \in Service :
              IsInjective(sessions'[g][v]) /\ Range(sessions'[g][v]) = Range(sessions[g][v]) \ S
    PROVE  /\ \A s \in Sess : Linked(s)' <=> Linked(s) /\ s \notin S
           /\ \A f \in File, v \in Service : IsInjective(sessions'[f][v])
           /\ \A f, g \in File, v, w \in Service : \A s \in Sess :
                s \in Range(sessions'[f][v]) /\ s \in Range(sessions'[g][w]) => f = g /\ v = w
<1>1. ASSUME NEW s \in Sess PROVE Linked(s)' <=> Linked(s) /\ s \notin S
  <2>1. \A g \in File, v \in Service : s \in Range(sessions'[g][v]) <=> s \in Range(sessions[g][v]) /\ s \notin S
    OBVIOUS
  <2> QED BY <2>1 DEF Linked
<1>2. ASSUME NEW f \in File, NEW g \in File, NEW v \in Service, NEW w \in Service, NEW s \in Sess,
             s \in Range(sessions'[f][v]), s \in Range(sessions'[g][w])
      PROVE  f = g /\ v = w
  <2>1. s \in Range(sessions[f][v]) /\ s \in Range(sessions[g][w])
    BY <1>2
  <2> QED BY <2>1 DEF ListsInv, SessionsLinked
<1> QED BY <1>1, <1>2

\* The blocks D of file f, or none, and those of the sessions S are freed.
Frees(S, f, D) ==
    /\ \A s \in Sess : sesMem'[s] = IF s \in S THEN {} ELSE sesMem[s]
    /\ \A g \in File : devMem'[g] = IF g = f THEN devMem[f] \ D ELSE devMem[g]
    /\ pages' = pages \ (D \cup MemOf(S)) /\ lost' = lost

LEMMA BlocksGone ==
    ASSUME ListsInv, NEW S \in SUBSET Sess, NEW f \in File, NEW D \in {devMem[f], {}},
           NEW t \in Thread, NEW d \in CallType, call' = [call EXCEPT ![t] = d],
           call[t].op # "mmap", d.op # "mmap", Frees(S, f, D)
    PROVE  BlocksOwned'
<1>0. /\ \A s \in Sess : sesMem'[s] = IF s \in S THEN {} ELSE sesMem[s]
      /\ \A g \in File : devMem'[g] = IF g = f THEN devMem[f] \ D ELSE devMem[g]
      /\ pages' = pages \ (D \cup MemOf(S)) /\ lost' = lost
  BY DEF Frees
<1>1. FilesTypeOK /\ BlocksOwned /\ sesMem \in [Sess -> SUBSET Mem] /\ devMem \in [File -> SUBSET Mem]
  BY DEF ListsInv, FilesTypeOK
<1>2. call'[t] = d /\ \A u \in Thread : u # t => call'[u] = call[u]
  BY <1>1, CallTo
<1>3. \A m : m \in MemOf(S) <=> \E s \in S : m \in sesMem[s]
  BY DEF MemOf
<1>4. /\ \A g \in File : devMem'[g] \subseteq devMem[g]
      /\ \A s \in Sess : sesMem'[s] \subseteq sesMem[s]
  BY <1>0
<1>5. \A m \in Mem : m \in pages' <=> m \in pages /\ m \notin D /\ \A s \in S : m \notin sesMem[s]
  BY <1>0, <1>3
<1>6. ASSUME NEW m \in Mem PROVE OnList(m)' <=> OnList(m) /\ m \notin D /\ \A s \in S : m \notin sesMem[s]
  <2>1. OnList(m)' => OnList(m)
    BY <1>4 DEF OnList
  <2>2. \A g \in File : m \in devMem'[g] => m \notin D /\ \A s \in S : m \notin sesMem[s]
    BY <1>0, <1>1, <1>4 DEF BlocksOwned
  <2>3. \A r \in Sess : m \in sesMem'[r] => m \notin D /\ \A s \in S : m \notin sesMem[s]
    BY <1>0, <1>1, <1>4 DEF BlocksOwned
  <2>4. OnList(m) /\ m \notin D /\ (\A s \in S : m \notin sesMem[s]) => OnList(m)'
    BY <1>0 DEF OnList
  <2> QED BY <2>1, <2>2, <2>3, <2>4 DEF OnList
<1>7. \A m \in Mem : OnList(m)' => m \in pages' \ lost'
  BY <1>0, <1>1, <1>5, <1>6 DEF BlocksOwned
<1>8. D \subseteq Mem /\ (\A m \in D : OnList(m)) /\ \A s \in S : \A m \in sesMem[s] : m \in Mem /\ OnList(m)
  BY <1>1 DEF OnList
<1>9. lost' \subseteq pages'
  <2>1. lost \subseteq Mem /\ lost \subseteq pages
    BY <1>1 DEF BlocksOwned, FilesTypeOK
  <2>2. \A m \in lost : ~OnList(m)
    BY <1>1, <2>1 DEF BlocksOwned
  <2> QED BY <1>0, <1>5, <1>8, <2>1, <2>2
<1>10. ASSUME NEW m \in pages' \ lost'
       PROVE  OnList(m)' \/ \E u \in Thread : call'[u].op = "mmap" /\ call'[u].m = m
  <2>1. m \in Mem /\ m \in pages \ lost
    BY <1>0, <1>1 DEF FilesTypeOK
  <2>2. OnList(m) \/ \E u \in Thread : call[u].op = "mmap" /\ call[u].m = m
    BY <1>1, <2>1 DEF BlocksOwned
  <2>3. OnList(m) => OnList(m)'
    BY <1>5, <1>6, <2>1
  <2> QED BY <1>2, <2>2, <2>3
<1>11. ASSUME NEW u \in Thread, call'[u].op = "mmap"
       PROVE  call'[u].at \in {"map", "add"} /\ call'[u].m \in pages' \ lost' /\ ~OnList(call[u].m)'
  <2>1. u # t /\ call'[u] = call[u]
    BY <1>2, <1>11
  <2>2. /\ call[u].at \in {"map", "add"} /\ call[u].m \in pages \ lost /\ ~OnList(call[u].m)
        /\ call[u].m \in Mem
    BY <1>1, <1>11, <2>1 DEF BlocksOwned, FilesTypeOK
  <2>3. PICK m \in Mem : m = call[u].m /\ m = call'[u].m
    BY <2>1, <2>2
  <2>4. ~OnList(m) /\ ~OnList(m)' /\ m \in pages' \ lost'
    BY <1>0, <1>5, <1>6, <1>8, <2>2, <2>3
  <2> QED BY <2>1, <2>2, <2>3, <2>4 DEF OnList
<1>12. /\ \A g, h \in File : \A m \in Mem : m \in devMem'[g] /\ m \in devMem'[h] => g = h
       /\ \A s, r \in Sess : \A m \in Mem : m \in sesMem'[s] /\ m \in sesMem'[r] => s = r
       /\ \A g \in File, s \in Sess : \A m \in Mem : ~(m \in devMem'[g] /\ m \in sesMem'[s])
  <2>1. /\ \A g, h \in File : \A m \in Mem : m \in devMem[g] /\ m \in devMem[h] => g = h
        /\ \A s, r \in Sess : \A m \in Mem : m \in sesMem[s] /\ m \in sesMem[r] => s = r
        /\ \A g \in File, s \in Sess : \A m \in Mem : ~(m \in devMem[g] /\ m \in sesMem[s])
    BY <1>1 DEF BlocksOwned
  <2> QED BY <1>4, <2>1, Zenon
<1> QED BY <1>7, <1>9, <1>10, <1>11, <1>12 DEF BlocksOwned

\* Closing the sessions S, which no other call keeps.
LEMMA SessionsClosed ==
    ASSUME ListsInv, NEW S \in SUBSET Sess, NEW t \in Thread, NEW d \in CallType,
           call' = [call EXCEPT ![t] = d],
           sessions' \in [File -> [Service -> Seq(Sess)]],
           \A g \in File, v \in Service :
              IsInjective(sessions'[g][v]) /\ Range(sessions'[g][v]) = Range(sessions[g][v]) \ S,
           \A s \in S : Linked(s),
           secure \ S \subseteq secure', secure' \subseteq secure, orphan \subseteq orphan',
           (secure' \ orphan') \cap S = {},
           \A u \in Thread : u # t /\ KeepsSession(call[u]) => call[u].s \notin S,
           ~At(t, "session_open", "link"), At(t, "session_close", "unlink") => call[t].s \in S,
           ~KeepsSession(d), d.op \notin {"session_open", "session_close"}
    PROVE  SessionsLinked'
<1>1. FilesTypeOK /\ SessionsLinked
  BY DEF ListsInv
<1>2. /\ call'[t] = d
      /\ \A u \in Thread : u # t => call'[u] = call[u]
  BY <1>1, CallTo
<1>3. /\ \A s \in Sess : Linked(s)' <=> Linked(s) /\ s \notin S
      /\ \A f \in File, v \in Service : IsInjective(sessions'[f][v])
      /\ \A f, g \in File, v, w \in Service : \A s \in Sess :
            s \in Range(sessions'[f][v]) /\ s \in Range(sessions'[g][w]) => f = g /\ v = w
  BY SessionsGone
<1>4. ASSUME NEW s \in Sess, Linked(s)'
      PROVE  s \in secure' \/ \E u \in Thread : At(u, "session_close", "unlink")' /\ call'[u].s = s
  <2>1. Linked(s) /\ s \notin S
    BY <1>3, <1>4
  <2>2. CASE s \in secure
    BY <2>1, <2>2
  <2>3. CASE \E u \in Thread : At(u, "session_close", "unlink") /\ call[u].s = s
    BY <1>2, <2>1, <2>3 DEF At
  <2> QED BY <1>1, <2>1, <2>2, <2>3 DEF SessionsLinked
<1>5. ASSUME NEW s \in secure' \ orphan'
      PROVE  Linked(s)' \/ \E u \in Thread : At(u, "session_open", "link")' /\ call'[u].s = s
  <2>1. s \in secure \ orphan /\ s \notin S /\ s \in Sess
    BY <1>1 DEF FilesTypeOK
  <2>2. CASE Linked(s)
    BY <1>3, <2>1, <2>2
  <2>3. CASE \E u \in Thread : At(u, "session_open", "link") /\ call[u].s = s
    BY <1>2, <2>3 DEF At
  <2> QED BY <1>1, <2>1, <2>2, <2>3 DEF SessionsLinked
<1>6. ASSUME NEW u \in Thread, u # t
      PROVE  /\ KeepsSession(call[u]) => Has(call[u])'
             /\ At(u, "session_open", "link") => call[u].s \in secure' /\ ~Linked(call[u].s)'
             /\ At(u, "session_close", "unlink") => call[u].s \notin secure' \ orphan'
  <2>1. PICK x \in CallType : x = call[u] /\ x = call'[u]
    BY <1>1, <1>2, <1>6 DEF FilesTypeOK, CallType
  <2>2. ASSUME KeepsSession(x) PROVE x.s \in Range(sessions'[x.f][x.v])
    <3>1. Has(x) /\ x.s \notin S /\ x.op # "none"
      BY <1>1, <1>6, <2>1, <2>2 DEF SessionsLinked, KeepsSession, KeepsContext
    <3>2. x.f \in File /\ x.v \in Service
      BY <2>1, <3>1, CallFile DEF CallType
    <3> QED BY <3>1, <3>2 DEF Has
  <2>3. ASSUME x.op = "session_open", x.at = "link" PROVE x.s \in secure' /\ ~Linked(x.s)'
    <3>1. x.s \in secure /\ ~Linked(x.s) /\ x.s \in Sess
      BY <1>1, <2>1, <2>3 DEF SessionsLinked, At, CallType
    <3> QED BY <1>3, <3>1
  <2>4. ASSUME x.op = "session_close", x.at = "unlink" PROVE x.s \notin secure' \ orphan'
    BY <1>1, <2>1, <2>4 DEF SessionsLinked, At
  <2> QED BY <2>1, <2>2, <2>3, <2>4 DEF At, Has, Linked
<1>7. ASSUME NEW u \in Thread
      PROVE  /\ KeepsSession(call[u])' => Has(call[u])'
             /\ At(u, "session_open", "link")' => call'[u].s \in secure' /\ ~Linked(call[u].s)'
             /\ At(u, "session_close", "unlink")' => call'[u].s \notin secure' \ orphan'
  <2>1. CASE u = t
    BY <1>2, <2>1 DEF At, KeepsSession, KeepsContext
  <2>2. CASE u # t
    BY <1>2, <1>6, <2>2 DEF At, KeepsSession, KeepsContext, Has, Linked
  <2> QED BY <2>1, <2>2
<1> QED BY <1>3, <1>4, <1>5, <1>7 DEF SessionsLinked

LEMMA ContextsClosed ==
    ASSUME ListsInv, NEW S \in SUBSET Sess, NEW t \in Thread, NEW d \in CallType,
           call' = [call EXCEPT ![t] = d],
           contexts' = [s \in Sess |-> IF s \in S THEN {} ELSE contexts[s]],
           \A u \in Thread : u # t /\ KeepsContext(call[u]) => call[u].s \notin S,
           ~KeepsContext(d), ~LinksContext(d)
    PROVE  ContextsOwned'
<1>1. FilesTypeOK /\ ContextsOwned
  BY DEF ListsInv
<1>2. /\ call'[t] = d
      /\ \A u \in Thread : u # t => call'[u] = call[u]
  BY <1>1, CallTo
<1>3. \A s \in Sess : contexts'[s] = IF s \in S THEN {} ELSE contexts[s]
  OBVIOUS
<1>4. ASSUME NEW u \in Thread
      PROVE  /\ KeepsContext(call'[u]) => call'[u].e \in contexts'[call'[u].s]
             /\ LinksContext(call'[u]) => \A s \in Sess : call'[u].e \notin contexts'[s]
  <2>1. CASE u = t
    BY <1>2, <2>1
  <2>2. CASE u # t
    <3>1. call'[u] = call[u] /\ call[u].s \in Sess
      BY <1>1, <1>2, <2>2 DEF FilesTypeOK
    <3> QED BY <1>1, <1>3, <2>2, <3>1 DEF ContextsOwned
  <2> QED BY <2>1, <2>2
<1>5. \A s, r \in Sess : \A e \in Enc : e \in contexts'[s] /\ e \in contexts'[r] => s = r
  BY <1>1, <1>3 DEF ContextsOwned
<1> QED BY <1>4, <1>5 DEF ContextsOwned, KeepsContext, LinksContext

LEMMA RangeIn ==
    ASSUME ListsInv, NEW f \in File, NEW v \in Service
    PROVE  sessions[f][v] \in Seq(Sess) /\ Range(sessions[f][v]) \subseteq Sess
BY DEF ListsInv, FilesTypeOK, Range

\* Releasing a file: what each of its steps does to the files.
OthersStay(t, d) ==
    \A u \in Thread : u # t =>
       /\ call[u].op \in Locked \cup {"mmap", "operation_release"} => call[u].f \in held'
       /\ call[u].op = "open" /\ call[u].at \in {"services", "notify", "register"} => call[u].f \in files'
       /\ call[u].op = "open" /\ call[u].at = "register" => notify'
       /\ call[u].op \in {"open", "release"} /\ d.op = "release" => call[u].f # d.f

LEMMA ReleaseHeld ==
    ASSUME ListsInv, NEW t \in Thread, NEW d \in CallType, call' = [call EXCEPT ![t] = d],
           UNCHANGED <<kern, fileCnt>>, "region" \in kern, d.op \in {"release", "none"},
           held' \subseteq held, files' \subseteq files, held' \subseteq files', held' # {} => notify',
           d.op = "release" => d.f \in (1 .. fileCnt) \ held',
           OthersStay(t, d)
    PROVE  FilesHeld' /\ CallsExclude'
<1>1. FilesTypeOK /\ CallsExclude /\ \A u \in Thread : FileOK(call[u])
  BY DEF ListsInv, FilesHeld
<1>2. call'[t] = d /\ \A u \in Thread : u # t => call'[u] = call[u]
  BY <1>1, CallTo
<1>3. ASSUME NEW u \in Thread PROVE FileOK(call[u])'
  BY <1>1, <1>2 DEF FileOK, Locked, OthersStay
<1>4. \A u \in Thread : u # t => Exclude(d, call[u])
  BY DEF Exclude, Locked, LinksContext, OthersStay
<1> QED BY <1>1, <1>3, <1>4, ExcludeFrame DEF FilesHeld

LEMMA ReleaseKeeps ==
    ASSUME ListsInv, NEW t \in Thread, ReleaseStep(t), raced = {}
    PROVE  FilesInv'
<1> DEFINE f == call[t].f
<1>1. /\ FilesTypeOK /\ call \in [Thread -> CallType] /\ held \subseteq files /\ files \subseteq 1 .. fileCnt
      /\ fileCnt \in 0 .. NFile /\ NFile \in Nat /\ (held # {} => notify /\ "region" \in kern)
      /\ UNCHANGED <<kern, fileCnt>>
  BY FilesAssumption DEF ListsInv, FilesTypeOK, FilesHeld, CallType, ReleaseStep
<1>2. \A u \in Thread : FileOK(call[u])
  BY DEF ListsInv, FilesHeld
<1>3. \A u \in Thread : u # t => Exclude(call[t], call[u])
  BY DEF ListsInv, CallsExclude
<1>4. ASSUME call[t].op = "release"
      PROVE  /\ call[t] \in CallType /\ f \in File /\ f \in (1 .. fileCnt) \ held /\ "region" \in kern
             /\ \A u \in Thread : u # t /\ call[u].op # "none" => call[u].f # f
             /\ \A u \in Thread : call[u].op \in Locked \cup {"mmap", "operation_release"} => call[u].f \in held
             /\ \A u \in Thread : call[u].op = "open" /\ call[u].at \in {"services", "notify", "register"}
                                  => call[u].f \in files
             /\ \A u \in Thread : call[u].op = "open" /\ call[u].at = "register" => notify
  <2>1. call[t] \in CallType /\ f \in File /\ f \in (1 .. fileCnt) \ held /\ "region" \in kern
    BY <1>2, <1>4, CallFile DEF FileOK
  <2>2. ASSUME NEW u \in Thread, u # t, call[u].op # "none" PROVE call[u].f # f
    <3>1. CASE call[u].op \in {"open", "release"}
      BY <1>3, <1>4, <2>2, <3>1 DEF Exclude
    <3>2. CASE call[u].op \in Locked \cup {"mmap", "operation_release"}
      BY <1>2, <2>1, <3>2 DEF FileOK
    <3> QED BY <1>1, <2>2, <3>1, <3>2 DEF CallType, Kinds
  <2> QED BY <1>2, <2>1, <2>2 DEF FileOK
<1>5. ASSUME NEW g \in held, call[t] = Idle, \A u \in Thread : call[u].f # g, held' = held \ {g},
             call' = [call EXCEPT ![t] = [Idle EXCEPT !.op = "release", !.at = "exit", !.f = g]],
             UNCHANGED <<files, sessions, contexts, memory, world, notify, raced>>
      PROVE  FilesInv'
  <2>0. g \in 0 .. NFile /\ g \in 1 .. fileCnt /\ "release" \in Kinds /\ "exit" \in Points
    BY <1>1 DEF Kinds, Points
  <2>1. PICK d \in CallType : /\ d = [Idle EXCEPT !.op = "release", !.at = "exit", !.f = g]
                             /\ d.op = "release" /\ d.at = "exit" /\ d.f = g
    <3>1. PICK i \in CallType : i = Idle
      BY IdleFacts
    <3>2. [i EXCEPT !.op = "release", !.at = "exit", !.f = g] \in CallType
      BY <2>0 DEF CallType
    <3> QED BY <3>1, <3>2 DEF CallType
  <2>2. call' = [call EXCEPT ![t] = d] /\ call[t].op = "none"
    BY <1>5, <2>1, IdleFacts
  <2>3. SessionsLinked' /\ ContextsOwned' /\ BlocksOwned'
    BY <1>5, <2>1, <2>2, ListFrame
  <2>4. FilesHeld' /\ CallsExclude'
    <3>1. OthersStay(t, d)
      BY <1>2, <1>5, <2>1 DEF FileOK, OthersStay
    <3>2. /\ held' \subseteq held /\ files' \subseteq files /\ held' \subseteq files' /\ (held' # {} => notify')
          /\ (d.op = "release" => d.f \in (1 .. fileCnt) \ held') /\ "region" \in kern
      BY <1>1, <1>5, <2>0, <2>1
    <3> QED BY <1>1, <2>1, <2>2, <3>1, <3>2, ReleaseHeld
  <2>5. FilesTypeOK'
    <3>1. call' \in [Thread -> CallType]
      BY <1>1, <2>1, <2>2, CallTo
    <3> QED BY <1>1, <1>5, <3>1 DEF FilesTypeOK, CallType, memory, world
  <2> QED BY <1>5, <2>3, <2>4, <2>5 DEF FilesInv, ListsInv, RacesKnown
<1>6. ASSUME At(t, "release", "exit"), MovesTo(t, "unlink"),
             Closed(SessionsOf(f)), ClosingSMC(SessionsOf(f)),
             sessions' = [sessions EXCEPT ![f] = [v \in Service |-> <<>>]],
             devMem' = [devMem EXCEPT ![f] = {}],
             pages' = pages \ (devMem[f] \cup MemOf(SessionsOf(f))),
             UNCHANGED <<files, held, lost, notify, raced>>
      PROVE  FilesInv'
  <2> DEFINE S == SessionsOf(f)
             d == [call[t] EXCEPT !.at = "unlink"]
  <2>1. call[t].op = "release" /\ call[t].at = "exit" /\ call' = [call EXCEPT ![t] = d]
    BY <1>6 DEF At, MovesTo
  <2>2. /\ call[t] \in CallType /\ f \in File /\ f \in (1 .. fileCnt) \ held /\ "region" \in kern
        /\ \A u \in Thread : u # t /\ call[u].op # "none" => call[u].f # f
        /\ \A u \in Thread : call[u].op \in Locked \cup {"mmap", "operation_release"} => call[u].f \in held
        /\ \A u \in Thread : call[u].op = "open" /\ call[u].at \in {"services", "notify", "register"}
                             => call[u].f \in files
        /\ \A u \in Thread : call[u].op = "open" /\ call[u].at = "register" => notify
    BY <1>4, <2>1
  <2>3. /\ d \in CallType /\ d.op = "release" /\ d.at = "unlink" /\ d.f = f
        /\ ~KeepsSession(d) /\ ~KeepsContext(d) /\ ~LinksContext(d)
    BY <2>1, <2>2 DEF CallType, Points, KeepsSession, KeepsContext, LinksContext
  <2>4. \A s : s \in S <=> \E v \in Service : s \in Range(sessions[f][v])
    BY DEF SessionsOf
  <2>5. S \in SUBSET Sess /\ \A s \in S : Linked(s)
    BY <2>2, <2>4, RangeIn DEF Linked
  <2>6. \A u \in Thread : u # t /\ KeepsSession(call[u]) => call[u].s \notin S
    <3>1. ASSUME NEW u \in Thread, u # t, KeepsSession(call[u]), call[u].s \in S PROVE FALSE
      <4>1. call[u].op # "none" /\ Has(call[u])
        BY <3>1 DEF KeepsSession, KeepsContext, ListsInv, SessionsLinked
      <4>2. call[u].f # f /\ call[u].f \in File /\ call[u].v \in Service /\ call[u].s \in Sess
        BY <2>2, <3>1, <4>1, CallFile DEF CallType
      <4>3. PICK v \in Service : call[u].s \in Range(sessions[f][v])
        BY <2>4, <3>1
      <4> QED BY <2>2, <4>1, <4>2, <4>3 DEF Has, ListsInv, SessionsLinked
    <3> QED BY <3>1
  <2>7. \A u \in Thread : u # t /\ KeepsContext(call[u]) => call[u].s \notin S
    BY <2>6 DEF KeepsSession
  <2> HIDE DEF S, d
  <2>8. /\ sessions \in [File -> [Service -> Seq(Sess)]] /\ devMem \in [File -> SUBSET Mem]
        /\ sessions' \in [File -> [Service -> Seq(Sess)]]
        /\ \A g \in File, v \in Service : sessions'[g][v] = IF g = f THEN <<>> ELSE sessions[g][v]
    <3>1. sessions \in [File -> [Service -> Seq(Sess)]] /\ devMem \in [File -> SUBSET Mem]
      BY <1>1 DEF FilesTypeOK
    <3>2. [v \in Service |-> <<>>] \in [Service -> Seq(Sess)]
      OBVIOUS
    <3> QED BY <1>6, <3>1, <3>2
  <2>9. ASSUME NEW g \in File, NEW v \in Service
        PROVE  IsInjective(sessions'[g][v]) /\ Range(sessions'[g][v]) = Range(sessions[g][v]) \ S
    <3>1. CASE g = f
      BY <2>4, <2>8, <3>1, EmptyFacts
    <3>2. CASE g # f
      <4>1. Range(sessions[g][v]) \cap S = {}
        BY <2>2, <2>4, <3>2, RangeIn DEF ListsInv, SessionsLinked
      <4>2. IsInjective(sessions[g][v])
        BY DEF ListsInv, SessionsLinked
      <4> QED BY <2>8, <3>2, <4>1, <4>2
    <3> QED BY <3>1, <3>2
  <2>10. /\ secure \ S \subseteq secure' /\ secure' \subseteq secure /\ orphan \subseteq orphan'
         /\ (secure' \ orphan') \cap S = {} /\ orphan' \subseteq orphan \cup S
    BY <1>6 DEF ClosingSMC, S
  <2>11. SessionsLinked'
    BY <2>1, <2>3, <2>5, <2>6, <2>8, <2>9, <2>10, SessionsClosed DEF At
  <2>12. ContextsOwned'
    <3>1. contexts' = [s \in Sess |-> IF s \in S THEN {} ELSE contexts[s]]
      BY <1>6 DEF Closed, S
    <3> QED BY <2>1, <2>3, <2>5, <2>7, <3>1, ContextsClosed
  <2>13. BlocksOwned'
    <3>1. /\ \A s \in Sess : sesMem'[s] = IF s \in S THEN {} ELSE sesMem[s]
          /\ \A g \in File : devMem'[g] = IF g = f THEN devMem[f] \ devMem[f] ELSE devMem[g]
          /\ pages' = pages \ (devMem[f] \cup MemOf(S)) /\ lost' = lost
      BY <1>6, <2>2, <2>8 DEF Closed, S
    <3>2. Frees(S, f, devMem[f])
      BY <3>1 DEF Frees
    <3>3. call[t].op # "mmap" /\ d.op # "mmap" /\ devMem[f] \in {devMem[f], {}}
      BY <2>1, <2>3
    <3> QED BY <2>1, <2>2, <2>3, <2>5, <3>2, <3>3, BlocksGone
  <2>14. FilesHeld' /\ CallsExclude'
    <3>1. OthersStay(t, d)
      BY <1>6, <2>2, <2>3 DEF OthersStay
    <3>2. /\ held' \subseteq held /\ files' \subseteq files /\ held' \subseteq files' /\ (held' # {} => notify')
          /\ (d.op = "release" => d.f \in (1 .. fileCnt) \ held')
      BY <1>1, <1>6, <2>2, <2>3
    <3> QED BY <1>1, <2>1, <2>2, <2>3, <3>1, <3>2, ReleaseHeld
  <2>15. FilesTypeOK'
    <3>1. call' \in [Thread -> CallType]
      BY <1>1, <2>1, <2>3, CallTo
    <3>2. contexts' \in [Sess -> SUBSET Enc] /\ sesMem' \in [Sess -> SUBSET Mem]
      BY <1>1, <1>6 DEF Closed, FilesTypeOK
    <3>3. secure' \in SUBSET Sess /\ orphan' \in SUBSET Sess
      BY <1>1, <2>5, <2>10 DEF FilesTypeOK
    <3>4. devMem' \in [File -> SUBSET Mem] /\ pages' \in SUBSET Mem
      BY <1>1, <1>6, <2>8 DEF FilesTypeOK
    <3> QED BY <1>1, <1>6, <2>8, <3>1, <3>2, <3>3, <3>4 DEF FilesTypeOK, CallType
  <2> QED BY <1>6, <2>11, <2>12, <2>13, <2>14, <2>15 DEF FilesInv, ListsInv, RacesKnown
<1>7. ASSUME At(t, "release", "unlink"), files' = files \ {f}, Changed(t),
             IF files' = {} THEN MovesTo(t, "last") ELSE Returns(t),
             UNCHANGED <<held, sessions, contexts, memory, world, notify>>
      PROVE  FilesInv'
  <2>1. call[t].op = "release" /\ call[t].at = "unlink"
    BY <1>7 DEF At
  <2>2. /\ call[t] \in CallType /\ f \in File /\ f \in (1 .. fileCnt) \ held /\ "region" \in kern
        /\ \A u \in Thread : u # t /\ call[u].op # "none" => call[u].f # f
        /\ \A u \in Thread : call[u].op \in Locked \cup {"mmap", "operation_release"} => call[u].f \in held
        /\ \A u \in Thread : call[u].op = "open" /\ call[u].at \in {"services", "notify", "register"}
                             => call[u].f \in files
        /\ \A u \in Thread : call[u].op = "open" /\ call[u].at = "register" => notify
    BY <1>4, <2>1
  <2>3. PICK d \in CallType : call' = [call EXCEPT ![t] = d] /\ d.op \in {"release", "none"}
                             /\ (d.op = "release" => d.f = f)
    <3>1. CASE call' = [call EXCEPT ![t].at = "last"]
      <4>1. [call[t] EXCEPT !.at = "last"] \in CallType
        BY <2>2 DEF CallType, Points
      <4> QED BY <2>1, <2>2, <3>1, <4>1 DEF CallType
    <3>2. CASE call' = [call EXCEPT ![t] = Idle]
      BY <3>2, IdleFacts
    <3> QED BY <1>7, <3>1, <3>2 DEF MovesTo, Returns
  <2>4. SessionsLinked' /\ ContextsOwned' /\ BlocksOwned'
    BY <1>7, <2>1, <2>3, ListFrame
  <2>5. FilesHeld' /\ CallsExclude'
    <3>1. OthersStay(t, d)
      BY <1>7, <2>2, <2>3 DEF OthersStay
    <3>2. /\ held' \subseteq held /\ files' \subseteq files /\ held' \subseteq files' /\ (held' # {} => notify')
          /\ (d.op = "release" => d.f \in (1 .. fileCnt) \ held')
      BY <1>1, <1>7, <2>2, <2>3
    <3> QED BY <1>1, <2>2, <2>3, <3>1, <3>2, ReleaseHeld
  <2>6. FilesTypeOK'
    <3>1. call' \in [Thread -> CallType]
      BY <1>1, <2>3, CallTo
    <3>2. files' \in SUBSET (1 .. fileCnt') /\ held' \in SUBSET files'
      BY <1>1, <1>7, <2>2
    <3> QED BY <1>1, <1>7, <3>1, <3>2 DEF FilesTypeOK, CallType, memory, world
  <2>7. RacesKnown'
    BY <1>7, <2>1, MeetingsKnown DEF Changed
  <2> QED BY <2>4, <2>5, <2>6, <2>7 DEF FilesInv, ListsInv
<1>8. ASSUME At(t, "release", "last"), Returns(t), notify' = FALSE,
             raced' = IF files # {} THEN Stale(t) ELSE {}, UNCHANGED <<lists, memory, world>>
      PROVE  FilesInv'
  <2>1. call[t].op = "release" /\ call[t].at = "last" /\ call' = [call EXCEPT ![t] = Idle]
    BY <1>8 DEF At, Returns
  <2>2. RacesKnown'
    BY <1>8, <2>1, MeetingsKnown
  <2>3. ASSUME files = {} PROVE ListsInv'
    <3>1. UNCHANGED <<sessions, contexts, memory, world>> /\ files' = {} /\ held' = {} /\ held = {}
      BY <1>1, <1>8, <2>3 DEF lists
    <3>2. SessionsLinked' /\ ContextsOwned' /\ BlocksOwned'
      BY <2>1, <3>1, IdleFacts, ListFrame
    <3>3. FilesHeld' /\ CallsExclude'
      <4>1. OthersStay(t, Idle)
        BY <1>4, <2>1, <2>3, <3>1, IdleFacts DEF OthersStay
      <4> QED BY <1>1, <1>4, <2>1, <2>3, <3>1, <4>1, IdleFacts, ReleaseHeld
    <3>4. FilesTypeOK'
      <4>1. call' \in [Thread -> CallType]
        BY <1>1, <2>1, IdleFacts, CallTo
      <4> QED BY <1>1, <1>8, <3>1, <4>1 DEF FilesTypeOK, CallType, memory, world
    <3> QED BY <3>2, <3>3, <3>4 DEF ListsInv
  <2>4. raced' = {} => files = {}
    BY <1>8 DEF Stale
  <2> QED BY <2>2, <2>3, <2>4 DEF FilesInv
<1> QED BY <1>5, <1>6, <1>7, <1>8 DEF ReleaseStep, otz_client_release

\* Steps of an ioctl or an mmap.
Client == Locked \cup {"mmap", "operation_release"}

LEMMA ReturnFacts ==
    ASSUME ListsInv, NEW t \in Thread, Returns(t)
    PROVE  /\ call' = [call EXCEPT ![t] = Idle] /\ FileOK(Idle)
           /\ \A u \in Thread : u # t => Exclude(Idle, call[u])
BY IdleFacts DEF Returns, FileOK, Exclude, LinksContext, Locked

LEMMA MoveFacts ==
    ASSUME ListsInv, NEW t \in Thread, call[t].op \in Client, NEW at \in Points, MovesTo(t, at)
    PROVE  \E d \in CallType :
              /\ call' = [call EXCEPT ![t] = d] /\ d = [call[t] EXCEPT !.at = at] /\ d.at = at
              /\ d.op = call[t].op /\ d.f = call[t].f /\ d.v = call[t].v /\ d.s = call[t].s
              /\ d.e = call[t].e /\ d.m = call[t].m
              /\ FileOK(d)
              /\ (call[t].at # "wait" \/ at = "wait") /\ ~LinksContext(d)
                    => \A u \in Thread : u # t => Exclude(d, call[u])
<1> DEFINE c == call[t]
<1>1. c \in CallType /\ FileOK(c)
  <2>1. c.op # "none"
    BY DEF Client, Locked
  <2> QED BY <2>1, CallFile DEF ListsInv, FilesHeld
<1>2. \A u \in Thread : u # t => Exclude(c, call[u])
  BY DEF ListsInv, CallsExclude
<1>3. c.op \in Client /\ call' = [call EXCEPT ![t].at = at]
  BY DEF MovesTo
<1> HIDE DEF c
<1>4. PICK d \in CallType :
         /\ d = [c EXCEPT !.at = at] /\ d.at = at /\ d.op = c.op /\ d.f = c.f /\ d.v = c.v /\ d.s = c.s
         /\ d.e = c.e /\ d.m = c.m
  <2>1. [c EXCEPT !.at = at] \in CallType
    BY <1>1 DEF CallType
  <2> QED BY <1>1, <2>1 DEF CallType
<1>5. FileOK(d)
  BY <1>1, <1>3, <1>4 DEF FileOK, Client, Locked
<1>6. call' = [call EXCEPT ![t] = d]
  BY <1>3, <1>4 DEF c
<1>7. ASSUME c.at # "wait" \/ at = "wait", ~LinksContext(d), NEW u \in Thread, u # t PROVE Exclude(d, call[u])
  BY <1>2, <1>4, <1>7, ExcludeMove
<1> QED BY <1>4, <1>5, <1>6, <1>7 DEF c

\* A step that changes nothing but where its thread is.
LEMMA QuietKeeps ==
    ASSUME ListsInv, NEW t \in Thread, NEW d \in CallType, call' = [call EXCEPT ![t] = d],
           UNCHANGED <<kern, fileCnt, notify, lists, memory, world>>, "region" \in kern, FileOK(d),
           \A u \in Thread : u # t => Exclude(d, call[u]),
           call[t].op # "mmap", d.op # "mmap",
           ~At(t, "session_close", "unlink"), ~At(t, "session_open", "link"),
           KeepsSession(d) => Has(d), ~(d.op = "session_open" /\ d.at = "link"),
           ~(d.op = "session_close" /\ d.at = "unlink"),
           KeepsContext(d) => d.e \in contexts[d.s],
           LinksContext(d) => \A s \in Sess : d.e \notin contexts[s]
    PROVE  ListsInv'
<1>1. FilesTypeOK /\ FilesHeld /\ SessionsLinked /\ ContextsOwned /\ BlocksOwned /\ CallsExclude
  BY DEF ListsInv
<1>2. UNCHANGED <<kern, fileCnt, files, held, notify>> /\ UNCHANGED <<sessions, secure, orphan>>
      /\ UNCHANGED <<contexts>> /\ UNCHANGED memory
  BY DEF lists, world
<1>3. FilesHeld'
  BY <1>1, <1>2, FilesFrame
<1>4. SessionsLinked'
  BY <1>1, <1>2, SessionsFrame
<1>5. ContextsOwned'
  BY <1>1, <1>2, ContextsFrame
<1>6. BlocksOwned'
  BY <1>1, <1>2, BlocksFrame
<1>7. CallsExclude'
  BY <1>1, ExcludeFrame
<1>8. FilesTypeOK'
  <2>1. call' \in [Thread -> CallType]
    BY <1>1, CallTo
  <2> QED BY <1>1, <1>2, <2>1 DEF FilesTypeOK, CallType, memory
<1> QED BY <1>3, <1>4, <1>5, <1>6, <1>7, <1>8 DEF ListsInv

\* Steps that leave the files alone.
LEMMA ClientFrame ==
    ASSUME ListsInv, NEW t \in Thread, NEW d \in CallType, call' = [call EXCEPT ![t] = d],
           UNCHANGED <<kern, fileCnt, files, held, notify>>, "region" \in kern, FileOK(d),
           \A u \in Thread : u # t => Exclude(d, call[u]),
           sessions' \in [File -> [Service -> Seq(Sess)]], contexts' \in [Sess -> SUBSET Enc],
           pages' \in SUBSET Mem, lost' \in SUBSET Mem,
           devMem' \in [File -> SUBSET Mem], sesMem' \in [Sess -> SUBSET Mem],
           secure' \in SUBSET Sess, orphan' \in SUBSET Sess
    PROVE  FilesHeld' /\ CallsExclude' /\ FilesTypeOK'
<1>1. FilesTypeOK /\ FilesHeld /\ CallsExclude
  BY DEF ListsInv
<1>2. call' \in [Thread -> CallType]
  BY <1>1, CallTo
<1>3. FilesHeld' /\ CallsExclude'
  BY <1>1, FilesFrame, ExcludeFrame
<1>4. FilesTypeOK'
  BY <1>1, <1>2 DEF FilesTypeOK, CallType
<1> QED BY <1>3, <1>4

LEMMA BeginsKeeps ==
    ASSUME ListsInv, NEW t \in Thread, Begins(t), UNCHANGED <<kern, fileCnt, notify>>
    PROVE  ListsInv'
<1>1. PICK d \in Request : d.f \in held /\ Unlocked(d.op) /\ call' = [call EXCEPT ![t] = d]
  BY DEF Begins
<1>2. d \in CallType /\ d.at = "walk" /\ d.op \in Locked \cup {"operation_release"} /\ call[t].op = "none"
  <2>1. /\ d \in [op : Locked \cup {"operation_release"}, at : {"walk"}, f : File, v : Service,
                  s : Sess, e : Enc, m : Mem]
    <3>1. Idle.s \in Sess /\ Idle.e \in Enc /\ Idle.m \in Mem
      BY IdleFacts DEF CallType
    <3> HIDE DEF Idle
    <3> QED BY <3>1 DEF Request, Locked
  <2>2. File \subseteq 0 .. NFile
    BY FilesAssumption DEF File
  <2>3. call[t].op = "none"
    BY IdleFacts DEF Begins
  <2> QED BY <2>1, <2>2, <2>3 DEF CallType, Kinds, Points
<1>3. "region" \in kern /\ FileOK(d)
  BY <1>1, <1>2 DEF ListsInv, FilesHeld, FileOK, Locked
<1>4. \A u \in Thread : u # t => Exclude(d, call[u])
  BY <1>1, <1>2 DEF Exclude, Unlocked, LinksContext, Locked
<1>5. ~KeepsSession(d) /\ ~KeepsContext(d) /\ ~LinksContext(d) /\ d.op # "mmap"
  BY <1>2 DEF KeepsSession, KeepsContext, LinksContext, Locked
<1>6. UNCHANGED <<kern, fileCnt, notify, lists, memory, world>>
  BY DEF Begins
<1>7. ~At(t, "session_close", "unlink") /\ ~At(t, "session_open", "link")
  BY <1>2 DEF At
<1> QED BY <1>1, <1>2, <1>3, <1>4, <1>5, <1>6, <1>7, QuietKeeps

LEMMA EndsKeeps ==
    ASSUME ListsInv, NEW t \in Thread, Ends(t), UNCHANGED <<kern, fileCnt, notify>>
    PROVE  ListsInv'
<1>1. /\ call[t].op # "mmap" /\ ~At(t, "session_close", "unlink") /\ ~At(t, "session_open", "link")
  BY DEF Ends, At, ListsInv, BlocksOwned
<1>2. "region" \in kern
  BY IdleFacts DEF Ends, ListsInv, FilesHeld
<1>3. UNCHANGED <<kern, fileCnt, notify, lists, memory, world>> /\ Returns(t)
  BY DEF Ends
<1> QED BY <1>1, <1>2, <1>3, IdleFacts, ReturnFacts, QuietKeeps

\* What the change of one thread, undisturbed, meets: no other call keeps the
\* session it forgets.
LEMMA KeptElsewhere ==
    ASSUME ListsInv, NEW t \in Thread, Disturbed(t) = {}, Has(call[t]), call[t].op # "none",
           "sessions" \in Removes(call[t])
    PROVE  \A u \in Thread : u # t /\ KeepsSession(call[u]) => call[u].s # call[t].s
<1>1. ASSUME NEW u \in Thread, u # t, KeepsSession(call[u]), call[u].s = call[t].s PROVE FALSE
  <2>1. call[u].op # "none" /\ Has(call[u])
    BY <1>1 DEF KeepsSession, KeepsContext, ListsInv, SessionsLinked
  <2>2. /\ call[u].f \in File /\ call[u].v \in Service /\ call[u].s \in Sess
        /\ call[t].f \in File /\ call[t].v \in Service
    BY <2>1, CallFile DEF CallType
  <2>3. SameSession(call[t], call[u])
    BY <1>1, <2>1, <2>2 DEF Has, ListsInv, SessionsLinked, SameSession
  <2>4. ~Disturbs(call[t], call[u])
    BY <1>1, Undisturbed
  <2> QED BY <1>1, <2>3, <2>4 DEF Disturbs
<1> QED BY <1>1

Unlinks(f, v, s) == sessions' = [sessions EXCEPT ![f][v] = RemoveFirst(sessions[f][v], s)]

LEMMA UnlinkFacts ==
    ASSUME ListsInv, NEW f \in File, NEW v \in Service, NEW s \in Sess, s \in Range(sessions[f][v]),
           Unlinks(f, v, s)
    PROVE  /\ sessions' \in [File -> [Service -> Seq(Sess)]]
           /\ \A g \in File, w \in Service :
                 IsInjective(sessions'[g][w]) /\ Range(sessions'[g][w]) = Range(sessions[g][w]) \ {s}
<1> DEFINE q == sessions[f][v]
<1>1. sessions \in [File -> [Service -> Seq(Sess)]] /\ q \in Seq(Sess) /\ IsInjective(q)
  BY DEF ListsInv, FilesTypeOK, SessionsLinked
<1> HIDE DEF q
<1>2. /\ RemoveFirst(q, s) \in Seq(Sess) /\ IsInjective(RemoveFirst(q, s))
      /\ Range(RemoveFirst(q, s)) = Range(q) \ {s}
  BY <1>1, RemoveFirstFacts
<1>3. sessions' = [sessions EXCEPT ![f][v] = RemoveFirst(q, s)]
  BY DEF q, Unlinks
<1>4. sessions' \in [File -> [Service -> Seq(Sess)]]
  BY <1>1, <1>2, <1>3
<1>5. ASSUME NEW g \in File, NEW w \in Service
      PROVE  IsInjective(sessions'[g][w]) /\ Range(sessions'[g][w]) = Range(sessions[g][w]) \ {s}
  <2>1. sessions'[g][w] = IF g = f /\ w = v THEN RemoveFirst(q, s) ELSE sessions[g][w]
    BY <1>1, <1>3
  <2>2. CASE g = f /\ w = v
    BY <1>2, <2>1, <2>2 DEF q
  <2>3. CASE ~(g = f /\ w = v)
    <3>1. s \notin Range(sessions[g][w]) /\ IsInjective(sessions[g][w])
      BY <2>3 DEF ListsInv, SessionsLinked
    <3> QED BY <2>1, <2>3, <3>1
  <2> QED BY <2>2, <2>3
<1> QED BY <1>4, <1>5

LEMMA SessionOpenKeeps ==
    ASSUME ListsInv, NEW t \in Thread, otz_client_session_open(t), UNCHANGED <<kern, fileCnt, notify>>,
           raced = {}
    PROVE  FilesInv'
<1> DEFINE c == call[t]
<1>1. c.op = "session_open" /\ c.op \in Client
  BY DEF otz_client_session_open, At, Client, Locked
<1>2. /\ c \in CallType /\ c.f \in File /\ c.v \in Service /\ c.s \in Sess /\ "region" \in kern
      /\ FilesTypeOK /\ SessionsLinked /\ FileOK(c)
      /\ \A u \in Thread : u # t => Exclude(c, call[u])
  BY <1>1, CallFile DEF CallType, ListsInv, FilesHeld, CallsExclude
<1>3. /\ sessions \in [File -> [Service -> Seq(Sess)]] /\ contexts \in [Sess -> SUBSET Enc]
      /\ pages \in SUBSET Mem /\ lost \in SUBSET Mem /\ devMem \in [File -> SUBSET Mem]
      /\ sesMem \in [Sess -> SUBSET Mem] /\ secure \in SUBSET Sess /\ orphan \in SUBSET Sess
  BY <1>2 DEF FilesTypeOK
<1>4. ASSUME NEW at \in {"opening", "undo"}, MovesTo(t, at), at = "undo" => At(t, "session_open", "copy"),
             ~At(t, "session_open", "link"), call[t].at # "wait",
             UNCHANGED <<lists, memory, world, raced>>
      PROVE  FilesInv'
  <2>1. at \in Points
    BY DEF Points
  <2>2. PICK d \in CallType :
              /\ call' = [call EXCEPT ![t] = d] /\ d = [call[t] EXCEPT !.at = at] /\ d.at = at
              /\ d.op = call[t].op /\ d.f = call[t].f /\ d.v = call[t].v /\ d.s = call[t].s
              /\ d.e = call[t].e /\ d.m = call[t].m
              /\ FileOK(d)
              /\ (call[t].at # "wait" \/ at = "wait") /\ ~LinksContext(d)
                    => \A u \in Thread : u # t => Exclude(d, call[u])
    BY <1>1, <1>4, <2>1, MoveFacts
  <2>3. ~LinksContext(d) /\ ~KeepsContext(d) /\ (KeepsSession(d) => KeepsSession(c))
    BY <1>1, <1>4, <2>2 DEF LinksContext, KeepsContext, KeepsSession, At
  <2>4. KeepsSession(d) => Has(d)
    BY <1>2, <2>2, <2>3 DEF SessionsLinked, Has
  <2>5. ListsInv'
    <3>1. UNCHANGED <<kern, fileCnt, notify, lists, memory, world>>
      BY <1>4
    <3>2. ~At(t, "session_close", "unlink") /\ call[t].op # "mmap" /\ d.op # "mmap"
          /\ ~(d.op = "session_open" /\ d.at = "link") /\ ~(d.op = "session_close" /\ d.at = "unlink")
      BY <1>1, <2>2 DEF At
    <3> QED BY <1>2, <1>4, <2>2, <2>3, <2>4, <3>1, <3>2, QuietKeeps
  <2> QED BY <1>4, <2>5 DEF FilesInv, RacesKnown
<1>5. ASSUME At(t, "session_open", "opening"), NEW s \in Sess \ secure,
             \A f \in File : s \notin SessionsOf(f), secure' = secure \cup {s},
             call' = [call EXCEPT ![t] = [call[t] EXCEPT !.at = "link", !.s = s]],
             UNCHANGED <<lists, memory, orphan, raced>>
      PROVE  FilesInv'
  <2>1. PICK d \in CallType : /\ d = [c EXCEPT !.at = "link", !.s = s] /\ d.op = "session_open"
                             /\ d.at = "link" /\ d.s = s /\ d.f = c.f /\ d.m = c.m
    <3>1. [c EXCEPT !.at = "link", !.s = s] \in CallType
      BY <1>2, <1>5 DEF CallType, Points
    <3> QED BY <1>1, <1>2, <3>1 DEF CallType
  <2>2. call' = [call EXCEPT ![t] = d]
    BY <1>5, <2>1
  <2>3. /\ call'[t] = d
        /\ \A u \in Thread : u # t => call'[u] = call[u]
    BY <1>2, <2>1, <2>2, CallTo
  <2>4. /\ UNCHANGED <<kern, fileCnt, files, held, notify, sessions, contexts, pages, lost, devMem, sesMem, orphan>>
        /\ UNCHANGED memory
    BY <1>5 DEF lists, memory
  <2>5. ~Linked(s)
    BY <1>5 DEF Linked, SessionsOf
  <2>6. ~KeepsSession(d) /\ ~KeepsContext(d) /\ ~LinksContext(d)
    BY <2>1 DEF KeepsSession, KeepsContext, LinksContext
  <2>7. FileOK(d) /\ \A u \in Thread : u # t => Exclude(d, call[u])
    <3>1. FileOK(d)
      BY <1>1, <1>2, <2>1 DEF FileOK
    <3>2. c.at # "wait"
      BY <1>5 DEF At
    <3> QED BY <1>1, <1>2, <2>1, <2>6, <3>1, <3>2, ExcludeMove
  <2>8. FilesHeld' /\ CallsExclude' /\ FilesTypeOK'
    <3>1. secure' \in SUBSET Sess
      BY <1>3, <1>5
    <3> QED BY <1>2, <1>3, <2>1, <2>2, <2>4, <2>7, <3>1, ClientFrame
  <2>9. ContextsOwned' /\ BlocksOwned'
    BY <1>1, <1>2, <2>1, <2>2, <2>4, <2>6, ContextsFrame, BlocksFrame DEF ListsInv
  <2>10. SessionsLinked'
    <3>1. \A r \in Sess : Linked(r)' <=> Linked(r)
      BY <2>4 DEF Linked
    <3>2. ASSUME NEW r \in Sess, Linked(r)'
          PROVE  r \in secure' \/ \E u \in Thread : At(u, "session_close", "unlink")' /\ call'[u].s = r
      <4>1. CASE r \in secure
        BY <1>5, <4>1
      <4>2. CASE \E u \in Thread : At(u, "session_close", "unlink") /\ call[u].s = r
        BY <1>1, <2>3, <4>2 DEF At
      <4> QED BY <1>2, <3>1, <3>2, <4>1, <4>2 DEF SessionsLinked
    <3>3. ASSUME NEW r \in secure' \ orphan'
          PROVE  Linked(r)' \/ \E u \in Thread : At(u, "session_open", "link")' /\ call'[u].s = r
      <4>1. CASE r = s
        BY <2>1, <2>3, <4>1 DEF At
      <4>2. CASE r # s
        <5>1. r \in secure \ orphan /\ r \in Sess
          BY <1>3, <1>5, <2>4, <4>2
        <5>2. CASE \E u \in Thread : At(u, "session_open", "link") /\ call[u].s = r
          BY <1>5, <2>3, <5>2 DEF At
        <5> QED BY <1>2, <3>1, <5>1, <5>2 DEF SessionsLinked
      <4> QED BY <4>1, <4>2
    <3>4. ASSUME NEW u \in Thread
          PROVE  /\ KeepsSession(call[u])' => Has(call[u])'
                 /\ At(u, "session_open", "link")' => call'[u].s \in secure' /\ ~Linked(call[u].s)'
                 /\ At(u, "session_close", "unlink")' => call'[u].s \notin secure' \ orphan'
      <4>1. CASE u = t
        <5>1. call'[u] = d /\ s \in secure' /\ ~Linked(d.s)
          BY <1>5, <2>1, <2>3, <2>5, <4>1
        <5>2. ~KeepsSession(call[u])' /\ ~At(u, "session_close", "unlink")'
          BY <2>1, <2>6, <5>1 DEF KeepsSession, KeepsContext, At
        <5>3. call'[u].s \in secure' /\ ~Linked(call[u].s)'
          BY <2>1, <2>4, <5>1 DEF Linked
        <5> QED BY <5>2, <5>3
      <4>2. CASE u # t
        <5>1. PICK x \in CallType : x = call[u] /\ x = call'[u]
          BY <1>2, <2>3, <4>2 DEF FilesTypeOK, CallType
        <5>2. /\ KeepsSession(x) => Has(x)
              /\ x.op = "session_open" /\ x.at = "link" => x.s \in secure /\ ~Linked(x.s)
              /\ x.op = "session_close" /\ x.at = "unlink" => x.s \notin secure \ orphan
          <6>1. /\ KeepsSession(call[u]) => Has(call[u])
                /\ At(u, "session_open", "link") => call[u].s \in secure /\ ~Linked(call[u].s)
                /\ At(u, "session_close", "unlink") => call[u].s \notin secure \ orphan
            BY <1>2 DEF SessionsLinked
          <6> QED BY <5>1, <6>1 DEF At, KeepsSession, KeepsContext, Has, Linked
        <5>3. x.op = "session_close" /\ x.at = "unlink" => Linked(x.s)
          <6>1. x.op = "session_close" /\ x.at = "unlink" => KeepsSession(x)
            BY DEF KeepsSession
          <6>2. x.op = "session_close" => x.f \in File /\ x.v \in Service
            BY <5>1, CallFile DEF CallType
          <6> QED BY <5>2, <6>1, <6>2 DEF Has, Linked
        <5> QED BY <1>5, <2>4, <2>5, <5>1, <5>2, <5>3 DEF KeepsSession, KeepsContext, At, Has, Linked
      <4> QED BY <4>1, <4>2
    <3> QED BY <1>2, <2>4, <3>2, <3>3, <3>4 DEF SessionsLinked
  <2> QED BY <1>5, <2>8, <2>9, <2>10 DEF FilesInv, ListsInv, RacesKnown
<1>6. ASSUME At(t, "session_open", "link"), MovesTo(t, "copy"),
             sessions' = [sessions EXCEPT ![c.f][c.v] = Append(@, c.s)], Changed(t),
             UNCHANGED <<files, held, contexts, memory, world>>
      PROVE  FilesInv'
  <2>1. c.at = "link" /\ "copy" \in Points /\ c.s \in secure /\ ~Linked(c.s)
    BY <1>2, <1>6 DEF At, Points, SessionsLinked
  <2>2. PICK d \in CallType :
              /\ call' = [call EXCEPT ![t] = d] /\ d = [call[t] EXCEPT !.at = "copy"] /\ d.at = "copy"
              /\ d.op = call[t].op /\ d.f = call[t].f /\ d.v = call[t].v /\ d.s = call[t].s
              /\ d.e = call[t].e /\ d.m = call[t].m
              /\ FileOK(d)
              /\ (call[t].at # "wait" \/ "copy" = "wait") /\ ~LinksContext(d)
                    => \A u \in Thread : u # t => Exclude(d, call[u])
    BY <1>1, <1>6, <2>1, MoveFacts
  <2>3. ~LinksContext(d) /\ ~KeepsContext(d)
    BY <1>1, <2>2 DEF LinksContext, KeepsContext
  <2>4. call'[t] = d /\ \A u \in Thread : u # t => call'[u] = call[u]
    BY <1>2, <2>2, CallTo
  <2>5. /\ UNCHANGED <<kern, fileCnt, files, held, notify, contexts, pages, lost, devMem, sesMem, secure, orphan>>
        /\ UNCHANGED memory
    BY <1>6 DEF memory, world
  <2> DEFINE q == sessions[c.f][c.v]
             s == c.s
  <2>6. q \in Seq(Sess) /\ IsInjective(q) /\ s \notin Range(q)
    BY <1>2, <1>3, <2>1 DEF SessionsLinked, Linked
  <2>7. /\ Append(q, s) \in Seq(Sess) /\ Range(Append(q, s)) = Range(q) \cup {s}
        /\ IsInjective(Append(q, s))
    <3>1. s \in Sess
      BY <1>2
    <3> HIDE DEF q, s
    <3> QED BY <2>6, <3>1, AppendFacts
  <2>8. /\ sessions' \in [File -> [Service -> Seq(Sess)]]
        /\ \A g \in File, w \in Service :
              sessions'[g][w] = IF g = c.f /\ w = c.v THEN Append(q, s) ELSE sessions[g][w]
    <3>1. c.f \in File /\ c.v \in Service
      BY <1>2
    <3>2. sessions' = [sessions EXCEPT ![c.f][c.v] = Append(q, s)]
      BY <1>6
    <3> HIDE DEF q, s, c
    <3> QED BY <1>3, <2>7, <3>1, <3>2
  <2>9. FilesHeld' /\ CallsExclude' /\ FilesTypeOK'
    BY <1>2, <1>3, <2>1, <2>2, <2>3, <2>5, <2>8, ClientFrame
  <2>10. ContextsOwned' /\ BlocksOwned'
    BY <1>1, <1>2, <2>2, <2>3, <2>5, ContextsFrame, BlocksFrame DEF ListsInv
  <2> HIDE DEF q, s
  <2>11. \A g \in File, w \in Service : \A r :
            r \in Range(sessions'[g][w]) <=> r \in Range(sessions[g][w]) \/ (r = s /\ g = c.f /\ w = c.v)
    BY <2>7, <2>8 DEF q
  <2>12. \A r \in Sess : Linked(r)' <=> Linked(r) \/ r = s
    BY <1>2, <2>11 DEF Linked
  <2>13. SessionsLinked'
    <3>0. s \in secure /\ ~Linked(s) /\ s \in Sess
      BY <1>2, <2>1 DEF s
    <3>1. \A g \in File, w \in Service : IsInjective(sessions'[g][w])
      BY <1>2, <2>7, <2>8 DEF SessionsLinked
    <3>2. ASSUME NEW g \in File, NEW h \in File, NEW v \in Service, NEW w \in Service, NEW r \in Sess,
                 r \in Range(sessions'[g][v]), r \in Range(sessions'[h][w])
          PROVE  g = h /\ v = w
      <4>1. CASE r = s
        BY <2>11, <3>0, <3>2, <4>1 DEF Linked
      <4>2. CASE r # s
        BY <1>2, <2>11, <3>2, <4>2 DEF SessionsLinked
      <4> QED BY <4>1, <4>2
    <3>3. ASSUME NEW r \in Sess, Linked(r)'
          PROVE  r \in secure \/ \E u \in Thread : At(u, "session_close", "unlink")' /\ call'[u].s = r
      <4>1. CASE r = s
        BY <3>0, <4>1
      <4>2. CASE Linked(r)
        <5>1. CASE \E u \in Thread : At(u, "session_close", "unlink") /\ call[u].s = r
          BY <1>1, <2>4, <5>1 DEF At
        <5> QED BY <1>2, <4>2, <5>1 DEF SessionsLinked
      <4> QED BY <2>12, <3>3, <4>1, <4>2
    <3>4. ASSUME NEW r \in secure \ orphan
          PROVE  Linked(r)' \/ \E u \in Thread : At(u, "session_open", "link")' /\ call'[u].s = r
      <4>1. r \in Sess
        BY <1>3
      <4>2. CASE \E u \in Thread : At(u, "session_open", "link") /\ call[u].s = r
        <5>1. PICK u \in Thread : At(u, "session_open", "link") /\ call[u].s = r
          BY <4>2
        <5>2. CASE u = t
          BY <2>12, <4>1, <5>1, <5>2 DEF s
        <5>3. CASE u # t
          BY <2>4, <5>1, <5>3 DEF At
        <5> QED BY <5>2, <5>3
      <4> QED BY <1>2, <2>12, <4>1, <4>2 DEF SessionsLinked
    <3>5. ASSUME NEW u \in Thread
          PROVE  /\ KeepsSession(call[u])' => Has(call[u])'
                 /\ At(u, "session_open", "link")' => call'[u].s \in secure /\ ~Linked(call[u].s)'
                 /\ At(u, "session_close", "unlink")' => call'[u].s \notin secure \ orphan
      <4>1. CASE u = t
        <5>1. s \in Range(sessions'[c.f][c.v])
          BY <1>2, <2>11
        <5>2. /\ call'[u] = d /\ d.op = "session_open" /\ d.at = "copy" /\ d.f = c.f /\ d.v = c.v /\ d.s = s
          BY <1>1, <2>2, <2>4, <4>1 DEF s
        <5>3. Has(call[u])'
          BY <5>1, <5>2 DEF Has
        <5> QED BY <5>2, <5>3 DEF At
      <4>2. CASE u # t
        <5>1. PICK x \in CallType : x = call[u] /\ x = call'[u]
          BY <1>2, <2>4, <4>2 DEF FilesTypeOK, CallType
        <5>2. /\ KeepsSession(x) => Has(x)
              /\ x.op = "session_close" /\ x.at = "unlink" => x.s \notin secure \ orphan
          <6>1. /\ KeepsSession(call[u]) => Has(call[u])
                /\ At(u, "session_close", "unlink") => call[u].s \notin secure \ orphan
            BY <1>2 DEF SessionsLinked
          <6> QED BY <5>1, <6>1 DEF At, KeepsSession, KeepsContext, Has
        <5>3. x.op # "none" => x.f \in File /\ x.v \in Service
          BY <5>1, CallFile DEF CallType
        <5>4. ~(x.op = "session_open" /\ x.at = "link")
          BY <1>1, <1>2, <2>1, <4>2, <5>1 DEF Exclude, Locked
        <5>5. KeepsSession(x) => x.s \in Range(sessions'[x.f][x.v])
          <6>1. KeepsSession(x) => x.op # "none"
            BY DEF KeepsSession, KeepsContext
          <6> QED BY <2>11, <5>2, <5>3, <6>1 DEF Has
        <5> QED BY <5>1, <5>2, <5>4, <5>5 DEF KeepsSession, KeepsContext, At, Has
      <4> QED BY <4>1, <4>2
    <3> QED BY <2>5, <3>1, <3>2, <3>3, <3>4, <3>5 DEF SessionsLinked
  <2>14. RacesKnown'
    BY <1>1, <1>6, <2>1, MeetingsKnown DEF Changed
  <2> QED BY <2>9, <2>10, <2>13, <2>14 DEF FilesInv, ListsInv
<1>7. ASSUME At(t, "session_open", "undo"), Returns(t),
             sessions' = [sessions EXCEPT ![c.f][c.v] = RemoveFirst(@, c.s)],
             sesMem' = [sesMem EXCEPT ![c.s] = {}], lost' = lost \cup sesMem[c.s],
             orphan' = orphan \cup {c.s}, Changed(t),
             UNCHANGED <<files, held, contexts, pages, devMem, secure>>
      PROVE  FilesInv'
  <2>1. c.at = "undo" /\ Has(c)
    BY <1>1, <1>2, <1>7 DEF At, SessionsLinked, KeepsSession
  <2>2. RacesKnown'
    BY <1>1, <1>7, <2>1, MeetingsKnown DEF Changed
  <2>20. raced' = Disturbed(t)
    BY <1>7 DEF Changed
  <2>3. SUFFICES ASSUME Disturbed(t) = {} PROVE ListsInv'
    BY <2>2, <2>20 DEF FilesInv
  <2> DEFINE S == {c.s}
  <2>4. call' = [call EXCEPT ![t] = Idle] /\ FileOK(Idle) /\ \A u \in Thread : u # t => Exclude(Idle, call[u])
    BY <1>7, ReturnFacts
  <2>5. call'[t] = Idle /\ \A u \in Thread : u # t => call'[u] = call[u]
    BY <1>2, <2>4, IdleFacts, CallTo
  <2>6. /\ sessions' \in [File -> [Service -> Seq(Sess)]]
        /\ \A g \in File, w \in Service :
              IsInjective(sessions'[g][w]) /\ Range(sessions'[g][w]) = Range(sessions[g][w]) \ S
    <3> DEFINE cf == c.f
               cv == c.v
               cs == c.s
    <3>1. /\ cf \in File /\ cv \in Service /\ cs \in Sess /\ cs \in Range(sessions[cf][cv])
          /\ Unlinks(cf, cv, cs) /\ S = {cs}
      BY <1>2, <1>7, <2>1 DEF Has, Unlinks
    <3> HIDE DEF cf, cv, cs, S
    <3>2. /\ sessions' \in [File -> [Service -> Seq(Sess)]]
          /\ \A g \in File, w \in Service :
                IsInjective(sessions'[g][w]) /\ Range(sessions'[g][w]) = Range(sessions[g][w]) \ {cs}
      BY <3>1, UnlinkFacts
    <3> QED BY <3>1, <3>2
  <2>7. S \in SUBSET Sess /\ \A s \in S : Linked(s)
    BY <1>2, <2>1 DEF Has, Linked
  <2>8. \A u \in Thread : u # t /\ KeepsSession(call[u]) => call[u].s \notin S
    <3>1. "sessions" \in Removes(c)
      BY <1>1, <2>1 DEF Removes, Changes
    <3> QED BY <1>1, <2>1, <2>3, <3>1, KeptElsewhere
  <2>9. /\ secure \ S \subseteq secure' /\ secure' \subseteq secure /\ orphan \subseteq orphan'
        /\ (secure' \ orphan') \cap S = {}
    BY <1>7
  <2>10. SessionsLinked'
    <3>1. ~At(t, "session_open", "link") /\ ~At(t, "session_close", "unlink")
      BY <1>1, <2>1 DEF At
    <3> HIDE DEF S
    <3> QED BY <2>4, <2>6, <2>7, <2>8, <2>9, <3>1, IdleFacts, SessionsClosed
  <2>11. ContextsOwned'
    BY <1>2, <1>7, <2>4, IdleFacts, ContextsFrame DEF ListsInv
  <2>12. /\ \A r \in Sess : sesMem'[r] = IF r = c.s THEN {} ELSE sesMem[r]
         /\ sesMem' \in [Sess -> SUBSET Mem] /\ lost' \in SUBSET Mem
    BY <1>2, <1>3, <1>7
  <2>13. FilesHeld' /\ CallsExclude' /\ FilesTypeOK'
    <3>1. orphan' \in SUBSET Sess
      BY <1>2, <1>3, <1>7
    <3> QED BY <1>2, <1>3, <1>7, <2>4, <2>6, <2>12, <3>1, IdleFacts, ClientFrame
  <2>14. BlocksOwned'
    <3>1. BlocksOwned
      BY DEF ListsInv
    <3> DEFINE s == c.s
    <3>2. s \in Sess /\ lost' = lost \cup sesMem[s] /\ pages' = pages /\ devMem' = devMem
          /\ \A r \in Sess : sesMem'[r] = IF r = s THEN {} ELSE sesMem[r]
      BY <1>2, <1>7, <2>12
    <3> HIDE DEF s
    <3>3. ASSUME NEW m \in Mem PROVE OnList(m)' <=> OnList(m) /\ m \notin sesMem[s]
      BY <3>1, <3>2 DEF OnList, BlocksOwned
    <3>4. sesMem[s] \subseteq pages \ lost
      BY <1>3, <3>1, <3>2 DEF BlocksOwned, OnList
    <3>5. \A m \in Mem : OnList(m)' => m \in pages' \ lost'
      BY <3>1, <3>2, <3>3 DEF BlocksOwned
    <3>6. lost' \subseteq pages'
      BY <3>1, <3>2, <3>4 DEF BlocksOwned
    <3>7. ASSUME NEW m \in pages' \ lost'
          PROVE  OnList(m)' \/ \E u \in Thread : call'[u].op = "mmap" /\ call'[u].m = m
      <4>1. m \in Mem /\ m \in pages \ lost /\ m \notin sesMem[s]
        BY <1>3, <3>2
      <4>2. CASE \E u \in Thread : call[u].op = "mmap" /\ call[u].m = m
        BY <1>1, <2>5, <4>2
      <4> QED BY <3>1, <3>3, <4>1, <4>2 DEF BlocksOwned
    <3>8. ASSUME NEW u \in Thread, call'[u].op = "mmap"
          PROVE  call'[u].at \in {"map", "add"} /\ call'[u].m \in pages' \ lost' /\ ~OnList(call[u].m)'
      <4>1. u # t /\ call'[u] = call[u]
        BY <2>5, <3>8, IdleFacts
      <4>2. /\ call[u].at \in {"map", "add"} /\ call[u].m \in pages \ lost /\ ~OnList(call[u].m)
            /\ call[u].m \in Mem
        BY <1>2, <3>1, <3>8, <4>1 DEF BlocksOwned, FilesTypeOK
      <4>3. PICK m \in Mem : m = call[u].m /\ m = call'[u].m
        BY <4>1, <4>2
      <4>4. ~OnList(m) /\ ~OnList(m)' /\ m \in pages' \ lost'
        BY <3>2, <3>3, <4>2, <4>3 DEF OnList
      <4> QED BY <4>1, <4>2, <4>3, <4>4 DEF OnList
    <3>9. /\ \A g, h \in File : \A m \in Mem : m \in devMem'[g] /\ m \in devMem'[h] => g = h
          /\ \A x, r \in Sess : \A m \in Mem : m \in sesMem'[x] /\ m \in sesMem'[r] => x = r
          /\ \A g \in File, x \in Sess : \A m \in Mem : ~(m \in devMem'[g] /\ m \in sesMem'[x])
      BY <3>1, <3>2 DEF BlocksOwned
    <3> QED BY <3>5, <3>6, <3>7, <3>8, <3>9 DEF BlocksOwned
  <2> QED BY <2>10, <2>11, <2>13, <2>14 DEF ListsInv
<1>8. CASE At(t, "session_open", "walk") /\ MovesTo(t, "opening") /\ UNCHANGED <<lists, memory, world, raced>>
  BY <1>4, <1>8 DEF At
<1>9. CASE At(t, "session_open", "copy") /\ MovesTo(t, "undo") /\ UNCHANGED <<lists, memory, world, raced>>
  BY <1>4, <1>9 DEF At
<1> QED BY <1>5, <1>6, <1>7, <1>8, <1>9 DEF otz_client_session_open

\* What a call in the driver brings with it.
LEMMA ClientFacts ==
    ASSUME ListsInv, NEW t \in Thread, call[t].op \in Client
    PROVE  /\ call[t] \in CallType /\ call[t].f \in File /\ call[t].v \in Service /\ call[t].s \in Sess
           /\ call[t].e \in Enc /\ call[t].m \in Mem /\ "region" \in kern
           /\ sessions \in [File -> [Service -> Seq(Sess)]] /\ contexts \in [Sess -> SUBSET Enc]
           /\ pages \in SUBSET Mem /\ lost \in SUBSET Mem /\ devMem \in [File -> SUBSET Mem]
           /\ sesMem \in [Sess -> SUBSET Mem] /\ secure \in SUBSET Sess /\ orphan \in SUBSET Sess
           /\ FilesTypeOK /\ SessionsLinked /\ ContextsOwned /\ BlocksOwned
           /\ (KeepsSession(call[t]) => Has(call[t]))
           /\ (KeepsContext(call[t]) => call[t].e \in contexts[call[t].s])
           /\ Client \cap {"none", "open", "release"} = {}
<1>1. call[t].op # "none" /\ Client \cap {"none", "open", "release"} = {}
  BY DEF Client, Locked
<1>2. call[t] \in CallType /\ call[t].f \in File /\ "region" \in kern
  BY <1>1, CallFile
<1>3. FilesTypeOK /\ SessionsLinked /\ ContextsOwned /\ BlocksOwned
  BY DEF ListsInv
<1>4. /\ (KeepsSession(call[t]) => Has(call[t]))
      /\ (KeepsContext(call[t]) => call[t].e \in contexts[call[t].s])
  BY <1>3 DEF SessionsLinked, ContextsOwned
<1>5. /\ sessions \in [File -> [Service -> Seq(Sess)]] /\ contexts \in [Sess -> SUBSET Enc]
      /\ pages \in SUBSET Mem /\ lost \in SUBSET Mem /\ devMem \in [File -> SUBSET Mem]
      /\ sesMem \in [Sess -> SUBSET Mem] /\ secure \in SUBSET Sess /\ orphan \in SUBSET Sess
  BY <1>3 DEF FilesTypeOK
<1> QED BY <1>1, <1>2, <1>3, <1>4, <1>5 DEF CallType

\* Going on in a call, with nothing else changed.
LEMMA GoesOn ==
    ASSUME ListsInv, NEW t \in Thread, call[t].op \in Client \ {"mmap"}, NEW at \in Points, MovesTo(t, at),
           UNCHANGED <<kern, fileCnt, notify, lists, memory, world>>,
           call[t].at \notin {"wait", "unlink", "link"},
           at \notin {"link", "unlink"},
           Has(call[t]), at \in {"busy", "wait"} => call[t].e \in contexts[call[t].s], at # "resume"
    PROVE  ListsInv'
<1>1. PICK d \in CallType :
              /\ call' = [call EXCEPT ![t] = d] /\ d = [call[t] EXCEPT !.at = at] /\ d.at = at
              /\ d.op = call[t].op /\ d.f = call[t].f /\ d.v = call[t].v /\ d.s = call[t].s
              /\ d.e = call[t].e /\ d.m = call[t].m
              /\ FileOK(d)
              /\ (call[t].at # "wait" \/ at = "wait") /\ ~LinksContext(d)
                    => \A u \in Thread : u # t => Exclude(d, call[u])
  BY MoveFacts
<1>2. ~LinksContext(d) /\ \A u \in Thread : u # t => Exclude(d, call[u])
  BY <1>1 DEF LinksContext
<1>3. (KeepsSession(d) => Has(d)) /\ (KeepsContext(d) => d.e \in contexts[d.s])
  BY <1>1 DEF Has, KeepsContext
<1>4. /\ ~At(t, "session_close", "unlink") /\ ~At(t, "session_open", "link")
      /\ ~(d.op = "session_open" /\ d.at = "link") /\ ~(d.op = "session_close" /\ d.at = "unlink")
      /\ d.op # "mmap"
  BY <1>1 DEF At
<1>5. "region" \in kern
  BY ClientFacts
<1> QED BY <1>1, <1>2, <1>3, <1>4, <1>5, QuietKeeps

LEMMA SessionCloseKeeps ==
    ASSUME ListsInv, NEW t \in Thread, otz_client_session_close(t), UNCHANGED <<kern, fileCnt, notify>>,
           raced = {}
    PROVE  FilesInv'
<1> DEFINE c == call[t]
<1>1. c.op = "session_close" /\ c.op \in Client /\ c.op \in Client \ {"mmap"}
  BY DEF otz_client_session_close, At, Client, Locked
<1>2. /\ c \in CallType /\ c.f \in File /\ c.v \in Service /\ c.s \in Sess /\ "region" \in kern
      /\ sessions \in [File -> [Service -> Seq(Sess)]] /\ contexts \in [Sess -> SUBSET Enc]
      /\ pages \in SUBSET Mem /\ lost \in SUBSET Mem /\ devMem \in [File -> SUBSET Mem]
      /\ sesMem \in [Sess -> SUBSET Mem] /\ secure \in SUBSET Sess /\ orphan \in SUBSET Sess
      /\ FilesTypeOK /\ SessionsLinked /\ (KeepsSession(c) => Has(c))
  BY <1>1, ClientFacts
<1>3. ASSUME At(t, "session_close", "walk"), Has(c), MovesTo(t, "closing"),
             UNCHANGED <<lists, memory, world, raced>>
      PROVE  FilesInv'
  <2>1. "closing" \in Points /\ call[t].at \notin {"wait", "unlink", "link"}
    BY <1>3 DEF Points, At
  <2>3. ListsInv'
    <3>1. /\ "closing" \notin {"link", "unlink"} /\ "closing" # "resume"
          /\ ("closing" \in {"busy", "wait"} => call[t].e \in contexts[call[t].s])
          /\ UNCHANGED <<kern, fileCnt, notify, lists, memory, world>>
      BY <1>3
    <3> QED BY <1>1, <1>3, <2>1, <3>1, GoesOn
  <2> QED BY <1>3, <2>3 DEF FilesInv, RacesKnown
<1>4. ASSUME At(t, "session_close", "closing"), MovesTo(t, "unlink"), ClosingSMC({c.s}),
             UNCHANGED <<lists, memory, raced>>
      PROVE  FilesInv'
  <2>1. c.at = "closing" /\ Has(c) /\ "unlink" \in Points
    BY <1>1, <1>2, <1>4 DEF At, KeepsSession, Points
  <2>2. PICK d \in CallType :
              /\ call' = [call EXCEPT ![t] = d] /\ d = [call[t] EXCEPT !.at = "unlink"] /\ d.at = "unlink"
              /\ d.op = call[t].op /\ d.f = call[t].f /\ d.v = call[t].v /\ d.s = call[t].s
              /\ d.e = call[t].e /\ d.m = call[t].m
              /\ FileOK(d)
              /\ (call[t].at # "wait" \/ "unlink" = "wait") /\ ~LinksContext(d)
                    => \A u \in Thread : u # t => Exclude(d, call[u])
    BY <1>1, <1>4, <2>1, MoveFacts
  <2>3. ~LinksContext(d) /\ ~KeepsContext(d) /\ call[t].op # "mmap" /\ d.op # "mmap"
    BY <1>1, <2>2 DEF LinksContext, KeepsContext
  <2>4. call'[t] = d /\ \A u \in Thread : u # t => call'[u] = call[u]
    BY <1>2, <2>2, CallTo
  <2>5. /\ UNCHANGED <<files, held, sessions, contexts, pages, devMem, sesMem, lost>> /\ UNCHANGED memory
    BY <1>4 DEF lists, memory
  <2>6. /\ secure \ {c.s} \subseteq secure' /\ secure' \subseteq secure /\ orphan \subseteq orphan'
        /\ c.s \notin secure' \ orphan' /\ secure' \in SUBSET Sess /\ orphan' \in SUBSET Sess
    BY <1>2, <1>4 DEF ClosingSMC
  <2>7. FilesHeld' /\ CallsExclude' /\ FilesTypeOK'
    BY <1>2, <2>1, <2>2, <2>3, <2>5, <2>6, ClientFrame
  <2>8. ContextsOwned' /\ BlocksOwned'
    BY <2>2, <2>3, <2>5, ContextsFrame, BlocksFrame DEF ListsInv
  <2>9. SessionsLinked'
    <3>1. ASSUME NEW s \in Sess PROVE Linked(s)' <=> Linked(s)
      BY <2>5 DEF Linked
    <3>2. ASSUME NEW s \in Sess, Linked(s)'
          PROVE  s \in secure' \/ \E u \in Thread : At(u, "session_close", "unlink")' /\ call'[u].s = s
      <4>1. CASE s = c.s
        BY <1>1, <2>2, <2>4, <4>1 DEF At
      <4>2. CASE s # c.s /\ s \in secure
        BY <2>6, <4>2
      <4>3. CASE \E u \in Thread : At(u, "session_close", "unlink") /\ call[u].s = s
        <5>1. PICK u \in Thread : At(u, "session_close", "unlink") /\ call[u].s = s
          BY <4>3
        <5>2. u # t
          BY <2>1, <5>1 DEF At
        <5> QED BY <2>4, <5>1, <5>2 DEF At
      <4> QED BY <1>2, <3>1, <3>2, <4>1, <4>2, <4>3 DEF SessionsLinked
    <3>3. ASSUME NEW s \in secure' \ orphan'
          PROVE  Linked(s)' \/ \E u \in Thread : At(u, "session_open", "link")' /\ call'[u].s = s
      <4>1. s \in secure \ orphan /\ s \in Sess
        BY <1>2, <2>6
      <4>2. CASE \E u \in Thread : At(u, "session_open", "link") /\ call[u].s = s
        <5>1. PICK u \in Thread : At(u, "session_open", "link") /\ call[u].s = s
          BY <4>2
        <5>2. u # t
          BY <2>1, <5>1 DEF At
        <5> QED BY <2>4, <5>1, <5>2 DEF At
      <4> QED BY <1>2, <3>1, <4>1, <4>2 DEF SessionsLinked
    <3>4. ASSUME NEW u \in Thread
          PROVE  /\ KeepsSession(call[u])' => Has(call[u])'
                 /\ At(u, "session_open", "link")' => call'[u].s \in secure' /\ ~Linked(call[u].s)'
                 /\ At(u, "session_close", "unlink")' => call'[u].s \notin secure' \ orphan'
      <4>1. CASE u = t
        <5>1. call'[u] = d /\ d.op = "session_close" /\ d.at = "unlink"
              /\ d.s = c.s /\ d.s \in Range(sessions'[d.f][d.v])
          BY <1>1, <2>1, <2>2, <2>4, <2>5, <4>1 DEF Has
        <5> QED BY <2>6, <5>1 DEF Has, At
      <4>2. CASE u # t
        <5>1. PICK x \in CallType : x = call[u] /\ x = call'[u]
          BY <1>2, <2>4, <4>2 DEF FilesTypeOK, CallType
        <5>2. /\ KeepsSession(call[u]) => Has(call[u])
              /\ At(u, "session_open", "link") => call[u].s \in secure /\ ~Linked(call[u].s)
              /\ At(u, "session_close", "unlink") => call[u].s \notin secure \ orphan
          BY <1>2 DEF SessionsLinked
        <5>3. KeepsSession(call[u])' => Has(call[u])'
          BY <2>5, <5>1, <5>2 DEF KeepsSession, KeepsContext, Has
        <5>4. At(u, "session_close", "unlink")' => call'[u].s \notin secure' \ orphan'
          BY <2>6, <5>1, <5>2 DEF At
        <5>5. At(u, "session_open", "link") => call[u].s \in secure' /\ ~Linked(call[u].s)
          <6>1. Linked(c.s)
            BY <1>2, <2>1 DEF Has, Linked
          <6>2. At(u, "session_open", "link") => call[u].s # c.s
            BY <5>2, <6>1
          <6> QED BY <2>6, <5>2, <6>2
        <5>6. At(u, "session_open", "link")' => call'[u].s \in secure' /\ ~Linked(call[u].s)'
          BY <2>5, <5>1, <5>5 DEF At, Linked
        <5> QED BY <5>3, <5>4, <5>6
      <4> QED BY <4>1, <4>2
    <3> QED BY <1>2, <2>5, <3>2, <3>3, <3>4 DEF SessionsLinked
  <2> QED BY <1>4, <2>7, <2>8, <2>9 DEF FilesInv, ListsInv, RacesKnown
<1>5. ASSUME At(t, "session_close", "unlink"), Returns(t),
             sessions' = [sessions EXCEPT ![c.f][c.v] = RemoveFirst(@, c.s)],
             Closed({c.s}), pages' = pages \ sesMem[c.s], Changed(t),
             UNCHANGED <<files, held, devMem, lost, world>>
      PROVE  FilesInv'
  <2>1. c.at = "unlink" /\ Has(c)
    BY <1>1, <1>2, <1>5 DEF At, KeepsSession
  <2>2. RacesKnown'
    BY <1>1, <1>5, <2>1, MeetingsKnown DEF Changed
  <2>3. raced' = Disturbed(t)
    BY <1>5 DEF Changed
  <2>4. SUFFICES ASSUME Disturbed(t) = {} PROVE ListsInv'
    BY <2>2, <2>3 DEF FilesInv
  <2> DEFINE S == {c.s}
  <2>5. call' = [call EXCEPT ![t] = Idle] /\ FileOK(Idle) /\ \A u \in Thread : u # t => Exclude(Idle, call[u])
    BY <1>5, ReturnFacts
  <2>6. /\ sessions' \in [File -> [Service -> Seq(Sess)]]
        /\ \A g \in File, w \in Service :
              IsInjective(sessions'[g][w]) /\ Range(sessions'[g][w]) = Range(sessions[g][w]) \ S
    <3> DEFINE cf == c.f
               cv == c.v
               cs == c.s
    <3>1. /\ cf \in File /\ cv \in Service /\ cs \in Sess /\ cs \in Range(sessions[cf][cv])
          /\ Unlinks(cf, cv, cs) /\ S = {cs}
      BY <1>2, <1>5, <2>1 DEF Has, Unlinks
    <3> HIDE DEF cf, cv, cs, S
    <3> QED BY <3>1, UnlinkFacts
  <2>7. S \in SUBSET Sess /\ \A s \in S : Linked(s)
    BY <1>2, <2>1 DEF Has, Linked
  <2>8. \A u \in Thread : u # t /\ KeepsSession(call[u]) => call[u].s \notin S
    <3>1. "sessions" \in Removes(c)
      BY <1>1, <2>1 DEF Removes, Changes
    <3> QED BY <1>1, <2>1, <2>4, <3>1, KeptElsewhere
  <2>9. /\ secure \ S \subseteq secure' /\ secure' \subseteq secure /\ orphan \subseteq orphan'
        /\ (secure' \ orphan') \cap S = {} /\ secure' = secure /\ orphan' = orphan
    <3>1. c.s \notin secure \ orphan
      BY <1>2, <1>5 DEF SessionsLinked
    <3> QED BY <1>5, <3>1 DEF world
  <2>10. SessionsLinked'
    <3>1. ~At(t, "session_open", "link") /\ (At(t, "session_close", "unlink") => call[t].s \in S)
      BY <1>1 DEF At
    <3> HIDE DEF S
    <3> QED BY <2>5, <2>6, <2>7, <2>8, <2>9, <3>1, IdleFacts, SessionsClosed
  <2>11. /\ contexts' = [s \in Sess |-> IF s \in S THEN {} ELSE contexts[s]]
         /\ \A s \in Sess : sesMem'[s] = IF s \in S THEN {} ELSE sesMem[s]
         /\ contexts' \in [Sess -> SUBSET Enc] /\ sesMem' \in [Sess -> SUBSET Mem]
         /\ pages' = pages \ ({} \cup MemOf(S))
    BY <1>2, <1>5 DEF Closed, MemOf
  <2>12. ContextsOwned'
    <3>1. \A u \in Thread : u # t /\ KeepsContext(call[u]) => call[u].s \notin S
      BY <2>8 DEF KeepsSession
    <3> HIDE DEF S
    <3> QED BY <2>5, <2>7, <2>11, <3>1, IdleFacts, ContextsClosed
  <2>13. BlocksOwned'
    <3> DEFINE D == {}
               cf == c.f
    <3>1. D \in {devMem[cf], {}} /\ pages' = pages \ (D \cup MemOf(S)) /\ cf \in File
          /\ \A g \in File : devMem'[g] = IF g = cf THEN devMem[cf] \ D ELSE devMem[g]
      BY <1>2, <1>5, <2>11
    <3>2. lost' = lost /\ call[t].op # "mmap" /\ Idle.op # "mmap" /\ Idle \in CallType
      BY <1>1, <1>5, IdleFacts
    <3>3. \A s \in Sess : sesMem'[s] = IF s \in S THEN {} ELSE sesMem[s]
      BY <2>11
    <3>4. call' = [call EXCEPT ![t] = Idle] /\ S \in SUBSET Sess
      BY <2>5, <2>7
    <3> HIDE DEF S, D, cf
    <3>5. Frees(S, cf, D)
      BY <3>1, <3>2, <3>3 DEF Frees
    <3> QED BY <3>1, <3>2, <3>4, <3>5, BlocksGone
  <2>14. FilesHeld' /\ CallsExclude' /\ FilesTypeOK'
    <3>1. /\ pages' \in SUBSET Mem /\ lost' \in SUBSET Mem /\ devMem' \in [File -> SUBSET Mem]
          /\ secure' \in SUBSET Sess /\ orphan' \in SUBSET Sess
          /\ UNCHANGED <<kern, fileCnt, files, held, notify>>
      BY <1>2, <1>5, <2>9
    <3> HIDE DEF S
    <3> QED BY <1>2, <2>5, <2>6, <2>11, <3>1, IdleFacts, ClientFrame
  <2> QED BY <2>10, <2>12, <2>13, <2>14 DEF ListsInv
<1> QED BY <1>3, <1>4, <1>5 DEF otz_client_session_close

\* Steps on the page blocks.
Maps(m, t) == \E u \in Thread : u # t /\ call[u].op = "mmap" /\ call[u].m = m

LEMMA BlocksStep ==
    ASSUME ListsInv, NEW t \in Thread, NEW d \in CallType, call' = [call EXCEPT ![t] = d],
           pages' \in SUBSET Mem, lost' \subseteq pages',
           \A m \in Mem : OnList(m)' => m \in pages' \ lost',
           \A m \in pages' \ lost' : OnList(m)' \/ (d.op = "mmap" /\ d.m = m) \/ Maps(m, t),
           \A m \in Mem : Maps(m, t) => m \in pages' \ lost' /\ ~OnList(m)',
           d.op = "mmap" => d.at \in {"map", "add"} /\ d.m \in pages' \ lost' /\ ~OnList(d.m)',
           /\ \A f, g \in File : \A m \in Mem : m \in devMem'[f] /\ m \in devMem'[g] => f = g
           /\ \A s, r \in Sess : \A m \in Mem : m \in sesMem'[s] /\ m \in sesMem'[r] => s = r
           /\ \A f \in File, s \in Sess : \A m \in Mem : ~(m \in devMem'[f] /\ m \in sesMem'[s])
    PROVE  BlocksOwned'
<1>1. FilesTypeOK /\ BlocksOwned
  BY DEF ListsInv
<1>2. call'[t] = d /\ \A u \in Thread : u # t => call'[u] = call[u]
  BY <1>1, CallTo
<1>3. ASSUME NEW m \in pages' \ lost'
      PROVE  OnList(m)' \/ \E u \in Thread : call'[u].op = "mmap" /\ call'[u].m = m
  <2>1. CASE d.op = "mmap" /\ d.m = m
    BY <1>2, <2>1
  <2>2. CASE Maps(m, t)
    BY <1>2, <2>2 DEF Maps
  <2> QED BY <2>1, <2>2
<1>4. ASSUME NEW u \in Thread, call'[u].op = "mmap"
      PROVE  call'[u].at \in {"map", "add"} /\ call'[u].m \in pages' \ lost' /\ ~OnList(call[u].m)'
  <2>1. CASE u = t
    BY <1>2, <1>4, <2>1 DEF OnList
  <2>2. CASE u # t
    <3>1. PICK x \in CallType : x = call[u] /\ x = call'[u]
      BY <1>1, <1>2, <2>2 DEF FilesTypeOK, CallType
    <3>2. x.at \in {"map", "add"} /\ x.m \in Mem /\ Maps(x.m, t)
      BY <1>1, <1>4, <2>2, <3>1 DEF BlocksOwned, Maps, CallType
    <3>3. PICK m \in Mem : m = x.m /\ m \in pages' \ lost' /\ ~OnList(m)'
      BY <3>2
    <3> QED BY <3>1, <3>2, <3>3 DEF OnList
  <2> QED BY <2>1, <2>2
<1> QED BY <1>3, <1>4 DEF BlocksOwned

LEMMA MemoryKeeps ==
    ASSUME ListsInv, NEW t \in Thread, NEW d \in CallType, call' = [call EXCEPT ![t] = d],
           UNCHANGED <<kern, fileCnt, notify, lists, world>>, "region" \in kern, FileOK(d),
           \A u \in Thread : u # t => Exclude(d, call[u]),
           call[t].op \in {"none", "mmap", "shared_mem_alloc", "shared_mem_free"}, d.op \in {"none", "mmap"},
           pages' \in SUBSET Mem, lost' \in SUBSET Mem,
           devMem' \in [File -> SUBSET Mem], sesMem' \in [Sess -> SUBSET Mem], BlocksOwned'
    PROVE  ListsInv'
<1>1. FilesTypeOK /\ SessionsLinked /\ ContextsOwned
  BY DEF ListsInv
<1>2. /\ ~At(t, "session_close", "unlink") /\ ~At(t, "session_open", "link")
      /\ ~KeepsSession(d) /\ ~KeepsContext(d) /\ ~LinksContext(d)
      /\ ~(d.op = "session_open" /\ d.at = "link") /\ ~(d.op = "session_close" /\ d.at = "unlink")
  BY DEF At, KeepsSession, KeepsContext, LinksContext
<1>3. UNCHANGED <<kern, fileCnt, files, held, notify>> /\ UNCHANGED <<sessions, secure, orphan>>
      /\ UNCHANGED <<contexts>>
  BY DEF lists, world
<1>4. SessionsLinked' /\ ContextsOwned'
  BY <1>1, <1>2, <1>3, SessionsFrame, ContextsFrame
<1>5. FilesHeld' /\ CallsExclude' /\ FilesTypeOK'
  <2>1. /\ sessions' \in [File -> [Service -> Seq(Sess)]] /\ contexts' \in [Sess -> SUBSET Enc]
        /\ secure' \in SUBSET Sess /\ orphan' \in SUBSET Sess
    BY <1>1, <1>3 DEF FilesTypeOK
  <2> QED BY <1>3, <2>1, ClientFrame
<1> QED BY <1>4, <1>5 DEF ListsInv

LEMMA MmapKeeps ==
    ASSUME ListsInv, NEW t \in Thread, MmapStep(t), UNCHANGED <<kern, fileCnt, notify>>, raced = {}
    PROVE  FilesInv'
<1> DEFINE c == call[t]
<1>1. /\ FilesTypeOK /\ BlocksOwned /\ pages \in SUBSET Mem /\ lost \in SUBSET Mem
      /\ devMem \in [File -> SUBSET Mem] /\ sesMem \in [Sess -> SUBSET Mem] /\ held \subseteq files
      /\ files \subseteq 1 .. fileCnt /\ fileCnt \in 0 .. NFile /\ NFile \in Nat
  BY FilesAssumption DEF ListsInv, FilesTypeOK
<1>2. UNCHANGED <<kern, fileCnt, notify, lists, world>> /\ sesMem' = sesMem
  BY DEF MmapStep
<1>3. /\ \A f, g \in File : \A m \in Mem : m \in devMem[f] /\ m \in devMem[g] => f = g
      /\ \A s, r \in Sess : \A m \in Mem : m \in sesMem[s] /\ m \in sesMem[r] => s = r
      /\ \A f \in File, s \in Sess : \A m \in Mem : ~(m \in devMem[f] /\ m \in sesMem[s])
      /\ \A m \in Mem : OnList(m) => m \in pages \ lost
      /\ lost \subseteq pages
  BY <1>1 DEF BlocksOwned
<1>4. /\ \A m \in Mem : Maps(m, t) => m \in pages \ lost /\ ~OnList(m)
      /\ \A m \in pages \ lost : OnList(m) \/ (c.op = "mmap" /\ c.m = m) \/ Maps(m, t)
  BY <1>1 DEF BlocksOwned, Maps
<1>5. c.op = "mmap" =>
         /\ c \in CallType /\ c.f \in File /\ c.m \in Mem /\ "region" \in kern /\ c.op \in Client
         /\ c.m \in pages \ lost /\ ~OnList(c.m) /\ ~Maps(c.m, t)
  <2>1. SUFFICES ASSUME c.op = "mmap"
                 PROVE  /\ c \in CallType /\ c.f \in File /\ c.m \in Mem /\ "region" \in kern /\ c.op \in Client
                        /\ c.m \in pages \ lost /\ ~OnList(c.m) /\ ~Maps(c.m, t)
    OBVIOUS
  <2>2. c.op \in Client
    BY <2>1 DEF Client
  <2>3. ~Maps(c.m, t)
    BY <2>1 DEF ListsInv, CallsExclude, Exclude, Maps
  <2> QED BY <1>1, <2>1, <2>2, <2>3, ClientFacts DEF BlocksOwned
<1>6. ASSUME call[t] = Idle, NEW f \in held, NEW m \in Mem \ pages, pages' = pages \cup {m},
             call' = [call EXCEPT ![t] = [Idle EXCEPT !.op = "mmap", !.at = "map", !.f = f, !.m = m]],
             UNCHANGED <<devMem, lost, raced>>
      PROVE  FilesInv'
  <2>1. PICK d \in CallType :
            /\ d = [Idle EXCEPT !.op = "mmap", !.at = "map", !.f = f, !.m = m]
            /\ d.op = "mmap" /\ d.at = "map" /\ d.f = f /\ d.m = m
    <3>1. PICK i \in CallType : i = Idle
      BY IdleFacts
    <3>2. f \in 0 .. NFile /\ "mmap" \in Kinds /\ "map" \in Points
      BY <1>1 DEF Kinds, Points
    <3>3. [i EXCEPT !.op = "mmap", !.at = "map", !.f = f, !.m = m] \in CallType
      BY <3>2 DEF CallType
    <3> QED BY <3>1, <3>3 DEF CallType
  <2>2. call' = [call EXCEPT ![t] = d] /\ c.op = "none"
    BY <1>6, <2>1, IdleFacts
  <2>3. "region" \in kern /\ FileOK(d)
    BY <2>1 DEF ListsInv, FilesHeld, FileOK, Locked
  <2>4. \A u \in Thread : u # t => Exclude(d, call[u])
    BY <1>1, <2>1 DEF Exclude, Locked, LinksContext, BlocksOwned
  <2>5. \A n \in Mem : OnList(n)' <=> OnList(n)
    BY <1>2, <1>6 DEF OnList
  <2>6. BlocksOwned'
    <3>1. ~OnList(m) /\ ~OnList(d.m)' /\ d.m \in pages' \ lost' /\ pages' \in SUBSET Mem
      BY <1>1, <1>3, <1>6, <2>1, <2>5
    <3>2. \A n \in pages' \ lost' : OnList(n)' \/ (d.op = "mmap" /\ d.m = n) \/ Maps(n, t)
      BY <1>1, <1>4, <1>6, <2>1, <2>2, <2>5
    <3>3. \A n \in Mem : OnList(n)' => n \in pages' \ lost'
      BY <1>3, <1>6, <2>5
    <3>4. \A n \in Mem : Maps(n, t) => n \in pages' \ lost' /\ ~OnList(n)'
      BY <1>4, <1>6, <2>5
    <3>5. lost' \subseteq pages' /\ devMem' = devMem /\ sesMem' = sesMem
      BY <1>2, <1>3, <1>6
    <3> QED BY <1>3, <2>1, <2>2, <3>1, <3>2, <3>3, <3>4, <3>5, BlocksStep
  <2>7. ListsInv'
    <3>1. pages' \in SUBSET Mem /\ lost' \in SUBSET Mem
          /\ devMem' \in [File -> SUBSET Mem] /\ sesMem' \in [Sess -> SUBSET Mem]
      BY <1>1, <1>2, <1>6
    <3> QED BY <1>2, <2>1, <2>2, <2>3, <2>4, <2>6, <3>1, MemoryKeeps
  <2> QED BY <1>6, <2>7 DEF FilesInv, RacesKnown
<1>7. ASSUME At(t, "mmap", "map"), Returns(t), lost' = lost \cup {c.m}, UNCHANGED <<pages, devMem, raced>>
      PROVE  FilesInv'
  <2>1. c.op = "mmap"
    BY <1>7 DEF At
  <2> DEFINE n0 == c.m
  <2>2. n0 \in pages \ lost /\ ~OnList(n0) /\ ~Maps(n0, t) /\ "region" \in kern /\ n0 = c.m
        /\ lost' = lost \cup {n0}
    BY <1>5, <1>7, <2>1
  <2>3. call' = [call EXCEPT ![t] = Idle] /\ FileOK(Idle) /\ \A u \in Thread : u # t => Exclude(Idle, call[u])
    BY <1>7, ReturnFacts
  <2>4. \A n \in Mem : OnList(n)' <=> OnList(n)
    BY <1>2, <1>7 DEF OnList
  <2>5. BlocksOwned'
    <3> HIDE DEF n0
    <3>1. \A n \in pages' \ lost' : OnList(n)' \/ Maps(n, t)
      BY <1>1, <1>4, <1>7, <2>2, <2>4
    <3>2. \A n \in Mem : OnList(n)' => n \in pages' \ lost'
      BY <1>3, <1>7, <2>2, <2>4
    <3>3. \A n \in Mem : Maps(n, t) => n \in pages' \ lost' /\ ~OnList(n)'
      BY <1>4, <1>7, <2>2, <2>4
    <3>4. lost' \subseteq pages' /\ pages' \in SUBSET Mem /\ devMem' = devMem /\ sesMem' = sesMem
      BY <1>1, <1>2, <1>3, <1>7, <2>2
    <3> QED BY <1>3, <2>3, <3>1, <3>2, <3>3, <3>4, IdleFacts, BlocksStep
  <2>6. ListsInv'
    <3>1. /\ pages' \in SUBSET Mem /\ lost' \in SUBSET Mem
          /\ devMem' \in [File -> SUBSET Mem] /\ sesMem' \in [Sess -> SUBSET Mem]
      BY <1>1, <1>2, <1>7, <2>2
    <3> QED BY <1>2, <2>1, <2>2, <2>3, <2>5, <3>1, IdleFacts, MemoryKeeps
  <2> QED BY <1>7, <2>6 DEF FilesInv, RacesKnown
<1>8. ASSUME At(t, "mmap", "map"), MovesTo(t, "add"), UNCHANGED <<pages, devMem, lost, raced>>
      PROVE  FilesInv'
  <2>1. c.op = "mmap" /\ "add" \in Points /\ c.at # "wait"
    BY <1>8 DEF At, Points
  <2>2. PICK d \in CallType :
              /\ call' = [call EXCEPT ![t] = d] /\ d = [call[t] EXCEPT !.at = "add"] /\ d.at = "add"
              /\ d.op = call[t].op /\ d.f = call[t].f /\ d.v = call[t].v /\ d.s = call[t].s
              /\ d.e = call[t].e /\ d.m = call[t].m
              /\ FileOK(d)
              /\ (call[t].at # "wait" \/ "add" = "wait") /\ ~LinksContext(d)
                    => \A u \in Thread : u # t => Exclude(d, call[u])
    BY <1>5, <1>8, <2>1, MoveFacts
  <2>3. \A u \in Thread : u # t => Exclude(d, call[u])
    BY <2>1, <2>2 DEF LinksContext
  <2>4. \A n \in Mem : OnList(n)' <=> OnList(n)
    BY <1>2, <1>8 DEF OnList
  <2>5. BlocksOwned'
    <3>1. d.m \in pages' \ lost' /\ ~OnList(d.m)' /\ d.op = "mmap" /\ d.m \in Mem
      <4>1. PICK n \in Mem : n = call[t].m /\ n = d.m /\ n \in pages \ lost /\ ~OnList(n)
        BY <1>5, <2>1, <2>2
      <4> QED BY <1>8, <2>1, <2>2, <2>4, <4>1
    <3>2. \A n \in pages' \ lost' : OnList(n)' \/ (d.op = "mmap" /\ d.m = n) \/ Maps(n, t)
      BY <1>1, <1>4, <1>8, <2>1, <2>2, <2>4
    <3>3. /\ \A n \in Mem : OnList(n)' => n \in pages' \ lost'
          /\ \A n \in Mem : Maps(n, t) => n \in pages' \ lost' /\ ~OnList(n)'
      BY <1>3, <1>4, <1>8, <2>4
    <3>4. lost' \subseteq pages' /\ pages' \in SUBSET Mem /\ devMem' = devMem /\ sesMem' = sesMem
      BY <1>1, <1>2, <1>3, <1>8
    <3> QED BY <1>3, <2>2, <3>1, <3>2, <3>3, <3>4, BlocksStep
  <2>6. ListsInv'
    <3>1. /\ pages' \in SUBSET Mem /\ lost' \in SUBSET Mem
          /\ devMem' \in [File -> SUBSET Mem] /\ sesMem' \in [Sess -> SUBSET Mem]
      BY <1>1, <1>2, <1>8
    <3> QED BY <1>2, <1>5, <2>1, <2>2, <2>3, <2>5, <3>1, MemoryKeeps
  <2> QED BY <1>8, <2>6 DEF FilesInv, RacesKnown
<1>9. ASSUME At(t, "mmap", "add"), Returns(t), devMem' = [devMem EXCEPT ![c.f] = @ \cup {c.m}], Changed(t),
             UNCHANGED <<pages, lost>>
      PROVE  FilesInv'
  <2>1. c.op = "mmap" /\ c.at # "wait" /\ c.op # "operation_release"
    BY <1>9 DEF At
  <2>2. RacesKnown'
    BY <1>9, <2>1, MeetingsKnown DEF Changed
  <2> DEFINE n0 == c.m
             f0 == c.f
  <2>3. /\ n0 \in pages \ lost /\ n0 \in Mem /\ ~OnList(n0) /\ ~Maps(n0, t) /\ "region" \in kern /\ n0 = c.m
        /\ f0 \in File /\ devMem' = [devMem EXCEPT ![f0] = @ \cup {n0}]
    BY <1>5, <1>9, <2>1
  <2>4. call' = [call EXCEPT ![t] = Idle] /\ FileOK(Idle) /\ \A u \in Thread : u # t => Exclude(Idle, call[u])
    BY <1>9, ReturnFacts
  <2>5. /\ devMem' \in [File -> SUBSET Mem]
        /\ \A g \in File : devMem'[g] = IF g = f0 THEN devMem[f0] \cup {n0} ELSE devMem[g]
    <3> HIDE DEF n0, f0
    <3> QED BY <1>1, <2>3
  <2>6. BlocksOwned'
    <3> HIDE DEF n0, f0
    <3>0. \A n \in Mem : OnList(n)' <=> OnList(n) \/ n = n0
      BY <1>2, <2>3, <2>5 DEF OnList
    <3>1. \A n \in pages' \ lost' : OnList(n)' \/ Maps(n, t)
      BY <1>1, <1>4, <1>9, <2>3, <3>0
    <3>2. /\ \A n \in Mem : OnList(n)' => n \in pages' \ lost'
          /\ \A n \in Mem : Maps(n, t) => n \in pages' \ lost' /\ ~OnList(n)'
      BY <1>3, <1>4, <1>9, <2>3, <3>0
    <3>3. lost' \subseteq pages' /\ pages' \in SUBSET Mem /\ sesMem' = sesMem
      BY <1>1, <1>2, <1>3, <1>9
    <3>4. /\ \A f, g \in File : \A m \in Mem : m \in devMem'[f] /\ m \in devMem'[g] => f = g
          /\ \A f \in File, s \in Sess : \A m \in Mem : ~(m \in devMem'[f] /\ m \in sesMem'[s])
      <4>1. (\A f \in File : n0 \notin devMem[f]) /\ \A s \in Sess : n0 \notin sesMem[s]
        BY <2>3 DEF OnList
      <4> QED BY <1>2, <1>3, <2>3, <2>5, <4>1
    <3> QED BY <1>3, <2>4, <3>1, <3>2, <3>3, <3>4, IdleFacts, BlocksStep
  <2>7. ListsInv'
    <3>1. pages' \in SUBSET Mem /\ lost' \in SUBSET Mem /\ sesMem' \in [Sess -> SUBSET Mem]
      BY <1>1, <1>2, <1>9
    <3> QED BY <1>2, <2>1, <2>3, <2>4, <2>5, <2>6, <3>1, IdleFacts, MemoryKeeps
  <2> QED BY <2>2, <2>7 DEF FilesInv
<1> QED BY <1>6, <1>7, <1>8, <1>9 DEF MmapStep, otz_client_mmap

LEMMA SharedMemKeeps ==
    ASSUME ListsInv, NEW t \in Thread, otz_client_shared_mem_alloc(t) \/ otz_client_shared_mem_free(t),
           UNCHANGED <<kern, fileCnt, notify>>, raced = {}
    PROVE  FilesInv'
<1> DEFINE c == call[t]
           n0 == c.m
           f0 == c.f
           s0 == c.s
<1>1. /\ c.op \in {"shared_mem_alloc", "shared_mem_free"} /\ c.at = "walk" /\ Returns(t) /\ Changed(t)
      /\ UNCHANGED <<lists, lost, world>> /\ c.op \in Client
  BY DEF otz_client_shared_mem_alloc, otz_client_shared_mem_free, At, Client, Locked
<1>2. /\ f0 \in File /\ s0 \in Sess /\ n0 \in Mem /\ "region" \in kern /\ pages \in SUBSET Mem /\ lost \in SUBSET Mem
      /\ devMem \in [File -> SUBSET Mem] /\ sesMem \in [Sess -> SUBSET Mem] /\ BlocksOwned
  BY <1>1, ClientFacts
<1>3. /\ \A f, g \in File : \A m \in Mem : m \in devMem[f] /\ m \in devMem[g] => f = g
      /\ \A s, r \in Sess : \A m \in Mem : m \in sesMem[s] /\ m \in sesMem[r] => s = r
      /\ \A f \in File, s \in Sess : \A m \in Mem : ~(m \in devMem[f] /\ m \in sesMem[s])
      /\ \A m \in Mem : OnList(m) => m \in pages \ lost
      /\ lost \subseteq pages
  BY <1>2 DEF BlocksOwned
<1>4. /\ \A m \in Mem : Maps(m, t) => m \in pages \ lost /\ ~OnList(m)
      /\ \A m \in pages \ lost : OnList(m) \/ Maps(m, t)
  BY <1>1, <1>2 DEF BlocksOwned, Maps
<1>5. call' = [call EXCEPT ![t] = Idle] /\ FileOK(Idle) /\ \A u \in Thread : u # t => Exclude(Idle, call[u])
  BY <1>1, ReturnFacts
<1>6. RacesKnown'
  BY <1>1, MeetingsKnown DEF Changed
<1>7. ASSUME pages' \in SUBSET Mem, devMem' \in [File -> SUBSET Mem], sesMem' \in [Sess -> SUBSET Mem],
             BlocksOwned'
      PROVE  FilesInv'
  <2>1. lost' \in SUBSET Mem /\ UNCHANGED <<kern, fileCnt, notify, lists, world>>
    BY <1>1, <1>2
  <2>2. ListsInv'
    BY <1>1, <1>2, <1>5, <1>7, <2>1, IdleFacts, MemoryKeeps
  <2> QED BY <1>6, <2>2 DEF FilesInv
<1>8. CASE otz_client_shared_mem_alloc(t)
  <2>1. /\ n0 \in devMem[f0] /\ devMem' = [devMem EXCEPT ![f0] = @ \ {n0}]
        /\ sesMem' = [sesMem EXCEPT ![s0] = @ \cup {n0}] /\ pages' = pages /\ lost' = lost
    BY <1>8 DEF otz_client_shared_mem_alloc
  <2> HIDE DEF n0, f0, s0
  <2>2. /\ devMem' \in [File -> SUBSET Mem] /\ sesMem' \in [Sess -> SUBSET Mem] /\ pages' \in SUBSET Mem
        /\ \A g \in File : devMem'[g] = IF g = f0 THEN devMem[f0] \ {n0} ELSE devMem[g]
        /\ \A r \in Sess : sesMem'[r] = IF r = s0 THEN sesMem[s0] \cup {n0} ELSE sesMem[r]
    BY <1>2, <2>1
  <2>3. (\A f \in File : n0 \in devMem[f] => f = f0) /\ \A s \in Sess : n0 \notin sesMem[s]
    BY <1>2, <1>3, <2>1
  <2>4. ASSUME NEW n \in Mem PROVE OnList(n)' <=> OnList(n)
    <3>1. CASE n = n0
      BY <1>2, <2>1, <2>2, <3>1 DEF OnList
    <3>2. CASE n # n0
      BY <2>2, <3>2 DEF OnList
    <3> QED BY <3>1, <3>2
  <2>5. BlocksOwned'
    <3>1. /\ \A n \in pages' \ lost' : OnList(n)' \/ Maps(n, t)
          /\ \A n \in Mem : OnList(n)' => n \in pages' \ lost'
          /\ \A n \in Mem : Maps(n, t) => n \in pages' \ lost' /\ ~OnList(n)'
          /\ lost' \subseteq pages'
      BY <1>2, <1>3, <1>4, <2>1, <2>4
    <3>2. /\ \A f, g \in File : \A m \in Mem : m \in devMem'[f] /\ m \in devMem'[g] => f = g
          /\ \A s, r \in Sess : \A m \in Mem : m \in sesMem'[s] /\ m \in sesMem'[r] => s = r
          /\ \A f \in File, s \in Sess : \A m \in Mem : ~(m \in devMem'[f] /\ m \in sesMem'[s])
      BY <1>3, <2>2, <2>3
    <3> QED BY <1>5, <2>2, <3>1, <3>2, IdleFacts, BlocksStep
  <2> QED BY <1>7, <2>2, <2>5
<1>9. CASE otz_client_shared_mem_free(t)
  <2>1. /\ n0 \in sesMem[s0] /\ devMem' = devMem
        /\ sesMem' = [sesMem EXCEPT ![s0] = @ \ {n0}] /\ pages' = pages \ {n0} /\ lost' = lost
    BY <1>9 DEF otz_client_shared_mem_free
  <2> HIDE DEF n0, f0, s0
  <2>2. /\ devMem' \in [File -> SUBSET Mem] /\ sesMem' \in [Sess -> SUBSET Mem] /\ pages' \in SUBSET Mem
        /\ \A r \in Sess : sesMem'[r] = IF r = s0 THEN sesMem[s0] \ {n0} ELSE sesMem[r]
    BY <1>2, <2>1
  <2>3. /\ \A s \in Sess : n0 \in sesMem[s] => s = s0
        /\ \A f \in File : n0 \notin devMem[f]
        /\ OnList(n0)
    BY <1>2, <1>3, <2>1 DEF OnList
  <2>4. ASSUME NEW n \in Mem PROVE OnList(n)' <=> OnList(n) /\ n # n0
    <3>1. CASE n = n0
      BY <2>1, <2>2, <2>3, <3>1 DEF OnList
    <3>2. CASE n # n0
      BY <2>1, <2>2, <3>2 DEF OnList
    <3> QED BY <3>1, <3>2
  <2>5. BlocksOwned'
    <3>1. /\ \A n \in pages' \ lost' : OnList(n)' \/ Maps(n, t)
          /\ \A n \in Mem : OnList(n)' => n \in pages' \ lost'
          /\ \A n \in Mem : Maps(n, t) => n \in pages' \ lost' /\ ~OnList(n)'
          /\ lost' \subseteq pages'
      BY <1>2, <1>3, <1>4, <2>1, <2>3, <2>4
    <3>2. /\ \A f, g \in File : \A m \in Mem : m \in devMem'[f] /\ m \in devMem'[g] => f = g
          /\ \A s, r \in Sess : \A m \in Mem : m \in sesMem'[s] /\ m \in sesMem'[r] => s = r
          /\ \A f \in File, s \in Sess : \A m \in Mem : ~(m \in devMem'[f] /\ m \in sesMem'[s])
      BY <1>3, <2>1, <2>2
    <3> QED BY <1>5, <2>2, <3>1, <3>2, IdleFacts, BlocksStep
  <2> QED BY <1>7, <2>2, <2>5
<1> QED BY <1>8, <1>9

\* Steps on the encode contexts of a session.
LEMMA ContextKeeps ==
    ASSUME ListsInv, NEW t \in Thread, NEW d \in CallType, call' = [call EXCEPT ![t] = d],
           UNCHANGED <<kern, fileCnt, notify, files, held, sessions, memory, world>>,
           call[t].op \in {"encode", "send_cmd", "operation_release"}, FileOK(d),
           \A u \in Thread : u # t => Exclude(d, call[u]),
           KeepsSession(d) => Has(d), d.op \in {"none", "encode", "send_cmd"},
           contexts' \in [Sess -> SUBSET Enc], ContextsOwned'
    PROVE  ListsInv'
<1>1. FilesTypeOK /\ SessionsLinked /\ BlocksOwned /\ "region" \in kern
  <2>1. call[t].op \in Client
    BY DEF Client, Locked
  <2> QED BY <2>1, ClientFacts
<1>2. UNCHANGED <<kern, fileCnt, files, held, notify>> /\ UNCHANGED <<sessions, secure, orphan>>
  BY DEF world
<1>3. SessionsLinked'
  <2>1. /\ ~At(t, "session_close", "unlink") /\ ~At(t, "session_open", "link")
        /\ ~(d.op = "session_open" /\ d.at = "link") /\ ~(d.op = "session_close" /\ d.at = "unlink")
    BY DEF At
  <2> QED BY <1>1, <1>2, <2>1, SessionsFrame
<1>4. BlocksOwned'
  BY <1>1, BlocksFrame
<1>5. FilesHeld' /\ CallsExclude' /\ FilesTypeOK'
  <2>1. /\ sessions' \in [File -> [Service -> Seq(Sess)]]
        /\ pages' \in SUBSET Mem /\ lost' \in SUBSET Mem
        /\ devMem' \in [File -> SUBSET Mem] /\ sesMem' \in [Sess -> SUBSET Mem]
        /\ secure' \in SUBSET Sess /\ orphan' \in SUBSET Sess
    BY <1>1, <1>2 DEF FilesTypeOK, memory
  <2> QED BY <1>1, <1>2, <2>1, ClientFrame
<1> QED BY <1>3, <1>4, <1>5 DEF ListsInv

LEMMA DriverEncodeKeeps ==
    ASSUME ListsInv, NEW t \in Thread, otz_client_prepare_encode(t), UNCHANGED <<kern, fileCnt, notify>>,
           raced = {}
    PROVE  FilesInv'
<1> DEFINE c == call[t]
<1>1. /\ c.op \in {"encode", "send_cmd"} /\ c.op \in Client /\ c.op \in Client \ {"mmap"}
      /\ UNCHANGED <<files, held, sessions, memory, world>>
  BY DEF otz_client_prepare_encode, Client, Locked
<1>2. /\ c \in CallType /\ c.f \in File /\ c.v \in Service /\ c.s \in Sess /\ c.e \in Enc /\ "region" \in kern
      /\ contexts \in [Sess -> SUBSET Enc] /\ FilesTypeOK /\ ContextsOwned /\ (KeepsSession(c) => Has(c))
  BY <1>1, ClientFacts
<1>3. \A u \in Thread : u # t => Exclude(c, call[u])
  BY DEF ListsInv, CallsExclude
<1>4. ASSUME c.at = "walk", Finds(c), NEW at \in {"busy", "new"}, MovesTo(t, at),
             at = "busy" => c.e \in contexts[c.s], UNCHANGED <<contexts, raced>>
      PROVE  FilesInv'
  <2>1. at \in Points /\ Has(c)
    BY <1>4 DEF Points, Finds
  <2>2. UNCHANGED <<kern, fileCnt, notify, lists, memory, world>>
    BY <1>1, <1>4 DEF lists
  <2>3. /\ call[t].at \notin {"wait", "unlink", "link"} /\ at \notin {"link", "unlink"} /\ at # "resume"
        /\ (at \in {"busy", "wait"} => call[t].e \in contexts[call[t].s])
    BY <1>4
  <2>4. ListsInv'
    BY <1>1, <1>4, <2>1, <2>2, <2>3, GoesOn
  <2> QED BY <1>4, <2>4 DEF FilesInv, RacesKnown
<1>5. ASSUME c.at = "new", NEW e \in Enc \ ((UNION {contexts[s] : s \in Sess}) \cup Linking),
             call' = [call EXCEPT ![t] = [call[t] EXCEPT !.at = "link", !.e = e]],
             UNCHANGED <<contexts, raced>>
      PROVE  FilesInv'
  <2>1. PICK d \in CallType : /\ d = [c EXCEPT !.at = "link", !.e = e] /\ d.op = c.op /\ d.at = "link"
                             /\ d.e = e /\ d.f = c.f /\ d.v = c.v /\ d.s = c.s /\ d.m = c.m
    <3>1. "link" \in Points /\ e \in Enc /\ c \in CallType
      BY <1>2 DEF Points
    <3> HIDE DEF c
    <3>2. [c EXCEPT !.at = "link", !.e = e] \in CallType
      BY <3>1 DEF CallType
    <3> QED BY <3>1, <3>2 DEF CallType
  <2>2. call' = [call EXCEPT ![t] = d] /\ call[t].op # "mmap" /\ d.op # "mmap"
    BY <1>1, <1>5, <2>1
  <2>3. FileOK(d)
    BY <1>1, <2>1 DEF ListsInv, FilesHeld, FileOK, Locked
  <2>4. ASSUME NEW u \in Thread, u # t PROVE Exclude(d, call[u])
    <3>1. LinksContext(call[u]) => call[u].e # e
      BY <1>5 DEF LinksContext, Linking
    <3> QED BY <1>1, <1>3, <1>5, <2>1, <2>4, <3>1 DEF Exclude, LinksContext, Locked
  <2>5. KeepsSession(d) => Has(d)
    <3>1. Has(c)
      BY <1>1, <1>2, <1>5 DEF KeepsSession
    <3> QED BY <2>1, <3>1 DEF Has
  <2>6. /\ ~KeepsContext(d) /\ \A s \in Sess : d.e \notin contexts[s]
        /\ ~At(t, "session_close", "unlink") /\ ~At(t, "session_open", "link")
        /\ ~(d.op = "session_open" /\ d.at = "link") /\ ~(d.op = "session_close" /\ d.at = "unlink")
    BY <1>1, <1>5, <2>1 DEF KeepsContext, At
  <2>7. UNCHANGED <<kern, fileCnt, notify, lists, memory, world>>
    BY <1>1, <1>5 DEF lists
  <2>8. ListsInv'
    BY <1>2, <2>2, <2>3, <2>4, <2>5, <2>6, <2>7, QuietKeeps
  <2> QED BY <1>5, <2>8 DEF FilesInv, RacesKnown
<1>6. ASSUME c.at = "link", MovesTo(t, "busy"), contexts' = [contexts EXCEPT ![c.s] = @ \cup {c.e}],
             Changed(t)
      PROVE  FilesInv'
  <2>1. RacesKnown'
    BY <1>1, <1>6, MeetingsKnown DEF Changed
  <2>2. PICK d \in CallType :
              /\ call' = [call EXCEPT ![t] = d] /\ d = [call[t] EXCEPT !.at = "busy"] /\ d.at = "busy"
              /\ d.op = call[t].op /\ d.f = call[t].f /\ d.v = call[t].v /\ d.s = call[t].s
              /\ d.e = call[t].e /\ d.m = call[t].m
              /\ FileOK(d)
              /\ (call[t].at # "wait" \/ "busy" = "wait") /\ ~LinksContext(d)
                    => \A u \in Thread : u # t => Exclude(d, call[u])
    <3>1. "busy" \in Points
      BY DEF Points
    <3> QED BY <1>1, <1>6, <3>1, MoveFacts
  <2>3. \A u \in Thread : u # t => Exclude(d, call[u])
    BY <1>6, <2>2 DEF LinksContext
  <2>4. KeepsSession(d) => Has(d)
    <3>1. Has(c)
      BY <1>1, <1>2, <1>6 DEF KeepsSession
    <3> QED BY <2>2, <3>1 DEF Has
  <2> DEFINE e0 == c.e
             s0 == c.s
  <2>5. /\ e0 \in Enc /\ s0 \in Sess /\ d.e = e0 /\ d.s = s0 /\ contexts' = [contexts EXCEPT ![s0] = @ \cup {e0}]
        /\ \A s \in Sess : e0 \notin contexts[s]
        /\ \A u \in Thread : u # t /\ LinksContext(call[u]) => call[u].e # e0
    <3>1. LinksContext(c)
      BY <1>1, <1>6 DEF LinksContext
    <3> QED BY <1>2, <1>3, <1>6, <2>2, <3>1 DEF ContextsOwned, Exclude
  <2> HIDE DEF e0, s0
  <2>6. /\ contexts' \in [Sess -> SUBSET Enc]
        /\ \A r \in Sess : contexts'[r] = IF r = s0 THEN contexts[s0] \cup {e0} ELSE contexts[r]
    BY <1>2, <2>5
  <2>7. ContextsOwned'
    <3>1. call'[t] = d /\ \A u \in Thread : u # t => call'[u] = call[u]
      BY <1>2, <2>2, CallTo
    <3>2. \A s, r \in Sess : \A e \in Enc : e \in contexts'[s] /\ e \in contexts'[r] => s = r
      BY <1>2, <2>5, <2>6 DEF ContextsOwned
    <3>3. ASSUME NEW u \in Thread
          PROVE  /\ KeepsContext(call'[u]) => call'[u].e \in contexts'[call'[u].s]
                 /\ LinksContext(call'[u]) => \A s \in Sess : call'[u].e \notin contexts'[s]
      <4>1. CASE u = t
        <5>1. call'[u] = d /\ d.at = "busy" /\ d.e \in contexts'[d.s]
          BY <2>2, <2>5, <2>6, <3>1, <4>1
        <5> QED BY <5>1 DEF LinksContext
      <4>2. CASE u # t
        <5>1. call'[u] = call[u] /\ call[u].s \in Sess
          BY <1>2, <3>1, <4>2 DEF FilesTypeOK
        <5>2. /\ KeepsContext(call[u]) => call[u].e \in contexts[call[u].s]
              /\ LinksContext(call[u]) => \A s \in Sess : call[u].e \notin contexts[s]
          BY <1>2 DEF ContextsOwned
        <5> QED BY <2>5, <2>6, <4>2, <5>1, <5>2
      <4> QED BY <4>1, <4>2
    <3> QED BY <3>2, <3>3 DEF ContextsOwned, KeepsContext, LinksContext
  <2>8. ListsInv'
    <3>1. /\ call[t].op \in {"encode", "send_cmd", "operation_release"} /\ d.op \in {"none", "encode", "send_cmd"}
          /\ UNCHANGED <<kern, fileCnt, notify, files, held, sessions, memory, world>>
      BY <1>1, <2>2
    <3> QED BY <2>2, <2>3, <2>4, <2>6, <2>7, <3>1, ContextKeeps
  <2> QED BY <2>1, <2>8 DEF FilesInv
<1>7. CASE c.at = "walk" /\ Finds(c) /\ MovesTo(t, IF c.e \in contexts[c.s] THEN "busy" ELSE "new")
           /\ UNCHANGED <<contexts, raced>>
  <2> DEFINE a == IF c.e \in contexts[c.s] THEN "busy" ELSE "new"
  <2>1. /\ a \in {"busy", "new"} /\ (a = "busy" => c.e \in contexts[c.s])
        /\ c.at = "walk" /\ Finds(c) /\ MovesTo(t, a) /\ UNCHANGED <<contexts, raced>>
    BY <1>7
  <2> HIDE DEF a, c
  <2> QED BY <1>4, <2>1
<1> QED BY <1>5, <1>6, <1>7 DEF otz_client_prepare_encode

LEMMA SendKeeps ==
    ASSUME ListsInv, NEW t \in Thread, otz_client_prepare_decode(t) \/ otz_client_send_cmd(t),
           UNCHANGED <<kern, fileCnt, notify>>, raced = {}
    PROVE  FilesInv'
<1> DEFINE c == call[t]
<1>1. /\ c.op \in {"decode", "send_cmd"} /\ c.op \in Client /\ c.op \in Client \ {"mmap"}
      /\ UNCHANGED <<kern, fileCnt, notify, lists, memory, world>>
  <2>1. c.op \in {"decode", "send_cmd"} /\ UNCHANGED <<lists, memory, world>>
    BY DEF otz_client_prepare_decode, otz_client_send_cmd, At
  <2> QED BY <2>1 DEF Client, Locked
<1>2. /\ c \in CallType /\ "region" \in kern /\ (KeepsSession(c) => Has(c))
      /\ (KeepsContext(c) => c.e \in contexts[c.s])
  BY <1>1, ClientFacts
<1>3. CASE otz_client_prepare_decode(t)
  <2>1. /\ c.at = "walk" /\ Has(c) /\ c.e \in contexts[c.s] /\ MovesTo(t, "busy") /\ "busy" \in Points
        /\ raced' = raced
    BY <1>3 DEF otz_client_prepare_decode, At, Points
  <2>2. ListsInv'
    BY <1>1, <2>1, GoesOn
  <2> QED BY <2>1, <2>2 DEF FilesInv, RacesKnown
<1>4. CASE At(t, "send_cmd", "busy") /\ MovesTo(t, "wait") /\ UNCHANGED raced
  <2>1. c.at = "busy" /\ KeepsContext(c) /\ Has(c) /\ c.e \in contexts[c.s] /\ "wait" \in Points
    BY <1>2, <1>4 DEF At, KeepsContext, KeepsSession, Points
  <2>2. ListsInv'
    BY <1>1, <1>4, <2>1, GoesOn
  <2> QED BY <1>4, <2>2 DEF FilesInv, RacesKnown
<1>5. CASE At(t, "send_cmd", "wait") /\ Unlocked("send_cmd") /\ MovesTo(t, "resume") /\ UNCHANGED raced
  <2>1. c.op = "send_cmd" /\ c.at = "wait" /\ KeepsContext(c) /\ Has(c) /\ c.e \in contexts[c.s]
        /\ "resume" \in Points
    BY <1>2, <1>5 DEF At, KeepsContext, KeepsSession, Points
  <2>2. PICK d \in CallType :
              /\ call' = [call EXCEPT ![t] = d] /\ d = [call[t] EXCEPT !.at = "resume"] /\ d.at = "resume"
              /\ d.op = call[t].op /\ d.f = call[t].f /\ d.v = call[t].v /\ d.s = call[t].s
              /\ d.e = call[t].e /\ d.m = call[t].m
              /\ FileOK(d)
              /\ (call[t].at # "wait" \/ "resume" = "wait") /\ ~LinksContext(d)
                    => \A u \in Thread : u # t => Exclude(d, call[u])
    BY <1>1, <1>5, <2>1, MoveFacts
  <2>3. \A u \in Thread : u # t => Exclude(d, call[u])
    BY <1>5, <2>1, <2>2 DEF Exclude, Unlocked, Locked, LinksContext
  <2>4. (KeepsSession(d) => Has(d)) /\ (KeepsContext(d) => d.e \in contexts[d.s]) /\ ~LinksContext(d)
    BY <2>1, <2>2 DEF Has, LinksContext
  <2>5. /\ ~At(t, "session_close", "unlink") /\ ~At(t, "session_open", "link")
        /\ ~(d.op = "session_open" /\ d.at = "link") /\ ~(d.op = "session_close" /\ d.at = "unlink")
        /\ call[t].op # "mmap" /\ d.op # "mmap"
    BY <2>1, <2>2 DEF At
  <2>6. ListsInv'
    BY <1>1, <1>2, <2>2, <2>3, <2>4, <2>5, QuietKeeps
  <2> QED BY <1>5, <2>6 DEF FilesInv, RacesKnown
<1>6. CASE At(t, "send_cmd", "wait") /\ Returns(t) /\ raced' = Stale(t)
  <2>1. raced' = {<<c, Idle>>} /\ c.op = "send_cmd"
    BY <1>6 DEF Stale, At
  <2>2. RacesKnown'
    <3>1. ASSUME NEW r \in raced' PROVE r[2] = Idle /\ r[1].op = "send_cmd"
      <4>1. r = <<c, Idle>>
        BY <2>1
      <4> HIDE DEF c
      <4> QED BY <2>1, <4>1
    <3> QED BY <3>1 DEF RacesKnown
  <2> QED BY <2>1, <2>2 DEF FilesInv
<1>7. CASE otz_client_send_cmd(t)
  BY <1>4, <1>5, <1>6, <1>7 DEF otz_client_send_cmd
<1> QED BY <1>3, <1>7

LEMMA DriverReleaseKeeps ==
    ASSUME ListsInv, NEW t \in Thread, otz_client_operation_release(t), UNCHANGED <<kern, fileCnt, notify>>,
           raced = {}
    PROVE  FilesInv'
<1> DEFINE c == call[t]
           e0 == c.e
           s0 == c.s
<1>1. /\ c.op = "operation_release" /\ c.op \in Client /\ c.at = "walk" /\ Has(c) /\ c.e \in contexts[c.s]
      /\ contexts' = [contexts EXCEPT ![s0] = @ \ {e0}] /\ Returns(t) /\ Changed(t)
      /\ UNCHANGED <<files, held, sessions, memory, world>>
  BY DEF otz_client_operation_release, At, Client
<1>2. /\ s0 \in Sess /\ e0 \in Enc /\ contexts \in [Sess -> SUBSET Enc] /\ FilesTypeOK /\ ContextsOwned
  BY <1>1, ClientFacts
<1>3. RacesKnown'
  BY <1>1, MeetingsKnown DEF Changed
<1>4. SUFFICES ASSUME Disturbed(t) = {} PROVE ListsInv'
  BY <1>1, <1>3 DEF FilesInv, Changed
<1>5. call' = [call EXCEPT ![t] = Idle] /\ FileOK(Idle) /\ \A u \in Thread : u # t => Exclude(Idle, call[u])
  BY <1>1, ReturnFacts
<1>6. \A u \in Thread : u # t /\ KeepsContext(call[u]) => call[u].e # e0
  BY <1>1, <1>4, Undisturbed DEF Disturbs
<1> HIDE DEF e0, s0
<1>7. /\ contexts' \in [Sess -> SUBSET Enc]
      /\ \A r \in Sess : contexts'[r] = IF r = s0 THEN contexts[s0] \ {e0} ELSE contexts[r]
  BY <1>1, <1>2
<1>8. ContextsOwned'
  <2>1. call'[t] = Idle /\ \A u \in Thread : u # t => call'[u] = call[u]
    BY <1>2, <1>5, IdleFacts, CallTo
  <2>2. \A s, r \in Sess : \A e \in Enc : e \in contexts'[s] /\ e \in contexts'[r] => s = r
    BY <1>2, <1>7 DEF ContextsOwned
  <2>3. ASSUME NEW u \in Thread
        PROVE  /\ KeepsContext(call'[u]) => call'[u].e \in contexts'[call'[u].s]
               /\ LinksContext(call'[u]) => \A s \in Sess : call'[u].e \notin contexts'[s]
    <3>1. CASE u = t
      BY <2>1, <3>1, IdleFacts
    <3>2. CASE u # t
      <4>1. call'[u] = call[u] /\ call[u].s \in Sess
        BY <1>2, <2>1, <3>2 DEF FilesTypeOK
      <4>2. /\ KeepsContext(call[u]) => call[u].e \in contexts[call[u].s]
            /\ LinksContext(call[u]) => \A s \in Sess : call[u].e \notin contexts[s]
        BY <1>2 DEF ContextsOwned
      <4> QED BY <1>6, <1>7, <3>2, <4>1, <4>2
    <3> QED BY <3>1, <3>2
  <2> QED BY <2>2, <2>3 DEF ContextsOwned, KeepsContext, LinksContext
<1>9. /\ call[t].op \in {"encode", "send_cmd", "operation_release"} /\ Idle.op \in {"none", "encode", "send_cmd"}
      /\ UNCHANGED <<kern, fileCnt, notify, files, held, sessions, memory, world>>
      /\ Idle \in CallType /\ ~KeepsSession(Idle)
  BY <1>1, IdleFacts
<1> QED BY <1>5, <1>7, <1>8, <1>9, ContextKeeps

LEMMA FilesStay == ASSUME ListsInv, UNCHANGED fvars PROVE ListsInv'
<1>1. /\ UNCHANGED <<kern, fileCnt, files, held, sessions, contexts, pages, devMem, sesMem, lost>>
      /\ UNCHANGED <<secure, orphan, notify, call>>
  BY DEF fvars, lists, memory, world
<1>2. FilesTypeOK'
  BY <1>1 DEF ListsInv, FilesTypeOK
<1>3. FilesHeld'
  BY <1>1 DEF ListsInv, FilesHeld, FileOK
<1>4. SessionsLinked'
  BY <1>1 DEF ListsInv, SessionsLinked, Linked, At, KeepsSession, KeepsContext, Has
<1>5. ContextsOwned' /\ BlocksOwned'
  BY <1>1 DEF ListsInv, ContextsOwned, KeepsContext, LinksContext, BlocksOwned, OnList
<1>6. CallsExclude'
  BY <1>1 DEF ListsInv, CallsExclude, Exclude, LinksContext
<1> QED BY <1>2, <1>3, <1>4, <1>5, <1>6 DEF ListsInv

LEMMA FilesNextInv == FilesInv /\ [OtzFilesNext]_fvars => FilesInv'
<1> SUFFICES ASSUME FilesInv, [OtzFilesNext]_fvars PROVE FilesInv'
  OBVIOUS
<1>1. CASE UNCHANGED fvars
  <2>1. raced' = raced
    BY <1>1 DEF fvars
  <2> QED BY <1>1, <2>1, FilesStay DEF FilesInv, RacesKnown
<1>2. ASSUME OtzFilesNext PROVE ListsInv /\ raced = {}
  BY <1>2 DEF OtzFilesNext, FilesInv
<1>3. CASE OtzFilesNext /\ (otz_client_init \/ otz_client_exit)
  BY <1>2, <1>3, LoadKeeps
<1>4. ASSUME OtzFilesNext, NEW t \in Thread, OpenStep(t) \/ ReleaseStep(t) PROVE FilesInv'
  BY <1>2, <1>4, OpenKeeps, ReleaseKeeps
<1>5. ASSUME OtzFilesNext, NEW t \in Thread, ClientStep(t), UNCHANGED <<kern, fileCnt, notify>> PROVE FilesInv'
  <2>1. ListsInv /\ raced = {}
    BY <1>2, <1>5
  <2>2. CASE Begins(t) \/ Ends(t)
    <3>1. ListsInv'
      BY <1>5, <2>1, <2>2, BeginsKeeps, EndsKeeps
    <3>2. raced' = raced
      BY <2>2 DEF Begins, Ends
    <3> QED BY <2>1, <3>1, <3>2 DEF FilesInv, RacesKnown
  <2>3. CASE otz_client_session_open(t) \/ otz_client_session_close(t)
    BY <1>5, <2>1, <2>3, SessionOpenKeeps, SessionCloseKeeps
  <2>4. CASE MmapStep(t) \/ otz_client_shared_mem_alloc(t) \/ otz_client_shared_mem_free(t)
    BY <1>5, <2>1, <2>4, MmapKeeps, SharedMemKeeps
  <2>5. CASE otz_client_prepare_encode(t) \/ otz_client_prepare_decode(t) \/ otz_client_send_cmd(t)
    BY <1>5, <2>1, <2>5, DriverEncodeKeeps, SendKeeps
  <2>6. CASE otz_client_operation_release(t)
    BY <1>5, <2>1, <2>6, DriverReleaseKeeps
  <2> QED BY <1>5, <2>2, <2>3, <2>4, <2>5, <2>6 DEF ClientStep
<1> QED BY <1>1, <1>3, <1>4, <1>5 DEF OtzFilesNext

\* The inductive invariant of the driver's lists, for every number of threads,
\* files, services, sessions, contexts and page blocks, with a call's walks,
\* changes, sleeps and mutex its own: which calls of otz_client_main.c can meet
\* in a list, and how the lists are linked until two do.
THEOREM FilesInvariant == OtzFilesSpec => []FilesInv
<1>1. FilesInv /\ [OtzFilesNext]_fvars => FilesInv'
  BY FilesNextInv
<1> QED BY <1>1, FilesInitInv, PTL DEF OtzFilesSpec

LEMMA AtMostOne ==
    ASSUME NEW T, \A x, y \in T : x = y
    PROVE  Cardinality(T) \in Nat /\ Cardinality(T) <= 1 /\ (T = {} => Cardinality(T) = 0)
<1>1. CASE T = {}
  BY <1>1, FS_EmptySet
<1>2. CASE T # {}
  <2>1. PICK x \in T : TRUE
    BY <1>2
  <2>2. T = {x}
    BY <2>1
  <2> QED BY <1>2, <2>2, FS_Singleton
<1> QED BY <1>1, <1>2

LEMMA FilesInvExact == FilesInv => FilesExact
<1> SUFFICES ASSUME FilesInv, raced = {} PROVE PagesListedOnce /\ SessionsKnown /\ (held # {} => notify)
  BY DEF FilesInv, FilesExact
<1>1. ListsInv /\ FilesTypeOK /\ FilesHeld /\ SessionsLinked /\ BlocksOwned
  BY DEF FilesInv, ListsInv
<1>2. PagesListedOnce
  <2>1. \A m : m \in Mapping <=> \E t \in Thread : call[t].op = "mmap" /\ call[t].m = m
    BY <1>1 DEF Mapping, Threads, At, BlocksOwned
  <2>2. \A m : m \in ListedMem <=> OnList(m)
    BY DEF ListedMem, OnList
  <2>3. \A m \in Mapping : m \in pages \ lost /\ m \in Mem /\ ~OnList(m)
    BY <1>1, <2>1 DEF BlocksOwned, FilesTypeOK
  <2>4. \A m : OnList(m) => m \in Mem
    BY <1>1 DEF OnList, FilesTypeOK
  <2>5. pages = ListedMem \cup lost \cup Mapping
    BY <1>1, <2>1, <2>2, <2>3, <2>4 DEF BlocksOwned, FilesTypeOK
  <2>6. ASSUME NEW m \in Mem
        PROVE  Cardinality({f \in File : m \in devMem[f]}) + Cardinality({s \in Sess : m \in sesMem[s]})
                  + (IF m \in lost \cup Mapping THEN 1 ELSE 0) <= 1
    <3> DEFINE A == {f \in File : m \in devMem[f]}
               B == {s \in Sess : m \in sesMem[s]}
    <3>1. (\A x, y \in A : x = y) /\ (\A x, y \in B : x = y)
      BY <1>1 DEF BlocksOwned
    <3>2. A = {} \/ B = {}
      BY <1>1 DEF BlocksOwned
    <3>3. m \in lost \cup Mapping => A = {} /\ B = {}
      <4>1. m \in lost \cup Mapping => ~OnList(m)
        BY <1>1, <2>3 DEF BlocksOwned
      <4> QED BY <4>1 DEF OnList
    <3> HIDE DEF A, B
    <3>4. Cardinality(A) \in Nat /\ Cardinality(A) <= 1 /\ (A = {} => Cardinality(A) = 0)
      BY <3>1, AtMostOne
    <3>5. Cardinality(B) \in Nat /\ Cardinality(B) <= 1 /\ (B = {} => Cardinality(B) = 0)
      BY <3>1, AtMostOne
    <3>6. Cardinality(A) + Cardinality(B) + (IF m \in lost \cup Mapping THEN 1 ELSE 0) <= 1
      BY <3>2, <3>3, <3>4, <3>5
    <3> QED BY <3>6 DEF A, B
  <2> QED BY <2>5, <2>6 DEF PagesListedOnce
<1>3. SessionsKnown
  <2> DEFINE linked == UNION {SessionsOf(f) : f \in File}
  <2>1. \A f \in File, v \in Service : Range(sessions[f][v]) \subseteq Sess
    BY <1>1, RangeIn
  <2>2. \A s : s \in linked <=> s \in Sess /\ Linked(s)
    BY <2>1 DEF SessionsOf, Linked
  <2>3. /\ \A s : s \in SessionsAt("session_close", "unlink")
                   <=> \E t \in Thread : At(t, "session_close", "unlink") /\ call[t].s = s
        /\ \A s : s \in SessionsAt("session_open", "link")
                   <=> \E t \in Thread : At(t, "session_open", "link") /\ call[t].s = s
    BY DEF SessionsAt, Threads
  <2> HIDE DEF linked
  <2>4. linked \subseteq secure \cup SessionsAt("session_close", "unlink")
    BY <1>1, <2>2, <2>3 DEF SessionsLinked
  <2>5. secure \subseteq linked \cup SessionsAt("session_open", "link") \cup orphan
    BY <1>1, <2>2, <2>3 DEF SessionsLinked, FilesTypeOK
  <2>6. ASSUME NEW f \in File, NEW g \in File, NEW v \in Service, NEW w \in Service, <<f, v>> # <<g, w>>
        PROVE  Range(sessions[f][v]) \cap Range(sessions[g][w]) = {}
    <3>1. f # g \/ v # w
      BY <2>6
    <3> QED BY <1>1, <2>1, <3>1 DEF SessionsLinked
  <2> QED BY <2>4, <2>5, <2>6 DEF SessionsKnown, linked
<1> QED BY <1>1, <1>2, <1>3 DEF FilesHeld

\* However the threads of any number of clients interleave, up to the first two
\* calls that meet in a list of otz_client_main.c: each allocated page block is
\* in exactly one list, being mapped, or lost by a failed call, so none is freed
\* twice; the sessions open in the secure world are those linked, each in one
\* place, those about to be, and those left behind; and the calls that meet are
\* those no mutex keeps apart.
THEOREM DriverListsExact == OtzFilesSpec => []FilesExact
BY FilesInvariant, FilesInvExact, PTL

LEMMA SendStep ==
    ASSUME FilesInv, OtzFilesNext, NEW t \in Thread, Sending(t), NEW s \in Sess,
           call[t].e \in contexts[s] \ contexts'[s]
    PROVE  \E u \in Thread : call'[u] # call[u] /\ call[u].f = call[t].f
<1> DEFINE f == call[t].f
           e == call[t].e
<1>1. ListsInv /\ raced = {}
  BY DEF OtzFilesNext, FilesInv
<1>2. /\ f \in File /\ call[t].v \in Service /\ e \in Enc /\ s = call[t].s /\ s \in Range(sessions[f][call[t].v])
      /\ FilesTypeOK /\ SessionsLinked
  <2>1. call[t].op \in Client /\ KeepsContext(call[t]) /\ KeepsSession(call[t])
    BY DEF Sending, Client, Locked, KeepsSession
  <2>2. /\ call[t].f \in File /\ call[t].v \in Service /\ call[t].s \in Sess /\ call[t].e \in Enc
        /\ Has(call[t]) /\ call[t].e \in contexts[call[t].s] /\ FilesTypeOK /\ SessionsLinked /\ ContextsOwned
    BY <1>1, <2>1, ClientFacts
  <2>3. s = call[t].s
    BY <2>2 DEF ContextsOwned
  <2> QED BY <2>2, <2>3 DEF Has
\* Whoever takes the context out of the list of s is at work on f.
<1>3. \A g \in File, w \in Service : s \in Range(sessions[g][w]) => g = f
  BY <1>2 DEF SessionsLinked
<1>4. e \in contexts[s] /\ e \notin contexts'[s]
  OBVIOUS
<1> HIDE DEF f, e
<1>5. ~(otz_client_init \/ otz_client_exit)
  BY <1>4 DEF otz_client_init, otz_client_exit, lists
<1>6. ASSUME NEW u \in Thread, OpenStep(u) \/ ReleaseStep(u) PROVE call'[u] # call[u] /\ call[u].f = f
  <2>1. /\ ReleaseStep(u) /\ At(u, "release", "exit") /\ MovesTo(u, "unlink") /\ Closed(SessionsOf(call[u].f))
    BY <1>4, <1>6 DEF OpenStep, ReleaseStep, otz_client_release, lists
  <2>2. call[u].op # "none"
    BY <2>1 DEF At
  <2>3. call[u] \in CallType /\ call[u].f \in File
    BY <1>1, <2>2, CallFile
  <2>4. s \in SessionsOf(call[u].f)
    BY <1>4, <2>1 DEF Closed
  <2>5. call[u].f = f
    BY <1>3, <2>3, <2>4 DEF SessionsOf
  <2>6. call'[u].at = "unlink" /\ call[u].at = "exit"
    <3>1. call \in [Thread -> CallType]
      BY <1>2 DEF FilesTypeOK, CallType
    <3> QED BY <2>1, <2>3, <3>1 DEF MovesTo, At, CallType
  <2> QED BY <2>5, <2>6
<1>7. ASSUME NEW u \in Thread, ClientStep(u) PROVE call'[u] # call[u] /\ call[u].f = f
  <2>1. CASE otz_client_session_close(u) \/ otz_client_operation_release(u)
    <3>1. /\ Returns(u) /\ call[u].s = s
          /\ \/ call[u].op = "operation_release" /\ Has(call[u])
             \/ call[u].op = "session_close" /\ call[u].at = "unlink"
      <4>1. CASE otz_client_session_close(u)
        <5>1. At(u, "session_close", "unlink") /\ Returns(u) /\ Closed({call[u].s})
          BY <1>4, <4>1 DEF otz_client_session_close, lists
        <5> QED BY <1>4, <5>1 DEF Closed, At
      <4>2. CASE otz_client_operation_release(u)
        <5>1. /\ At(u, "operation_release", "walk") /\ Has(call[u]) /\ Returns(u)
              /\ contexts' = [contexts EXCEPT ![call[u].s] = @ \ {call[u].e}]
          BY <4>2 DEF otz_client_operation_release
        <5> QED BY <1>2, <1>4, <5>1 DEF At, FilesTypeOK
      <4> QED BY <2>1, <4>1, <4>2
    <3>2. call[u].op \in Client /\ call[u].op # "none" /\ (call[u].op = "session_close" => KeepsSession(call[u]))
      BY <3>1 DEF Client, Locked, KeepsSession
    <3>3. Has(call[u]) /\ call[u].f \in File /\ call[u].v \in Service
      BY <1>1, <3>1, <3>2, ClientFacts
    <3>4. call'[u] = Idle
      BY <1>2, <3>1 DEF Returns, FilesTypeOK
    <3> QED BY <1>3, <3>1, <3>2, <3>3, <3>4, IdleFacts DEF Has
  <2>2. CASE otz_client_prepare_encode(u)
    BY <1>2, <1>4, <2>2 DEF otz_client_prepare_encode, FilesTypeOK
  <2>3. CASE Begins(u) \/ Ends(u) \/ otz_client_session_open(u) \/ MmapStep(u)
    BY <1>4, <2>3 DEF Begins, Ends, otz_client_session_open, MmapStep, lists
  <2>4. CASE \/ otz_client_shared_mem_alloc(u) \/ otz_client_shared_mem_free(u)
             \/ otz_client_prepare_decode(u) \/ otz_client_send_cmd(u)
    BY <1>4, <2>4 DEF otz_client_shared_mem_alloc, otz_client_shared_mem_free, otz_client_prepare_decode,
       otz_client_send_cmd, lists
  <2> QED BY <1>7, <2>1, <2>2, <2>3, <2>4 DEF ClientStep
<1> QED BY <1>5, <1>6, <1>7 DEF OtzFilesNext, f

\* While a send of otz_client_send_cmd is in the SMC, or waits for the secure
\* world with no mutex held, whoever takes its context out of a list is a thread
\* in a call on the same file.
THEOREM SendsUndisturbed == OtzFilesSpec => SendUndisturbed
<1>1. FilesInv /\ [OtzFilesNext]_fvars =>
         [\A t \in Thread :
             Sending(t) /\ (\E s \in Sess : call[t].e \in contexts[s] \ contexts'[s])
                => \E u \in Thread : call'[u] # call[u] /\ call[u].f = call[t].f]_fvars
  BY SendStep
<1> QED BY <1>1, FilesInvariant, PTL DEF OtzFilesSpec, SendUndisturbed

----------------------------------------------------------------------------
(* OtzApi: the counts and contexts of the client API.                       *)

LEMMA ApiInitInv == OtzApiInit => ApiInv
<1> SUFFICES ASSUME OtzApiInit PROVE ApiInv
  OBVIOUS
<1>1. /\ dev = [state |-> "undefined", sessions |-> 0] /\ drvSes = {} /\ odd = {} /\ stuck = {}
      /\ \A s \in ASess : ses[s] = NoSes /\ drvCtx[s] = {}
      /\ \A o \in AOp : op[o] = NoOp
      /\ \A m \in AMem : shm[m] = NoShm
  BY DEF OtzApiInit
<1>2. ApiTypeOK
  <2>1. NoSes \in otz_session_t
    BY DEF NoSes, otz_session_t, OtzState
  <2>2. NoOp \in otz_operation_t
    BY DEF NoOp, otz_operation_t, OtzState, OtzOperationType, NoId
  <2>3. NoShm \in otz_shared_mem_t
    BY DEF NoShm, otz_shared_mem_t, OtzState, NoId
  <2>4. [state |-> "undefined", sessions |-> 0] \in otz_device_t
    BY DEF otz_device_t, OtzState
  <2> QED BY <2>1, <2>2, <2>3, <2>4 DEF OtzApiInit, ApiTypeOK
<1>3. CountsExact
  <2>1. ASSUME NEW s \in ASess
        PROVE  /\ ses[s].ops = Cardinality(Attached(s))
               /\ ses[s].mems = Cardinality({m \in AMem : shm[m].state = "open" /\ shm[m].ses = s})
    <3>1. Attached(s) = {} /\ {m \in AMem : shm[m].state = "open" /\ shm[m].ses = s} = {}
      BY <1>1, ApiAssumption DEF Attached, NoOp, NoShm
    <3>2. ses[s].ops = 0 /\ ses[s].mems = 0
      BY <1>1 DEF NoSes
    <3>3. Cardinality({}) = 0
      BY FS_EmptySet
    <3> QED BY <3>1, <3>2, <3>3
  <2> QED BY <1>1, <2>1 DEF CountsExact
<1>4. ContextAlive /\ OperationsAttached /\ BlocksAttached
  BY <1>1 DEF ContextAlive, OperationsAttached, BlocksAttached, NoOp, NoShm
<1>5. SessionsAgree
  BY <1>1 DEF SessionsAgree, NoSes
<1> QED BY <1>2, <1>3, <1>4, <1>5 DEF ApiInv

\* What the type invariant says of the fields.
LEMMA ApiFields ==
    ASSUME ApiInv
    PROVE  /\ dev.state \in OtzState /\ dev.sessions \in Int
           /\ \A s \in ASess : /\ ses[s] \in otz_session_t /\ ses[s].state \in OtzState
                               /\ ses[s].ops \in Int /\ ses[s].mems \in Int
           /\ \A o \in AOp : /\ op[o] \in otz_operation_t /\ op[o].state \in OtzState
                             /\ op[o].type \in OtzOperationType
                             /\ op[o].ses \in ASess \cup {NoId} /\ op[o].id \in ACtx \cup {NoId}
           /\ \A m \in AMem : shm[m].ses \in ASess \cup {NoId} /\ shm[m].state \in OtzState
BY DEF ApiInv, ApiTypeOK, otz_device_t, otz_session_t, otz_operation_t, otz_shared_mem_t

\* The counts of sessions whose operations and blocks stay.
LEMMA CountsStay ==
    ASSUME ApiInv, NEW s \in ASess,
           \A p \in AOp : op'[p].ses = s <=> op[p].ses = s,
           \A m \in AMem : (shm'[m].state = "open" /\ shm'[m].ses = s) <=>
                           (shm[m].state = "open" /\ shm[m].ses = s),
           ses'[s].ops = ses[s].ops, ses'[s].mems = ses[s].mems
    PROVE  /\ ses'[s].ops = Cardinality(Attached(s)')
           /\ ses'[s].mems = Cardinality({m \in AMem : shm'[m].state = "open" /\ shm'[m].ses = s})
<1>1. Attached(s)' = Attached(s)
  BY DEF Attached
<1>2. {m \in AMem : shm'[m].state = "open" /\ shm'[m].ses = s}
         = {m \in AMem : shm[m].state = "open" /\ shm[m].ses = s}
  OBVIOUS
<1> QED BY <1>1, <1>2 DEF ApiInv, CountsExact

\* A step of an invoke operation that encodes, sends or decodes: it may learn
\* the id of a context that is new or its own, and contexts may be added.
LEMMA InvokeKeeps ==
    ASSUME ApiInv, odd = {}, NEW o \in AOp, op[o].type = "invoke",
           op' \in [AOp -> otz_operation_t], ses' \in [ASess -> otz_session_t],
           drvCtx' \in [ASess -> SUBSET ACtx], drvMem' \in [ASess -> Int],
           \A p \in AOp \ {o} : op'[p] = op[p],
           op'[o].type = "invoke", op'[o].ses = op[o].ses, op'[o].state \in {"encode", "invalid", "decode"},
           \A s \in ASess : /\ ses'[s].ops = ses[s].ops /\ ses'[s].mems = ses[s].mems
                            /\ \/ ses'[s].state = ses[s].state
                               \/ ses'[s].state = "open" /\ ses[s].state \in {"open", "closing"},
           \A s \in ASess : drvCtx[s] \subseteq drvCtx'[s],
           \/ op'[o].id = op[o].id
           \/ op'[o].id \in drvCtx'[op[o].ses] /\ \A s \in ASess : op'[o].id \notin drvCtx[s],
           UNCHANGED <<dev, shm, drvSes, stuck, odd>>
    PROVE  ApiInv'
<1>1. ApiTypeOK'
  BY DEF ApiInv, ApiTypeOK
<1>2. CountsExact'
  <2>1. ASSUME NEW s \in ASess
        PROVE  /\ ses'[s].ops = Cardinality(Attached(s)')
               /\ ses'[s].mems = Cardinality({m \in AMem : shm'[m].state = "open" /\ shm'[m].ses = s})
    <3>1. \A p \in AOp : op'[p].ses = op[p].ses
      OBVIOUS
    <3> QED BY <3>1, CountsStay
  <2>2. "unsent" \notin odd' /\ dev'.state = "open" => dev'.sessions = Cardinality(drvSes')
    BY DEF ApiInv, CountsExact
  <2> QED BY <2>1, <2>2 DEF CountsExact
<1>3. SessionsAgree'
  BY DEF ApiInv, SessionsAgree
<1>4. OperationsAttached'
  <2>1. ASSUME NEW p \in AOp
        PROVE  /\ op'[p].state = "undefined" <=> op'[p].ses = NoId
               /\ op'[p].state = "undefined" <=> op'[p].type = "none"
               /\ op'[p].type = "invoke" => op'[p].ses \in drvSes'
               /\ op'[p].state = "performable" => op'[p].type = "close" /\ op'[p].ses \in drvSes'
               /\ op'[p].state = "decode" => op'[p].type # "close"
               /\ op'[p].type = "open" /\ odd' = {} => op'[p].id = NoId
    <3>1. CASE p = o
      BY <3>1 DEF ApiInv, OperationsAttached
    <3>2. CASE p # o
      BY <3>2 DEF ApiInv, OperationsAttached
    <3> QED BY <3>1, <3>2
  <2>2. ASSUME NEW p \in AOp, op'[p].type = "open", op'[p].state = "encode"
        PROVE  /\ ses'[op'[p].ses].state = "invalid"
               /\ \A q \in AOp : op'[q].ses = op'[p].ses => q = p
    <3>1. p # o /\ op'[p] = op[p] /\ ses[op[p].ses].state = "invalid"
      BY <2>2 DEF ApiInv, OperationsAttached
    <3>2. op[p].ses \in ASess
      BY <2>2, <3>1, ApiFields DEF ApiInv, OperationsAttached
    <3>3. \A q \in AOp : op[q].ses = op[p].ses => q = p
      BY <2>2, <3>1 DEF ApiInv, OperationsAttached
    <3>4. \A q \in AOp : op'[q].ses = op[q].ses
      OBVIOUS
    <3> QED BY <3>1, <3>2, <3>3, <3>4
  <2> QED BY <2>1, <2>2 DEF OperationsAttached
<1>5. BlocksAttached'
  BY DEF ApiInv, BlocksAttached
<1>6. ContextAlive'
  <2>0. /\ ContextAlive /\ op[o].ses \in ASess /\ drvSes \subseteq ASess
        /\ \A p \in AOp : op[p].type = "invoke" => op[p].ses \in ASess
    BY DEF ApiInv, OperationsAttached, ApiTypeOK
  <2>1. \A p \in AOp : op[p].type = "invoke" /\ op[p].id # NoId => op[p].id \in drvCtx[op[p].ses]
    BY <2>0 DEF ContextAlive
  <2>2. op'[o].id # NoId => op'[o].id \in drvCtx'[op[o].ses]
    BY <2>0, <2>1
  <2>3. ASSUME NEW p \in AOp \ {o}, op[p].type = "invoke", op'[o].id # NoId PROVE op[p].id # op'[o].id
    <3>1. CASE op'[o].id = op[o].id
      BY <2>0, <2>3, <3>1 DEF ContextAlive
    <3>2. CASE \A s \in ASess : op'[o].id \notin drvCtx[s]
      BY <2>0, <2>1, <2>3, <3>2
    <3> QED BY <3>1, <3>2
  <2>4. ASSUME NEW p \in AOp, op'[p].type = "invoke", op'[p].id # NoId
        PROVE  /\ op'[p].id \in drvCtx'[op'[p].ses]
               /\ \A q \in AOp \ {p} : op'[q].type = "invoke" => op'[q].id # op'[p].id
    <3>1. CASE p = o
      BY <2>2, <2>3, <2>4, <3>1
    <3>2. CASE p # o
      <4>1. op'[p] = op[p] /\ op[p].id \in drvCtx[op[p].ses] /\ op[p].ses \in ASess
        BY <2>0, <2>1, <2>4, <3>2
      <4>2. ASSUME NEW q \in AOp \ {p}, op'[q].type = "invoke" PROVE op'[q].id # op'[p].id
        <5>1. CASE q = o
          BY <2>3, <2>4, <3>2, <4>1, <5>1
        <5>2. CASE q # o
          BY <2>0, <2>4, <4>1, <4>2, <5>2 DEF ContextAlive
        <5> QED BY <5>1, <5>2
      <4> QED BY <4>1, <4>2
    <3> QED BY <3>1, <3>2
  <2> QED BY <2>4 DEF ContextAlive
<1> QED BY <1>1, <1>2, <1>3, <1>4, <1>5, <1>6 DEF ApiInv

\* The context the driver uses is the operation's own, or new.
LEMMA DriverCtxFacts ==
    ASSUME ApiInv, NEW o \in AOp, NEW c \in DriverCtx(o)
    PROVE  c \in ACtx /\ (c = op[o].id \/ \A s \in ASess : c \notin drvCtx[s])
<1>1. drvCtx \in [ASess -> SUBSET ACtx] /\ drvSes \subseteq ASess
  BY DEF ApiInv, ApiTypeOK
<1>2. op[o].ses \in drvSes
  BY DEF DriverCtx
<1>3. CASE op[o].id \in drvCtx[op[o].ses]
  BY <1>1, <1>2, <1>3 DEF DriverCtx
<1>4. CASE op[o].id \notin drvCtx[op[o].ses]
  BY <1>2, <1>4 DEF DriverCtx, FreshIds
<1> QED BY <1>3, <1>4

\* Of an operation that has the fields it had, but for those given.
LEMMA OperationSet ==
    ASSUME ApiInv, NEW o \in AOp, NEW r \in otz_operation_t, op' = [op EXCEPT ![o] = r]
    PROVE  op' \in [AOp -> otz_operation_t] /\ op'[o] = r /\ \A p \in AOp \ {o} : op'[p] = op[p]
BY DEF ApiInv, ApiTypeOK

LEMMA ContextAdded ==
    ASSUME ApiInv, NEW s \in ASess, NEW c \in ACtx, drvCtx' = [drvCtx EXCEPT ![s] = @ \cup {c}]
    PROVE  /\ drvCtx' \in [ASess -> SUBSET ACtx] /\ c \in drvCtx'[s]
           /\ \A t \in ASess : drvCtx[t] \subseteq drvCtx'[t]
BY DEF ApiInv, ApiTypeOK

LEMMA EncodeKeeps ==
    ASSUME ApiInv, odd = {}, NEW o \in AOp,
           otz_encode(o) \/ otz_encode_array_space(o) \/ otz_decode_fails(o)
    PROVE  ApiInv'
<1>1. /\ op[o].type = "invoke" /\ op[o].state \in {"encode", "decode"} /\ op[o] \in otz_operation_t
      /\ op[o].ses \in ASess /\ UNCHANGED <<dev, ses, shm, drvSes, stuck, odd>>
  <2>1. op[o].type = "invoke" /\ op[o].state \in {"encode", "decode"}
        /\ UNCHANGED <<dev, ses, shm, drvSes, stuck, odd>>
    BY DEF otz_encode, otz_encode_array_space, otz_decode_fails, CanEncode
  <2>2. op[o].ses \in ASess
    BY <2>1 DEF ApiInv, OperationsAttached, ApiTypeOK
  <2> QED BY <2>1, <2>2, ApiFields
<1>2. /\ ses' \in [ASess -> otz_session_t] /\ drvCtx \in [ASess -> SUBSET ACtx] /\ drvMem \in [ASess -> Int]
  BY <1>1 DEF ApiInv, ApiTypeOK
<1>3. ASSUME NEW r \in otz_operation_t, op' = [op EXCEPT ![o] = r],
             r.type = "invoke", r.ses = op[o].ses, r.state \in {"encode", "decode"},
             drvCtx' \in [ASess -> SUBSET ACtx], drvMem' \in [ASess -> Int],
             \A s \in ASess : drvCtx[s] \subseteq drvCtx'[s],
             \/ r.id = op[o].id
             \/ r.id \in drvCtx'[op[o].ses] /\ \A s \in ASess : r.id \notin drvCtx[s]
      PROVE  ApiInv'
  <2>1. op' \in [AOp -> otz_operation_t] /\ op'[o] = r /\ \A p \in AOp \ {o} : op'[p] = op[p]
    BY <1>3, OperationSet
  <2>2. \A s \in ASess : /\ ses'[s].ops = ses[s].ops /\ ses'[s].mems = ses[s].mems
                         /\ ses'[s].state = ses[s].state
    BY <1>1
  <2> QED BY <1>1, <1>2, <1>3, <2>1, <2>2, InvokeKeeps
<1>4. ASSUME op' = [op EXCEPT ![o].encErr = TRUE],
             drvCtx' \in [ASess -> SUBSET ACtx], drvMem' = drvMem, \A s \in ASess : drvCtx[s] \subseteq drvCtx'[s]
      PROVE  ApiInv'
  <2> DEFINE r == [op[o] EXCEPT !.encErr = TRUE]
  <2>1. /\ r \in otz_operation_t /\ r.type = op[o].type /\ r.ses = op[o].ses /\ r.state = op[o].state
        /\ r.id = op[o].id
    BY <1>1 DEF otz_operation_t
  <2>2. op' = [op EXCEPT ![o] = r]
    BY <1>4
  <2> HIDE DEF r
  <2> QED BY <1>1, <1>2, <1>3, <1>4, <2>1, <2>2
<1>5. ASSUME NEW c \in DriverCtx(o), NEW k \in 0 .. 1,
             drvCtx' = [drvCtx EXCEPT ![op[o].ses] = @ \cup {c}], drvMem' \in [ASess -> Int],
             op' = [op EXCEPT ![o] = [@ EXCEPT !.id = c, !.temps = k]]
      PROVE  ApiInv'
  <2> DEFINE r == [op[o] EXCEPT !.id = c, !.temps = k]
  <2>1. c \in ACtx /\ (c = op[o].id \/ \A s \in ASess : c \notin drvCtx[s])
    BY DriverCtxFacts
  <2>2. /\ r \in otz_operation_t /\ r.type = op[o].type /\ r.ses = op[o].ses /\ r.state = op[o].state
        /\ r.id = c
    BY <1>1, <2>1 DEF otz_operation_t
  <2>3. op' = [op EXCEPT ![o] = r]
    BY <1>5
  <2>4. /\ drvCtx' \in [ASess -> SUBSET ACtx] /\ c \in drvCtx'[op[o].ses]
        /\ \A s \in ASess : drvCtx[s] \subseteq drvCtx'[s]
    BY <1>1, <1>5, <2>1, ContextAdded
  <2> HIDE DEF r
  <2> QED BY <1>1, <1>3, <1>5, <2>1, <2>2, <2>3, <2>4
<1>6. CASE otz_encode(o)
  <2>1. ASSUME NEW c \in DriverCtx(o), drvCtx' = [drvCtx EXCEPT ![op[o].ses] = @ \cup {c}],
               op' = [op EXCEPT ![o].id = c]
        PROVE  ApiInv'
    <3>1. op[o].temps \in 0 .. 1
      BY <1>1 DEF otz_operation_t
    <3>2. op' = [op EXCEPT ![o] = [@ EXCEPT !.id = c, !.temps = op[o].temps]]
      <4>1. [op[o] EXCEPT !.id = c] = [op[o] EXCEPT !.id = c, !.temps = op[o].temps]
        BY <1>1 DEF otz_operation_t
      <4> QED BY <2>1, <4>1
    <3>3. drvMem' \in [ASess -> Int]
      BY <1>2, <1>6 DEF otz_encode
    <3> QED BY <1>5, <2>1, <3>1, <3>2, <3>3
  <2>2. ASSUME NEW c \in DriverCtx(o), drvCtx' = [drvCtx EXCEPT ![op[o].ses] = @ \cup {c}],
               op' = [op EXCEPT ![o].encErr = TRUE]
        PROVE  ApiInv'
    <3>1. c \in ACtx
      BY DriverCtxFacts
    <3>2. drvCtx' \in [ASess -> SUBSET ACtx] /\ \A s \in ASess : drvCtx[s] \subseteq drvCtx'[s]
      BY <1>1, <2>2, <3>1, ContextAdded
    <3>3. drvMem' = drvMem
      BY <1>6 DEF otz_encode
    <3> QED BY <1>4, <2>2, <3>2, <3>3
  <2>3. ASSUME op' = [op EXCEPT ![o].encErr = TRUE], drvCtx' = drvCtx PROVE ApiInv'
    <3>1. drvMem' = drvMem
      BY <1>6 DEF otz_encode
    <3> QED BY <1>2, <1>4, <2>3, <3>1
  <2> QED BY <1>6, <2>1, <2>2, <2>3 DEF otz_encode
<1>7. CASE otz_encode_array_space(o)
  <2>1. ASSUME NEW c \in DriverCtx(o), drvCtx' = [drvCtx EXCEPT ![op[o].ses] = @ \cup {c}],
               drvMem' = [drvMem EXCEPT ![op[o].ses] = @ + 1],
               op' = [op EXCEPT ![o] = [@ EXCEPT !.id = c, !.temps = 1]]
        PROVE  ApiInv'
    <3>1. drvMem' \in [ASess -> Int] /\ 1 \in 0 .. 1
      BY <1>1, <1>2, <2>1
    <3> QED BY <1>5, <2>1, <3>1
  <2>2. ASSUME op' = [op EXCEPT ![o].encErr = TRUE], drvCtx' = drvCtx, drvMem' = drvMem PROVE ApiInv'
    BY <1>2, <1>4, <2>2
  <2> QED BY <1>7, <2>1, <2>2 DEF otz_encode_array_space
<1>8. CASE otz_decode_fails(o)
  <2> DEFINE r == [op[o] EXCEPT !.decErr = TRUE]
  <2>1. /\ r \in otz_operation_t /\ r.type = op[o].type /\ r.ses = op[o].ses /\ r.state = op[o].state
        /\ r.id = op[o].id
    BY <1>1 DEF otz_operation_t
  <2>2. op' = [op EXCEPT ![o] = r] /\ drvCtx' = drvCtx /\ drvMem' = drvMem
    BY <1>8 DEF otz_decode_fails
  <2> HIDE DEF r
  <2> QED BY <1>1, <1>2, <1>3, <2>1, <2>2
<1> QED BY <1>6, <1>7, <1>8

LEMMA PerformInvokeKeeps ==
    ASSUME ApiInv, odd = {}, NEW o \in AOp, PerformInvoke(o)
    PROVE  ApiInv'
<1> DEFINE s == op[o].ses
<1>1. /\ op[o].type = "invoke" /\ op[o] \in otz_operation_t /\ s \in ASess /\ s \in drvSes
      /\ UNCHANGED <<dev, shm, drvSes, drvMem, stuck, odd>>
  <2>1. op[o].type = "invoke" /\ UNCHANGED <<dev, shm, drvSes, drvMem, stuck, odd>>
    BY DEF PerformInvoke
  <2>2. s \in ASess /\ s \in drvSes
    BY <2>1 DEF ApiInv, OperationsAttached, ApiTypeOK
  <2> QED BY <2>1, <2>2, ApiFields
<1>2. /\ ses \in [ASess -> otz_session_t] /\ drvCtx \in [ASess -> SUBSET ACtx] /\ drvMem' \in [ASess -> Int]
      /\ ses[s].state \in {"open", "closing"}
  BY <1>1 DEF ApiInv, ApiTypeOK, SessionsAgree
<1>3. PICK w \in {"invalid", "decode"} : op' = [op EXCEPT ![o].state = w]
  BY DEF PerformInvoke
<1> DEFINE r == [op[o] EXCEPT !.state = w]
<1>4. /\ r \in otz_operation_t /\ r.type = "invoke" /\ r.ses = s /\ r.state = w /\ r.id = op[o].id
  BY <1>1, <1>3 DEF otz_operation_t, OtzState
<1>5. op' = [op EXCEPT ![o] = r]
  BY <1>3
<1>6. drvCtx' \in [ASess -> SUBSET ACtx] /\ \A t \in ASess : drvCtx[t] \subseteq drvCtx'[t]
  <2>1. ASSUME NEW c \in DriverCtx(o), drvCtx' = [drvCtx EXCEPT ![s] = @ \cup {c}]
        PROVE  drvCtx' \in [ASess -> SUBSET ACtx] /\ \A t \in ASess : drvCtx[t] \subseteq drvCtx'[t]
    <3>1. c \in ACtx
      BY DriverCtxFacts
    <3> HIDE DEF s
    <3> QED BY <1>1, <2>1, <3>1, ContextAdded
  <2> QED BY <1>2, <2>1 DEF PerformInvoke
<1>7. /\ ses' \in [ASess -> otz_session_t]
      /\ \A t \in ASess : /\ ses'[t].ops = ses[t].ops /\ ses'[t].mems = ses[t].mems
                          /\ \/ ses'[t].state = ses[t].state
                             \/ ses'[t].state = "open" /\ ses[t].state \in {"open", "closing"}
  <2>1. ses' = ses \/ ses' = [ses EXCEPT ![s].state = "open"]
    BY DEF PerformInvoke
  <2> HIDE DEF s
  <2>2. CASE ses' = [ses EXCEPT ![s].state = "open"]
    BY <1>1, <1>2, <2>2 DEF otz_session_t, OtzState
  <2> QED BY <1>2, <2>1, <2>2
<1>8. op' \in [AOp -> otz_operation_t] /\ op'[o] = r /\ \A p \in AOp \ {o} : op'[p] = op[p]
  <2> HIDE DEF r
  <2> QED BY <1>4, <1>5, OperationSet
<1>9. op'[o].type = "invoke" /\ op'[o].ses = op[o].ses /\ op'[o].id = op[o].id
      /\ op'[o].state \in {"encode", "invalid", "decode"}
  BY <1>3, <1>4, <1>8
<1> HIDE DEF r, s
<1> QED BY <1>1, <1>2, <1>6, <1>7, <1>8, <1>9, InvokeKeeps

\* The structure of an operation of which the state, type and session are set,
\* and the count of temporary blocks.
OperationWith(q, w, k, s, n) == [q EXCEPT !.state = w, !.type = k, !.ses = s, !.temps = n]

LEMMA OperationFields ==
    ASSUME NEW q \in otz_operation_t, NEW w \in OtzState, NEW k \in OtzOperationType,
           NEW s \in ASess \cup {NoId}, NEW n \in 0 .. 1
    PROVE  LET r == OperationWith(q, w, k, s, n)
           IN  r \in otz_operation_t /\ r.state = w /\ r.type = k /\ r.ses = s /\ r.id = q.id
<1> DEFINE a == [q EXCEPT !.state = w, !.type = k]
           b == [a EXCEPT !.ses = s, !.temps = n]
<1>1. a \in otz_operation_t /\ a.state = w /\ a.type = k /\ a.id = q.id
  BY DEF otz_operation_t
<1>2. OperationWith(q, w, k, s, n) = b
  BY DEF OperationWith
<1> HIDE DEF a
<1>3. b \in otz_operation_t
  BY <1>1 DEF otz_operation_t
<1>4. b.state = w /\ b.type = k /\ b.ses = s /\ b.id = q.id
  BY <1>1 DEF otz_operation_t
<1> HIDE DEF b
<1> QED BY <1>2, <1>3, <1>4

\* One of which the temporary blocks stay as they are.
OperationMoved(q, w, k, s) == [q EXCEPT !.state = w, !.type = k, !.ses = s]

LEMMA OperationKept ==
    ASSUME NEW q \in otz_operation_t, NEW w \in OtzState, NEW k \in OtzOperationType,
           NEW s \in ASess \cup {NoId}
    PROVE  OperationMoved(q, w, k, s) = OperationWith(q, w, k, s, q.temps) /\ q.temps \in 0 .. 1
<1> DEFINE a == [q EXCEPT !.state = w, !.type = k]
           b == [a EXCEPT !.ses = s]
<1>1. a \in otz_operation_t /\ a.temps = q.temps
  BY DEF otz_operation_t
<1>2. OperationMoved(q, w, k, s) = b /\ OperationWith(q, w, k, s, q.temps) = [b EXCEPT !.temps = q.temps]
  BY DEF OperationMoved, OperationWith
<1> HIDE DEF a
<1>3. b \in otz_operation_t /\ b.temps = q.temps
  BY <1>1 DEF otz_operation_t
<1> HIDE DEF b
<1>4. [b EXCEPT !.temps = q.temps] = b
  BY <1>3 DEF otz_operation_t
<1>5. q.temps \in 0 .. 1
  BY DEF otz_operation_t
<1> QED BY <1>2, <1>4, <1>5

\* A session's structure of which the state and the count of operations are set.
SessionWith(q, w, n) == [q EXCEPT !.state = w, !.ops = n]

LEMMA SessionFields ==
    ASSUME NEW q \in otz_session_t, NEW w \in OtzState, NEW n \in Int
    PROVE  LET x == SessionWith(q, w, n)
           IN  x \in otz_session_t /\ x.state = w /\ x.ops = n /\ x.mems = q.mems
<1> DEFINE a == [q EXCEPT !.state = w]
           b == [a EXCEPT !.ops = n]
<1>1. a \in otz_session_t /\ a.state = w /\ a.mems = q.mems
  BY DEF otz_session_t
<1>2. SessionWith(q, w, n) = b
  BY DEF SessionWith
<1> HIDE DEF a
<1>3. b \in otz_session_t /\ b.state = w /\ b.ops = n /\ b.mems = q.mems
  BY <1>1 DEF otz_session_t
<1> HIDE DEF b
<1> QED BY <1>2, <1>3

LEMMA SessionSet ==
    ASSUME ApiInv, NEW s \in ASess, NEW x \in otz_session_t, ses' = [ses EXCEPT ![s] = x]
    PROVE  ses' \in [ASess -> otz_session_t] /\ ses'[s] = x /\ \A t \in ASess \ {s} : ses'[t] = ses[t]
BY DEF ApiInv, ApiTypeOK

LEMMA DeviceKeeps ==
    ASSUME ApiInv, odd = {}, otz_device_open \/ otz_device_close
    PROVE  ApiInv'
<1>1. UNCHANGED <<ses, op, shm, stuck, odd>>
  BY DEF otz_device_open, otz_device_close
<1>2. drvSes = {} /\ drvSes' = {}
  <2>1. CASE dev.state # "open"
    BY <2>1 DEF ApiInv, SessionsAgree, otz_device_open, otz_device_close
  <2>2. CASE dev.state = "open"
    <3>1. otz_device_close /\ dev.sessions = 0
      BY <2>2 DEF otz_device_open, otz_device_close
    <3>2. Cardinality(drvSes) = 0
      BY <2>2, <3>1 DEF ApiInv, CountsExact
    <3>3. IsFiniteSet(drvSes)
      BY ApiAssumption, FS_Subset DEF ApiInv, ApiTypeOK
    <3> QED BY <3>1, <3>2, <3>3, FS_EmptySet DEF otz_device_close
  <2> QED BY <2>1, <2>2
<1>3. ApiTypeOK'
  <2>1. dev' \in otz_device_t
    BY DEF ApiInv, ApiTypeOK, otz_device_open, otz_device_close, otz_device_t, OtzState
  <2>2. drvCtx' \in [ASess -> SUBSET ACtx] /\ drvMem' \in [ASess -> Int]
    BY DEF ApiInv, ApiTypeOK, otz_device_open, otz_device_close
  <2> QED BY <1>1, <1>2, <2>1, <2>2 DEF ApiInv, ApiTypeOK
<1>4. \A o \in AOp : op[o].type # "invoke"
  BY <1>2 DEF ApiInv, OperationsAttached
<1>5. CountsExact'
  <2>1. ASSUME NEW s \in ASess
        PROVE  /\ ses'[s].ops = Cardinality(Attached(s)')
               /\ ses'[s].mems = Cardinality({m \in AMem : shm'[m].state = "open" /\ shm'[m].ses = s})
    BY <1>1, CountsStay
  <2>2. ASSUME dev'.state = "open" PROVE dev'.sessions = Cardinality(drvSes')
    <3>1. dev' = [state |-> "open", sessions |-> 0]
      BY <2>2, ApiFields DEF otz_device_open, otz_device_close, ApiInv, ApiTypeOK, otz_device_t
    <3>2. Cardinality({}) = 0
      BY FS_EmptySet
    <3> QED BY <1>2, <3>1, <3>2
  <2> QED BY <2>1, <2>2 DEF CountsExact
<1>6. ContextAlive' /\ SessionsAgree' /\ OperationsAttached' /\ BlocksAttached'
  BY <1>1, <1>2, <1>4 DEF ApiInv, ContextAlive, SessionsAgree, OperationsAttached, BlocksAttached
<1> QED BY <1>3, <1>5, <1>6 DEF ApiInv

\* An operation is prepared: on an open session, or alone on one that is to be
\* opened.
LEMMA PrepareKeeps ==
    ASSUME ApiInv, odd = {}, NEW o \in AOp, NEW s \in ASess, NEW r \in otz_operation_t,
           op[o].state = "undefined", op' = [op EXCEPT ![o] = r], r.ses = s,
           ses' \in [ASess -> otz_session_t], \A t \in ASess \ {s} : ses'[t] = ses[t],
           ses'[s].ops = ses[s].ops + 1, ses'[s].mems = ses[s].mems,
           \/ /\ s \in drvSes /\ ses'[s].state \in {"open", "closing"}
              /\ \/ r.type = "invoke" /\ r.state = "encode" /\ r.id = NoId
                 \/ r.type = "close" /\ r.state = "performable"
           \/ /\ s \notin drvSes /\ ses'[s].state = "invalid" /\ ses[s].ops = 0
              /\ r.type = "open" /\ r.state = "encode" /\ (odd' = {} => r.id = NoId),
           odd' \in {{}, {"reused"}},
           UNCHANGED <<dev, shm, drvSes, drvCtx, drvMem, stuck>>
    PROVE  ApiInv'
<1>1. op' \in [AOp -> otz_operation_t] /\ op'[o] = r /\ \A p \in AOp \ {o} : op'[p] = op[p]
  BY OperationSet
<1>2. op[o].ses = NoId /\ s # NoId
  BY ApiAssumption DEF ApiInv, OperationsAttached
<1>3. ApiTypeOK'
  BY <1>1 DEF ApiInv, ApiTypeOK
<1>4. Attached(s)' = Attached(s) \cup {o} /\ o \notin Attached(s)
  BY <1>1, <1>2 DEF Attached
<1>5. IsFiniteSet(Attached(s))
  BY ApiAssumption, FS_Subset DEF Attached
<1>6. r.type = "open" => Attached(s) = {}
  <2>1. r.type = "open" => Cardinality(Attached(s)) = 0
    BY DEF ApiInv, CountsExact
  <2> QED BY <1>5, <2>1, FS_EmptySet
<1>7. CountsExact'
  <2>1. ASSUME NEW t \in ASess
        PROVE  /\ ses'[t].ops = Cardinality(Attached(t)')
               /\ ses'[t].mems = Cardinality({m \in AMem : shm'[m].state = "open" /\ shm'[m].ses = t})
    <3>1. CASE t = s
      <4>1. Cardinality(Attached(s)') = Cardinality(Attached(s)) + 1
        BY <1>4, <1>5, FS_AddElement
      <4>2. ses[s].ops = Cardinality(Attached(s))
        BY DEF ApiInv, CountsExact
      <4>3. {m \in AMem : shm'[m].state = "open" /\ shm'[m].ses = s}
              = {m \in AMem : shm[m].state = "open" /\ shm[m].ses = s}
        OBVIOUS
      <4>4. ses[s].mems = Cardinality({m \in AMem : shm[m].state = "open" /\ shm[m].ses = s})
        BY DEF ApiInv, CountsExact
      <4> QED BY <3>1, <4>1, <4>2, <4>3, <4>4
    <3>2. CASE t # s
      <4>1. \A p \in AOp : op'[p].ses = t <=> op[p].ses = t
        BY <1>1, <1>2, <3>2, ApiAssumption
      <4>2. ses'[t].ops = ses[t].ops /\ ses'[t].mems = ses[t].mems
        BY <3>2
      <4> QED BY <4>1, <4>2, CountsStay
    <3> QED BY <3>1, <3>2
  <2>2. "unsent" \notin odd' /\ dev'.state = "open" => dev'.sessions = Cardinality(drvSes')
    BY DEF ApiInv, CountsExact
  <2> QED BY <2>1, <2>2 DEF CountsExact
<1>8. SessionsAgree'
  BY DEF ApiInv, SessionsAgree
<1>9. BlocksAttached'
  BY DEF ApiInv, BlocksAttached
<1>10. ContextAlive'
  <2>1. ASSUME NEW p \in AOp, op'[p].type = "invoke", op'[p].id # NoId
        PROVE  /\ op'[p].id \in drvCtx'[op'[p].ses]
               /\ \A q \in AOp \ {p} : op'[q].type = "invoke" => op'[q].id # op'[p].id
    <3>1. p # o
      BY <1>1, <2>1
    <3>2. /\ op[p].id \in drvCtx[op[p].ses]
          /\ \A q \in AOp \ {p} : op[q].type = "invoke" => op[q].id # op[p].id
      BY <1>1, <2>1, <3>1 DEF ApiInv, ContextAlive
    <3> QED BY <1>1, <2>1, <3>1, <3>2
  <2> QED BY <2>1 DEF ContextAlive
<1>11. OperationsAttached'
  <2>1. ASSUME NEW p \in AOp
        PROVE  /\ op'[p].state = "undefined" <=> op'[p].ses = NoId
               /\ op'[p].state = "undefined" <=> op'[p].type = "none"
               /\ op'[p].type = "invoke" => op'[p].ses \in drvSes'
               /\ op'[p].state = "performable" => op'[p].type = "close" /\ op'[p].ses \in drvSes'
               /\ op'[p].state = "decode" => op'[p].type # "close"
               /\ op'[p].type = "open" /\ odd' = {} => op'[p].id = NoId
    <3>1. CASE p = o
      BY <1>1, <1>2, <3>1
    <3>2. CASE p # o
      BY <1>1, <3>2 DEF ApiInv, OperationsAttached
    <3> QED BY <3>1, <3>2
  <2>2. ASSUME NEW p \in AOp, op'[p].type = "open", op'[p].state = "encode"
        PROVE  /\ ses'[op'[p].ses].state = "invalid"
               /\ \A q \in AOp : op'[q].ses = op'[p].ses => q = p
    <3>1. CASE p = o
      <4>1. Attached(s) = {} /\ ses'[s].state = "invalid"
        BY <1>1, <1>6, <2>2, <3>1
      <4> QED BY <1>1, <3>1, <4>1 DEF Attached
    <3>2. CASE p # o
      <4>1. /\ op'[p] = op[p] /\ ses[op[p].ses].state = "invalid"
            /\ \A q \in AOp : op[q].ses = op[p].ses => q = p
        BY <1>1, <2>2, <3>2 DEF ApiInv, OperationsAttached
      <4>2. op[p].ses \in ASess
        BY <2>2, <4>1, ApiFields DEF ApiInv, OperationsAttached
      <4>3. op[p].ses # s
        <5>1. CASE s \in drvSes
          BY <4>1, <5>1 DEF ApiInv, SessionsAgree
        <5>2. CASE s \notin drvSes
          BY <1>6, <4>1, <5>2 DEF Attached
        <5> QED BY <5>1, <5>2
      <4> QED BY <1>1, <4>1, <4>2, <4>3
    <3> QED BY <3>1, <3>2
  <2> QED BY <2>1, <2>2 DEF OperationsAttached
<1> QED BY <1>3, <1>7, <1>8, <1>9, <1>10, <1>11 DEF ApiInv

LEMMA PrepareActs ==
    ASSUME ApiInv, odd = {}, NEW o \in AOp, NEW s \in ASess,
           \/ otz_operation_prepare_open(o, s) \/ otz_operation_prepare_invoke(o, s)
           \/ otz_operation_prepare_close(o, s)
    PROVE  ApiInv'
<1>1. /\ op[o] \in otz_operation_t /\ op[o].state = "undefined" /\ ses \in [ASess -> otz_session_t]
      /\ ses[s] \in otz_session_t /\ ses[s].ops \in Int /\ ses[s].mems \in Int
      /\ UNCHANGED <<dev, shm, drvSes, drvCtx, drvMem, stuck>>
  <2>1. op[o].state = "undefined" /\ UNCHANGED <<dev, shm, drvSes, drvCtx, drvMem, stuck>>
    BY DEF otz_operation_prepare_open, otz_operation_prepare_invoke, otz_operation_prepare_close
  <2> QED BY <2>1, ApiFields DEF ApiInv, ApiTypeOK
<1>2. CASE otz_operation_prepare_open(o, s)
  <2> DEFINE r == OperationWith(op[o], "encode", "open", s, 0)
             x == [state |-> "invalid", ops |-> 1, mems |-> 0]
  <2>1. /\ r \in otz_operation_t /\ r.ses = s /\ r.type = "open" /\ r.state = "encode" /\ r.id = op[o].id
    <3>1. "encode" \in OtzState /\ "open" \in OtzOperationType /\ 0 \in 0 .. 1
      BY DEF OtzState, OtzOperationType
    <3> QED BY <1>1, <3>1, OperationFields
  <2>2. /\ op' = [op EXCEPT ![o] = r] /\ ses' = [ses EXCEPT ![s] = x] /\ ses[s].ops = 0
        /\ ses[s].state \in {"undefined", "invalid"}
        /\ odd' = IF op[o].id # NoId THEN odd \cup {"reused"} ELSE odd
    BY <1>2 DEF otz_operation_prepare_open, OperationWith
  <2>3. s \notin drvSes
    BY <2>2 DEF ApiInv, SessionsAgree
  <2>4. ses[s].mems = 0
    <3>1. {m \in AMem : shm[m].state = "open" /\ shm[m].ses = s} = {}
      BY <2>3 DEF ApiInv, BlocksAttached
    <3>2. Cardinality({}) = 0
      BY FS_EmptySet
    <3> QED BY <3>1, <3>2 DEF ApiInv, CountsExact
  <2>5. /\ ses' \in [ASess -> otz_session_t] /\ \A t \in ASess \ {s} : ses'[t] = ses[t]
        /\ ses'[s].ops = ses[s].ops + 1 /\ ses'[s].mems = ses[s].mems /\ ses'[s].state = "invalid"
    BY <1>1, <2>2, <2>4 DEF otz_session_t, OtzState
  <2>6. odd' \in {{}, {"reused"}} /\ (odd' = {} => r.id = NoId)
    BY <2>1, <2>2
  <2> HIDE DEF r, x
  <2> QED BY <1>1, <2>1, <2>2, <2>3, <2>5, <2>6, PrepareKeeps
<1>3. CASE otz_operation_prepare_invoke(o, s)
  <2> DEFINE r == OperationMoved(NoOp, "encode", "invoke", s)
  <2>1. /\ r \in otz_operation_t /\ r.ses = s /\ r.type = "invoke" /\ r.state = "encode" /\ r.id = NoId
    <3>1. /\ "encode" \in OtzState /\ "undefined" \in OtzState /\ "invoke" \in OtzOperationType
          /\ "none" \in OtzOperationType
      BY DEF OtzState, OtzOperationType
    <3>2. NoOp \in otz_operation_t /\ NoOp.id = NoId
      BY <3>1 DEF NoOp, otz_operation_t
    <3> QED BY <3>1, <3>2, OperationKept, OperationFields
  <2>2. /\ op' = [op EXCEPT ![o] = r] /\ ses' = [ses EXCEPT ![s].ops = @ + 1] /\ ses[s].state = "open"
        /\ odd' = odd
    BY <1>3 DEF otz_operation_prepare_invoke, OperationMoved
  <2>3. s \in drvSes
    BY <2>2 DEF ApiInv, SessionsAgree
  <2>5. /\ ses' \in [ASess -> otz_session_t] /\ \A t \in ASess \ {s} : ses'[t] = ses[t]
        /\ ses'[s].ops = ses[s].ops + 1 /\ ses'[s].mems = ses[s].mems /\ ses'[s].state = "open"
    BY <1>1, <2>2 DEF otz_session_t, OtzState
  <2> HIDE DEF r
  <2> QED BY <1>1, <2>1, <2>2, <2>3, <2>5, PrepareKeeps
<1>4. CASE otz_operation_prepare_close(o, s)
  <2> DEFINE r == OperationWith(op[o], "performable", "close", s, 0)
             x == SessionWith(ses[s], "closing", ses[s].ops + 1)
  <2>1. /\ r \in otz_operation_t /\ r.ses = s /\ r.type = "close" /\ r.state = "performable"
    <3>1. "performable" \in OtzState /\ "close" \in OtzOperationType /\ 0 \in 0 .. 1
      BY DEF OtzState, OtzOperationType
    <3> QED BY <1>1, <3>1, OperationFields
  <2>2. /\ op' = [op EXCEPT ![o] = r] /\ ses' = [ses EXCEPT ![s] = x]
        /\ ses[s].state = "open" /\ odd' = odd
    BY <1>4 DEF otz_operation_prepare_close, OperationWith, SessionWith
  <2>3. s \in drvSes
    BY <2>2 DEF ApiInv, SessionsAgree
  <2>5. /\ ses' \in [ASess -> otz_session_t] /\ \A t \in ASess \ {s} : ses'[t] = ses[t]
        /\ ses'[s].ops = ses[s].ops + 1 /\ ses'[s].mems = ses[s].mems /\ ses'[s].state = "closing"
    <3>1. x \in otz_session_t /\ x.state = "closing" /\ x.ops = ses[s].ops + 1 /\ x.mems = ses[s].mems
      <4>1. "closing" \in OtzState /\ ses[s].ops + 1 \in Int
        BY <1>1 DEF OtzState
      <4> QED BY <1>1, <4>1, SessionFields
    <3> HIDE DEF x
    <3> QED BY <2>2, <3>1, SessionSet
  <2> HIDE DEF r, x
  <2> QED BY <1>1, <2>1, <2>2, <2>3, <2>5, PrepareKeeps
<1> QED BY <1>2, <1>3, <1>4

\* An open or close operation is performed: its state is set, and only a
\* session it is alone on is opened or closed.
LEMMA PerformKeeps ==
    ASSUME ApiInv, odd = {}, NEW o \in AOp, NEW w \in {"invalid", "running", "decode"},
           op[o].type \in {"open", "close"}, w = "decode" => op[o].type = "open",
           op' = [op EXCEPT ![o].state = w],
           dev' \in otz_device_t, ses' \in [ASess -> otz_session_t], drvSes' \in SUBSET ASess,
           drvCtx' \in [ASess -> SUBSET ACtx], drvMem' \in [ASess -> Int], stuck' \in SUBSET AOp,
           \A t \in ASess : ses'[t].ops = ses[t].ops /\ ses'[t].mems = ses[t].mems,
           \A t \in ASess :
              \/ \A p \in AOp : op[p].ses = t => p = o
              \/ ses'[t].state = ses[t].state /\ (t \in drvSes' <=> t \in drvSes) /\ drvCtx'[t] = drvCtx[t],
           SessionsAgree', BlocksAttached', dev'.state = "open" => dev'.sessions = Cardinality(drvSes'),
           UNCHANGED <<shm, odd>>
    PROVE  ApiInv'
<1> DEFINE r == [op[o] EXCEPT !.state = w]
<1>1. /\ r \in otz_operation_t /\ r.state = w /\ r.type = op[o].type /\ r.ses = op[o].ses /\ r.id = op[o].id
  <2>1. op[o] \in otz_operation_t /\ w \in OtzState
    BY ApiFields DEF OtzState
  <2> QED BY <2>1 DEF otz_operation_t
<1>2. op' = [op EXCEPT ![o] = r]
  OBVIOUS
<1> HIDE DEF r
<1>3. op' \in [AOp -> otz_operation_t] /\ op'[o] = r /\ \A p \in AOp \ {o} : op'[p] = op[p]
  BY <1>1, <1>2, OperationSet
<1>4. \A p \in AOp : op'[p].ses = op[p].ses /\ op'[p].type = op[p].type /\ op'[p].id = op[p].id
  BY <1>1, <1>3
<1>5. ApiTypeOK'
  BY <1>3 DEF ApiInv, ApiTypeOK
<1>6. CountsExact'
  <2>1. ASSUME NEW t \in ASess
        PROVE  /\ ses'[t].ops = Cardinality(Attached(t)')
               /\ ses'[t].mems = Cardinality({m \in AMem : shm'[m].state = "open" /\ shm'[m].ses = t})
    BY <1>4, CountsStay
  <2> QED BY <2>1 DEF CountsExact
<1>7. ASSUME NEW p \in AOp \ {o}, op[p].ses \in ASess
      PROVE  /\ ses'[op[p].ses].state = ses[op[p].ses].state
             /\ op[p].ses \in drvSes' <=> op[p].ses \in drvSes
             /\ drvCtx'[op[p].ses] = drvCtx[op[p].ses]
  BY <1>7
<1>8. OperationsAttached'
  <2>1. ASSUME NEW p \in AOp
        PROVE  /\ op'[p].state = "undefined" <=> op'[p].ses = NoId
               /\ op'[p].state = "undefined" <=> op'[p].type = "none"
               /\ op'[p].type = "invoke" => op'[p].ses \in drvSes'
               /\ op'[p].state = "performable" => op'[p].type = "close" /\ op'[p].ses \in drvSes'
               /\ op'[p].state = "decode" => op'[p].type # "close"
               /\ op'[p].type = "open" /\ odd' = {} => op'[p].id = NoId
    <3>1. CASE p = o
      BY <1>1, <1>3, <3>1 DEF ApiInv, OperationsAttached
    <3>2. CASE p # o
      BY <1>3, <1>7, <3>2 DEF ApiInv, OperationsAttached, ApiTypeOK
    <3> QED BY <3>1, <3>2
  <2>2. ASSUME NEW p \in AOp, op'[p].type = "open", op'[p].state = "encode"
        PROVE  /\ ses'[op'[p].ses].state = "invalid"
               /\ \A q \in AOp : op'[q].ses = op'[p].ses => q = p
    <3>1. p # o /\ op'[p] = op[p]
      BY <1>1, <1>3, <2>2
    <3>2. /\ ses[op[p].ses].state = "invalid" /\ op[p].ses # NoId
          /\ \A q \in AOp : op[q].ses = op[p].ses => q = p
      BY <2>2, <3>1 DEF ApiInv, OperationsAttached
    <3>3. op[p].ses \in ASess
      BY <3>2, ApiFields
    <3> QED BY <1>4, <1>7, <3>1, <3>2, <3>3
  <2> QED BY <2>1, <2>2 DEF OperationsAttached
<1>9. ContextAlive'
  <2>1. ASSUME NEW p \in AOp, op'[p].type = "invoke", op'[p].id # NoId
        PROVE  /\ op'[p].id \in drvCtx'[op'[p].ses]
               /\ \A q \in AOp \ {p} : op'[q].type = "invoke" => op'[q].id # op'[p].id
    <3>1. p # o /\ op[p].type = "invoke" /\ op[p].id # NoId
      BY <1>4, <2>1
    <3>2. /\ op[p].id \in drvCtx[op[p].ses]
          /\ \A q \in AOp \ {p} : op[q].type = "invoke" => op[q].id # op[p].id
      BY <3>1 DEF ApiInv, ContextAlive
    <3>3. op[p].ses \in ASess
      BY <3>1 DEF ApiInv, OperationsAttached, ApiTypeOK
    <3>4. drvCtx'[op[p].ses] = drvCtx[op[p].ses]
      BY <1>7, <3>1, <3>3
    <3> QED BY <1>4, <3>1, <3>2, <3>4
  <2> QED BY <2>1 DEF ContextAlive
<1> QED BY <1>5, <1>6, <1>8, <1>9 DEF ApiInv

\* The same, of the outcomes that open or close no session.
LEMMA PerformRefused ==
    ASSUME ApiInv, odd = {}, NEW o \in AOp, NEW w \in {"invalid", "running", "decode"},
           op[o].type \in {"open", "close"}, w = "decode" => op[o].type = "open",
           op' = [op EXCEPT ![o].state = w], stuck' \in SUBSET AOp,
           UNCHANGED <<dev, ses, shm, drvSes, drvCtx, drvMem, odd>>
    PROVE  ApiInv'
<1>1. /\ dev' \in otz_device_t /\ ses' \in [ASess -> otz_session_t] /\ drvSes' \in SUBSET ASess
      /\ drvCtx' \in [ASess -> SUBSET ACtx] /\ drvMem' \in [ASess -> Int]
  BY DEF ApiInv, ApiTypeOK
<1>2. SessionsAgree' /\ BlocksAttached'
  BY DEF ApiInv, SessionsAgree, BlocksAttached
<1>3. dev'.state = "open" => dev'.sessions = Cardinality(drvSes')
  BY DEF ApiInv, CountsExact
<1> QED BY <1>1, <1>2, <1>3, PerformKeeps

LEMMA PerformOpenKeeps ==
    ASSUME ApiInv, odd = {}, NEW o \in AOp, PerformOpen(o)
    PROVE  ApiInv'
<1> DEFINE s == op[o].ses
<1>1. op[o].state = "encode" /\ op[o].type = "open" /\ UNCHANGED <<shm, drvCtx, drvMem, stuck, odd>>
  BY DEF PerformOpen
<1>2. /\ s \in ASess /\ ses[s].state = "invalid" /\ s \notin drvSes
      /\ \A p \in AOp : op[p].ses = s => p = o
  <2>1. ses[s].state = "invalid" /\ s # NoId /\ \A p \in AOp : op[p].ses = s => p = o
    BY <1>1 DEF ApiInv, OperationsAttached
  <2>2. s \in ASess
    BY <2>1, ApiFields
  <2> QED BY <2>1, <2>2 DEF ApiInv, SessionsAgree
<1>3. CASE op' = [op EXCEPT ![o].state = "invalid"] /\ UNCHANGED <<dev, ses, drvSes>>
  <2>1. stuck' \in SUBSET AOp
    BY <1>1 DEF ApiInv, ApiTypeOK
  <2> QED BY <1>1, <1>3, <2>1, PerformRefused
<1>4. CASE op' = [op EXCEPT ![o].state = "decode"] /\ UNCHANGED <<dev, ses, drvSes>>
  <2>1. stuck' \in SUBSET AOp
    BY <1>1 DEF ApiInv, ApiTypeOK
  <2> QED BY <1>1, <1>4, <2>1, PerformRefused
<1>5. CASE /\ dev.state = "open" /\ op' = [op EXCEPT ![o].state = "decode"]
           /\ ses' = [ses EXCEPT ![s].state = "open"]
           /\ dev' = [dev EXCEPT !.sessions = @ + 1]
           /\ drvSes' = drvSes \cup {s}
  <2> HIDE DEF s
  <2>1. /\ dev' \in otz_device_t /\ dev'.state = dev.state /\ dev'.sessions = dev.sessions + 1
    BY <1>5 DEF ApiInv, ApiTypeOK, otz_device_t
  <2>2. drvSes' \in SUBSET ASess /\ drvCtx' \in [ASess -> SUBSET ACtx] /\ drvMem' \in [ASess -> Int]
        /\ stuck' \in SUBSET AOp
    BY <1>1, <1>2, <1>5 DEF ApiInv, ApiTypeOK
  <2>3. /\ ses' \in [ASess -> otz_session_t] /\ ses'[s].state = "open"
        /\ ses'[s].ops = ses[s].ops /\ ses'[s].mems = ses[s].mems
        /\ \A t \in ASess \ {s} : ses'[t] = ses[t]
    BY <1>2, <1>5 DEF ApiInv, ApiTypeOK, otz_session_t, OtzState
  <2>4. SessionsAgree'
    BY <1>2, <1>5, <2>1, <2>3 DEF ApiInv, SessionsAgree
  <2>5. BlocksAttached'
    BY <1>1, <1>5 DEF ApiInv, BlocksAttached
  <2>6. dev'.sessions = Cardinality(drvSes')
    <3>1. IsFiniteSet(drvSes)
      BY ApiAssumption, FS_Subset DEF ApiInv, ApiTypeOK
    <3>2. Cardinality(drvSes') = Cardinality(drvSes) + 1
      BY <1>2, <1>5, <3>1, FS_AddElement
    <3>3. dev.sessions = Cardinality(drvSes)
      BY <1>5 DEF ApiInv, CountsExact
    <3> QED BY <2>1, <3>2, <3>3
  <2>7. \A t \in ASess : \/ \A p \in AOp : op[p].ses = t => p = o
                         \/ ses'[t].state = ses[t].state /\ (t \in drvSes' <=> t \in drvSes) /\ drvCtx'[t] = drvCtx[t]
    BY <1>1, <1>2, <1>5, <2>3
  <2>8. \A t \in ASess : ses'[t].ops = ses[t].ops /\ ses'[t].mems = ses[t].mems
    BY <2>3
  <2> QED BY <1>1, <1>5, <2>1, <2>2, <2>3, <2>4, <2>5, <2>6, <2>7, <2>8, PerformKeeps
<1> QED BY <1>3, <1>4, <1>5 DEF PerformOpen

LEMMA PerformCloseKeeps ==
    ASSUME ApiInv, odd = {}, NEW o \in AOp, PerformClose(o)
    PROVE  ApiInv'
<1> DEFINE s == op[o].ses
<1>1. op[o].state = "performable" /\ UNCHANGED <<shm, odd>>
  BY DEF PerformClose
<1>2. op[o].type = "close" /\ s \in drvSes /\ s \in ASess
  BY <1>1 DEF ApiInv, OperationsAttached, ApiTypeOK
<1>3. CASE op' = [op EXCEPT ![o].state = "invalid"] /\ UNCHANGED <<dev, ses, drvSes, drvCtx, drvMem, stuck>>
  <2>1. stuck' \in SUBSET AOp
    BY <1>3 DEF ApiInv, ApiTypeOK
  <2> QED BY <1>1, <1>2, <1>3, <2>1, PerformRefused
<1>4. CASE /\ op' = [op EXCEPT ![o].state = "running"] /\ stuck' = stuck \cup {o}
           /\ UNCHANGED <<dev, ses, drvSes, drvCtx, drvMem>>
  <2>1. stuck' \in SUBSET AOp
    BY <1>4 DEF ApiInv, ApiTypeOK
  <2> QED BY <1>1, <1>2, <1>4, <2>1, PerformRefused
<1>5. CASE /\ ses[s].ops = 1 /\ ses[s].mems = 0 /\ dev.state = "open"
           /\ dev' = [dev EXCEPT !.sessions = @ - 1]
           /\ ses' = [ses EXCEPT ![s].state = "undefined"]
           /\ drvSes' = drvSes \ {s}
           /\ drvCtx' = [drvCtx EXCEPT ![s] = {}]
           /\ drvMem' = [drvMem EXCEPT ![s] = 0]
           /\ op' = [op EXCEPT ![o].state = "invalid"] /\ stuck' = stuck
  <2>0. \A p \in AOp : op[p].ses = s => p = o
    <3>1. Cardinality(Attached(s)) = 1 /\ o \in Attached(s)
      BY <1>2, <1>5 DEF ApiInv, CountsExact, Attached
    <3>2. IsFiniteSet(Attached(s))
      BY ApiAssumption, FS_Subset DEF Attached
    <3>3. PICK x : Attached(s) = {x}
      BY <3>1, <3>2, FS_Singleton
    <3>4. \A p \in Attached(s) : p = o
      BY <3>1, <3>3
    <3> QED BY <3>4 DEF Attached
  <2> HIDE DEF s
  <2>1. /\ dev' \in otz_device_t /\ dev'.state = dev.state /\ dev'.sessions = dev.sessions - 1
    BY <1>5 DEF ApiInv, ApiTypeOK, otz_device_t
  <2>2. drvSes' \in SUBSET ASess /\ drvCtx' \in [ASess -> SUBSET ACtx] /\ drvMem' \in [ASess -> Int]
        /\ stuck' \in SUBSET AOp /\ \A t \in ASess \ {s} : drvCtx'[t] = drvCtx[t]
    BY <1>2, <1>5 DEF ApiInv, ApiTypeOK
  <2>3. /\ ses' \in [ASess -> otz_session_t] /\ ses'[s].state = "undefined"
        /\ ses'[s].ops = ses[s].ops /\ ses'[s].mems = ses[s].mems
        /\ \A t \in ASess \ {s} : ses'[t] = ses[t]
    BY <1>2, <1>5 DEF ApiInv, ApiTypeOK, otz_session_t, OtzState
  <2>4. SessionsAgree'
    BY <1>2, <1>5, <2>1, <2>3 DEF ApiInv, SessionsAgree
  <2>5. BlocksAttached'
    <3> DEFINE B == {m \in AMem : shm[m].state = "open" /\ shm[m].ses = s}
    <3>1. IsFiniteSet(B)
      BY ApiAssumption, FS_Subset
    <3>2. Cardinality(B) = 0
      BY <1>2, <1>5 DEF ApiInv, CountsExact
    <3>3. B = {}
      BY <3>1, <3>2, FS_EmptySet
    <3>4. \A m \in AMem : shm[m].state = "open" => shm[m].ses # s /\ shm[m].ses \in drvSes
      BY <3>3 DEF ApiInv, BlocksAttached
    <3> QED BY <1>1, <1>5, <3>4 DEF BlocksAttached
  <2>6. dev'.sessions = Cardinality(drvSes')
    <3>1. IsFiniteSet(drvSes)
      BY ApiAssumption, FS_Subset DEF ApiInv, ApiTypeOK
    <3>2. Cardinality(drvSes') = Cardinality(drvSes) - 1
      BY <1>2, <1>5, <3>1, FS_RemoveElement
    <3>3. dev.sessions = Cardinality(drvSes)
      BY <1>5 DEF ApiInv, CountsExact
    <3> QED BY <2>1, <3>2, <3>3
  <2>7. \A t \in ASess : \/ \A p \in AOp : op[p].ses = t => p = o
                         \/ ses'[t].state = ses[t].state /\ (t \in drvSes' <=> t \in drvSes) /\ drvCtx'[t] = drvCtx[t]
    BY <1>5, <2>0, <2>2, <2>3
  <2>8. \A t \in ASess : ses'[t].ops = ses[t].ops /\ ses'[t].mems = ses[t].mems
    BY <2>3
  <2> QED BY <1>1, <1>2, <1>5, <2>1, <2>2, <2>3, <2>4, <2>5, <2>6, <2>7, <2>8, PerformKeeps
<1> QED BY <1>3, <1>4, <1>5 DEF PerformClose

LEMMA OperationReleaseKeeps ==
    ASSUME ApiInv, odd = {}, NEW o \in AOp, otz_operation_release(o)
    PROVE  ApiInv'
<1> DEFINE s == op[o].ses
           unsent == op[o].state = "encode" /\ op[o].type = "open"
           w == IF unsent THEN "undefined" ELSE IF op[o].state = "performable" THEN "open" ELSE ses[s].state
           x == SessionWith(ses[s], w, ses[s].ops - 1)
           r == OperationMoved(op[o], "undefined", "none", NoId)
<1>1. /\ op[o].state \in {"encode", "performable", "decode", "invalid"}
      /\ ses' = [ses EXCEPT ![s] = x] /\ op' = [op EXCEPT ![o] = r]
      /\ dev' = (IF unsent THEN [dev EXCEPT !.sessions = @ - 1] ELSE dev)
      /\ odd' = (IF unsent THEN {"unsent"} ELSE {})
      /\ drvMem' = [drvMem EXCEPT ![s] = IF s \in drvSes THEN @ - op[o].temps ELSE @]
      /\ drvCtx' = [drvCtx EXCEPT ![s] = IF op[o].state = "decode" THEN @ \ {op[o].id} ELSE @]
      /\ UNCHANGED <<shm, drvSes, stuck>>
  BY DEF otz_operation_release, SessionWith, OperationMoved
<1>2. /\ op[o] \in otz_operation_t /\ s \in ASess /\ s # NoId /\ ses[s] \in otz_session_t /\ ses[s].ops \in Int
      /\ ses[s].state \in OtzState
  <2>1. s # NoId
    BY <1>1 DEF ApiInv, OperationsAttached
  <2> QED BY <2>1, ApiFields
<1>3. r \in otz_operation_t /\ r.state = "undefined" /\ r.type = "none" /\ r.ses = NoId /\ op[o].temps \in 0 .. 1
  <2>1. "undefined" \in OtzState /\ "none" \in OtzOperationType
    BY DEF OtzState, OtzOperationType
  <2> QED BY <1>2, <2>1, OperationKept, OperationFields
<1>4. x \in otz_session_t /\ x.state = w /\ x.ops = ses[s].ops - 1 /\ x.mems = ses[s].mems
  <2>1. w \in OtzState /\ ses[s].ops - 1 \in Int
    BY <1>2 DEF OtzState
  <2> HIDE DEF w
  <2> QED BY SMTT(30), <1>2, <2>1, SessionFields
<1> HIDE DEF x, r
<1>5. op' \in [AOp -> otz_operation_t] /\ op'[o] = r /\ \A p \in AOp \ {o} : op'[p] = op[p]
  BY <1>1, <1>3, OperationSet
<1>6. ses' \in [ASess -> otz_session_t] /\ ses'[s] = x /\ \A t \in ASess \ {s} : ses'[t] = ses[t]
  <2> HIDE DEF s
  <2> QED BY <1>1, <1>2, <1>4, SessionSet
<1>7. unsent => ses[s].state = "invalid" /\ s \notin drvSes
  BY <1>2 DEF ApiInv, OperationsAttached, SessionsAgree
<1>8. op[o].state = "performable" => s \in drvSes
  BY DEF ApiInv, OperationsAttached
<1>9. ApiTypeOK'
  <2>1. dev' \in otz_device_t
    BY <1>1 DEF ApiInv, ApiTypeOK, otz_device_t
  <2>2. drvCtx' \in [ASess -> SUBSET ACtx]
    BY <1>1, <1>2 DEF ApiInv, ApiTypeOK
  <2>3. drvMem' \in [ASess -> Int]
    BY <1>1, <1>2, <1>3 DEF ApiInv, ApiTypeOK
  <2> QED BY <1>1, <1>5, <1>6, <2>1, <2>2, <2>3 DEF ApiInv, ApiTypeOK
<1>10. CountsExact'
  <2>1. ASSUME NEW t \in ASess
        PROVE  /\ ses'[t].ops = Cardinality(Attached(t)')
               /\ ses'[t].mems = Cardinality({m \in AMem : shm'[m].state = "open" /\ shm'[m].ses = t})
    <3>1. CASE t = s
      <4>1. Attached(t)' = Attached(t) \ {o} /\ o \in Attached(t)
        BY <1>2, <1>3, <1>5, <3>1 DEF Attached
      <4>2. IsFiniteSet(Attached(t))
        BY ApiAssumption, FS_Subset DEF Attached
      <4>3. Cardinality(Attached(t)') = Cardinality(Attached(t)) - 1
        BY <4>1, <4>2, FS_RemoveElement
      <4>4. /\ ses[t].ops = Cardinality(Attached(t))
            /\ ses[t].mems = Cardinality({m \in AMem : shm[m].state = "open" /\ shm[m].ses = t})
        BY DEF ApiInv, CountsExact
      <4>5. {m \in AMem : shm'[m].state = "open" /\ shm'[m].ses = t}
              = {m \in AMem : shm[m].state = "open" /\ shm[m].ses = t}
        BY <1>1
      <4>6. ses'[t].ops = ses[t].ops - 1 /\ ses'[t].mems = ses[t].mems
        BY <1>4, <1>6, <3>1
      <4> QED BY <4>3, <4>4, <4>5, <4>6
    <3>2. CASE t # s
      <4>1. \A p \in AOp : op'[p].ses = t <=> op[p].ses = t
        BY <1>3, <1>5, <3>2, ApiAssumption
      <4>2. ses'[t].ops = ses[t].ops /\ ses'[t].mems = ses[t].mems
        BY <1>6, <3>2
      <4> QED BY <1>1, <4>1, <4>2, CountsStay
    <3> QED BY <3>1, <3>2
  <2>2. "unsent" \notin odd' /\ dev'.state = "open" => dev'.sessions = Cardinality(drvSes')
    BY <1>1 DEF ApiInv, CountsExact
  <2> QED BY <2>1, <2>2 DEF CountsExact
<1>11. SessionsAgree'
  <2>1. dev'.state = dev.state
    BY <1>1, ApiFields DEF ApiInv, ApiTypeOK, otz_device_t
  <2>2. ASSUME NEW t \in ASess PROVE t \in drvSes' <=> ses'[t].state \in {"open", "closing"}
    <3>1. CASE t = s
      <4>1. s \in drvSes <=> w \in {"open", "closing"}
        BY <1>2, <1>7, <1>8 DEF ApiInv, SessionsAgree
      <4> HIDE DEF s, w
      <4> QED BY <1>1, <1>4, <1>6, <3>1, <4>1
    <3>2. CASE t # s
      BY <1>1, <1>6, <3>2 DEF ApiInv, SessionsAgree
    <3> QED BY <3>1, <3>2
  <2>3. dev'.state # "open" => drvSes' = {}
    BY <1>1, <2>1 DEF ApiInv, SessionsAgree
  <2> QED BY <2>2, <2>3 DEF SessionsAgree
<1>12. BlocksAttached'
  BY <1>1 DEF ApiInv, BlocksAttached
<1>13. ContextAlive'
  <2> SUFFICES ASSUME odd' = {} PROVE ContextAlive'
    BY DEF ContextAlive
  <2>1. ASSUME NEW p \in AOp, op'[p].type = "invoke", op'[p].id # NoId
        PROVE  /\ op'[p].id \in drvCtx'[op'[p].ses]
               /\ \A q \in AOp \ {p} : op'[q].type = "invoke" => op'[q].id # op'[p].id
    <3>1. p # o /\ op'[p] = op[p] /\ op[p].type = "invoke" /\ op[p].id # NoId
      BY <1>3, <1>5, <2>1
    <3>2. /\ op[p].id \in drvCtx[op[p].ses]
          /\ \A q \in AOp \ {p} : op[q].type = "invoke" => op[q].id # op[p].id
      BY <3>1 DEF ApiInv, ContextAlive
    <3>3. op[p].ses \in ASess
      BY <3>1 DEF ApiInv, OperationsAttached, ApiTypeOK
    <3>4. op[o].state = "decode" => op[o].id # op[p].id
      <4>1. CASE op[o].type = "invoke"
        BY <3>1, <3>2, <4>1
      <4>2. CASE op[o].type = "open"
        BY <3>1, <4>2 DEF ApiInv, OperationsAttached
      <4>3. op[o].state = "decode" => op[o].type \in {"invoke", "open"}
        BY ApiFields DEF ApiInv, OperationsAttached, OtzOperationType
      <4> QED BY <4>1, <4>2, <4>3
    <3>5. op[p].id \in drvCtx'[op[p].ses]
      <4>1. drvCtx \in [ASess -> SUBSET ACtx]
        BY DEF ApiInv, ApiTypeOK
      <4> HIDE DEF s
      <4> QED BY <1>1, <1>2, <3>2, <3>3, <3>4, <4>1
    <3>6. \A q \in AOp \ {p} : op'[q].type = "invoke" => op'[q].id # op[p].id
      BY <1>3, <1>5, <3>2
    <3> QED BY <3>1, <3>5, <3>6
  <2> QED BY <2>1 DEF ContextAlive
<1>14. OperationsAttached'
  <2>1. ASSUME NEW p \in AOp
        PROVE  /\ op'[p].state = "undefined" <=> op'[p].ses = NoId
               /\ op'[p].state = "undefined" <=> op'[p].type = "none"
               /\ op'[p].type = "invoke" => op'[p].ses \in drvSes'
               /\ op'[p].state = "performable" => op'[p].type = "close" /\ op'[p].ses \in drvSes'
               /\ op'[p].state = "decode" => op'[p].type # "close"
               /\ op'[p].type = "open" /\ odd' = {} => op'[p].id = NoId
    <3>1. CASE p = o
      BY <1>3, <1>5, <3>1
    <3>2. CASE p # o
      BY <1>1, <1>5, <3>2 DEF ApiInv, OperationsAttached
    <3> QED BY <3>1, <3>2
  <2>2. ASSUME NEW p \in AOp, op'[p].type = "open", op'[p].state = "encode"
        PROVE  /\ ses'[op'[p].ses].state = "invalid"
               /\ \A q \in AOp : op'[q].ses = op'[p].ses => q = p
    <3>1. p # o /\ op'[p] = op[p]
      BY <1>3, <1>5, <2>2
    <3>2. /\ ses[op[p].ses].state = "invalid" /\ op[p].ses # NoId
          /\ \A q \in AOp : op[q].ses = op[p].ses => q = p
      BY <2>2, <3>1 DEF ApiInv, OperationsAttached
    <3>3. op[p].ses \in ASess /\ op[p].ses # s
      BY <3>1, <3>2, ApiFields
    <3> QED BY <1>3, <1>5, <1>6, <3>1, <3>2, <3>3
  <2> QED BY <2>1, <2>2 DEF OperationsAttached
<1> QED BY <1>9, <1>10, <1>11, <1>12, <1>13, <1>14 DEF ApiInv

\* Blocks come and go, and the counts of their sessions with them.
LEMMA BlocksKeep ==
    ASSUME ApiInv, shm' \in [AMem -> otz_shared_mem_t], drvMem' \in [ASess -> Int],
           ses' \in [ASess -> otz_session_t],
           \A t \in ASess :
              /\ ses'[t].state = ses[t].state /\ ses'[t].ops = ses[t].ops
              /\ ses'[t].mems = Cardinality({m \in AMem : shm'[m].state = "open" /\ shm'[m].ses = t}),
           BlocksAttached', UNCHANGED <<dev, op, drvSes, drvCtx, stuck, odd>>
    PROVE  ApiInv'
<1>1. ApiTypeOK'
  BY DEF ApiInv, ApiTypeOK
<1>2. CountsExact'
  <2>1. \A t \in ASess : Attached(t)' = Attached(t) /\ ses[t].ops = Cardinality(Attached(t))
    BY DEF ApiInv, CountsExact, Attached
  <2>2. "unsent" \notin odd' /\ dev'.state = "open" => dev'.sessions = Cardinality(drvSes')
    BY DEF ApiInv, CountsExact
  <2> QED BY <2>1, <2>2 DEF CountsExact
<1>3. ContextAlive' /\ SessionsAgree'
  BY DEF ApiInv, ContextAlive, SessionsAgree
<1>4. OperationsAttached'
  <2>1. ASSUME NEW p \in AOp, op[p].type = "open", op[p].state = "encode"
        PROVE  ses'[op[p].ses].state = "invalid"
    <3>1. ses[op[p].ses].state = "invalid" /\ op[p].ses # NoId
      BY <2>1 DEF ApiInv, OperationsAttached
    <3>2. op[p].ses \in ASess
      BY <3>1, ApiFields
    <3> QED BY <3>1, <3>2
  <2> QED BY <2>1 DEF ApiInv, OperationsAttached
<1> QED BY <1>1, <1>2, <1>3, <1>4 DEF ApiInv

LEMMA AllocateKeeps ==
    ASSUME ApiInv, odd = {}, NEW s \in ASess, NEW m \in AMem, otz_shared_memory_allocate(s, m)
    PROVE  ApiInv'
<1> DEFINE Blocks(t) == {n \in AMem : shm[n].state = "open" /\ shm[n].ses = t}
           Left(t) == {n \in AMem : shm'[n].state = "open" /\ shm'[n].ses = t}
<1>1. /\ shm[m].state # "open" /\ UNCHANGED <<dev, op, drvSes, drvCtx, stuck, odd>>
  BY DEF otz_shared_memory_allocate
<1>2. /\ shm \in [AMem -> otz_shared_mem_t] /\ ses \in [ASess -> otz_session_t] /\ drvMem \in [ASess -> Int]
      /\ \A t \in ASess : ses[t].mems = Cardinality(Blocks(t)) /\ ses[t].mems \in Int
  BY ApiFields DEF ApiInv, ApiTypeOK, CountsExact
<1>3. ASSUME NEW v \in otz_shared_mem_t, shm' = [shm EXCEPT ![m] = v]
      PROVE  /\ shm' \in [AMem -> otz_shared_mem_t] /\ shm'[m] = v
             /\ \A n \in AMem \ {m} : shm'[n] = shm[n]
  BY <1>2, <1>3
<1>4. CASE /\ s \in drvSes /\ shm' = [shm EXCEPT ![m] = [state |-> "open", ses |-> s]]
           /\ ses' = [ses EXCEPT ![s].mems = @ + 1] /\ drvMem' = [drvMem EXCEPT ![s] = @ + 1]
  <2> DEFINE v == [state |-> "open", ses |-> s]
  <2>1. v \in otz_shared_mem_t /\ v.state = "open" /\ v.ses = s
    BY DEF otz_shared_mem_t, OtzState
  <2> HIDE DEF v
  <2>2. /\ shm' \in [AMem -> otz_shared_mem_t] /\ shm'[m] = v /\ \A n \in AMem \ {m} : shm'[n] = shm[n]
    BY <1>3, <1>4, <2>1 DEF v
  <2>3. /\ ses' \in [ASess -> otz_session_t] /\ \A t \in ASess \ {s} : ses'[t] = ses[t]
        /\ ses'[s].state = ses[s].state /\ ses'[s].ops = ses[s].ops /\ ses'[s].mems = ses[s].mems + 1
    BY <1>2, <1>4 DEF otz_session_t
  <2>4. drvMem' \in [ASess -> Int]
    BY <1>2, <1>4
  <2>5. BlocksAttached'
    BY <1>1, <1>4, <2>1, <2>2 DEF ApiInv, BlocksAttached
  <2>6. Left(s) = Blocks(s) \cup {m} /\ m \notin Blocks(s) /\ \A t \in ASess \ {s} : Left(t) = Blocks(t)
    BY <1>1, <2>1, <2>2
  <2>7. Cardinality(Left(s)) = Cardinality(Blocks(s)) + 1
    <3>1. IsFiniteSet(Blocks(s))
      BY ApiAssumption, FS_Subset
    <3> QED BY <2>6, <3>1, FS_AddElement
  <2>8. ASSUME NEW t \in ASess
        PROVE  /\ ses'[t].state = ses[t].state /\ ses'[t].ops = ses[t].ops
               /\ ses'[t].mems = Cardinality(Left(t))
    <3> HIDE DEF Left, Blocks
    <3>1. CASE t = s
      BY <1>2, <2>3, <2>7, <3>1
    <3>2. CASE t # s
      BY <1>2, <2>3, <2>6, <3>2
    <3> QED BY <3>1, <3>2
  <2> QED BY <1>1, <2>2, <2>3, <2>4, <2>5, <2>8, BlocksKeep
<1>5. CASE shm' = [shm EXCEPT ![m] = [state |-> "invalid", ses |-> NoId]] /\ UNCHANGED <<ses, drvMem>>
  <2> DEFINE v == [state |-> "invalid", ses |-> NoId]
  <2>1. v \in otz_shared_mem_t /\ v.state = "invalid"
    BY DEF otz_shared_mem_t, OtzState
  <2> HIDE DEF v
  <2>2. /\ shm' \in [AMem -> otz_shared_mem_t] /\ shm'[m] = v /\ \A n \in AMem \ {m} : shm'[n] = shm[n]
    BY <1>3, <1>5, <2>1 DEF v
  <2>3. BlocksAttached'
    BY <1>1, <2>1, <2>2 DEF ApiInv, BlocksAttached
  <2>4. ASSUME NEW t \in ASess PROVE Left(t) = Blocks(t)
    BY <1>1, <2>1, <2>2
  <2>5. ASSUME NEW t \in ASess PROVE ses'[t].mems = Cardinality(Left(t))
    <3> HIDE DEF Left, Blocks
    <3> QED BY <1>2, <1>5, <2>4
  <2> QED BY <1>1, <1>2, <1>5, <2>2, <2>3, <2>5, BlocksKeep
<1> QED BY <1>4, <1>5 DEF otz_shared_memory_allocate

LEMMA FreeKeeps ==
    ASSUME ApiInv, odd = {}, NEW m \in AMem, otz_shared_memory_release(m)
    PROVE  ApiInv'
<1> DEFINE s == shm[m].ses
           Blocks(t) == {n \in AMem : shm[n].state = "open" /\ shm[n].ses = t}
           Left(t) == {n \in AMem : shm'[n].state = "open" /\ shm'[n].ses = t}
<1>1. /\ shm[m].state = "open" /\ s \in drvSes /\ shm' = [shm EXCEPT ![m] = NoShm]
      /\ ses' = [ses EXCEPT ![s].mems = @ - 1] /\ drvMem' = [drvMem EXCEPT ![s] = @ - 1]
      /\ UNCHANGED <<dev, op, drvSes, drvCtx, stuck, odd>>
  BY DEF otz_shared_memory_release
<1>2. /\ shm \in [AMem -> otz_shared_mem_t] /\ ses \in [ASess -> otz_session_t] /\ drvMem \in [ASess -> Int]
      /\ s \in ASess
      /\ \A t \in ASess : ses[t].mems = Cardinality(Blocks(t)) /\ ses[t].mems \in Int
  BY <1>1, ApiFields DEF ApiInv, ApiTypeOK, CountsExact
<1>3. NoShm \in otz_shared_mem_t /\ NoShm.state = "undefined"
  BY DEF NoShm, otz_shared_mem_t, OtzState
<1>4. m \in Blocks(s)
  BY <1>1
<1> HIDE DEF s
<1>5. /\ shm' \in [AMem -> otz_shared_mem_t] /\ shm'[m] = NoShm /\ \A n \in AMem \ {m} : shm'[n] = shm[n]
  BY <1>1, <1>2, <1>3
<1>6. /\ ses' \in [ASess -> otz_session_t] /\ \A t \in ASess \ {s} : ses'[t] = ses[t]
      /\ ses'[s].state = ses[s].state /\ ses'[s].ops = ses[s].ops /\ ses'[s].mems = ses[s].mems - 1
  BY <1>1, <1>2 DEF otz_session_t
<1>7. drvMem' \in [ASess -> Int]
  BY <1>1, <1>2
<1>8. BlocksAttached'
  BY <1>1, <1>3, <1>5 DEF ApiInv, BlocksAttached
<1>9. Left(s) = Blocks(s) \ {m} /\ \A t \in ASess \ {s} : Left(t) = Blocks(t)
  BY <1>3, <1>4, <1>5
<1>10. Cardinality(Left(s)) = Cardinality(Blocks(s)) - 1
  <2>1. IsFiniteSet(Blocks(s))
    BY ApiAssumption, FS_Subset
  <2> QED BY <1>4, <1>9, <2>1, FS_RemoveElement
<1>11. ASSUME NEW t \in ASess
      PROVE  /\ ses'[t].state = ses[t].state /\ ses'[t].ops = ses[t].ops
             /\ ses'[t].mems = Cardinality(Left(t))
  <2> HIDE DEF Left, Blocks
  <2>1. CASE t = s
    BY <1>2, <1>6, <1>10, <2>1
  <2>2. CASE t # s
    BY <1>2, <1>6, <1>9, <2>2
  <2> QED BY <2>1, <2>2
<1> QED BY <1>1, <1>5, <1>6, <1>7, <1>8, <1>11, BlocksKeep

LEMMA ApiStays == ASSUME ApiInv, UNCHANGED avars PROVE ApiInv'
<1>1. UNCHANGED <<dev, ses, op, shm, drvSes, drvCtx, drvMem, stuck, odd>>
  BY DEF avars
<1>2. /\ shm' \in [AMem -> otz_shared_mem_t] /\ drvMem' \in [ASess -> Int] /\ ses' \in [ASess -> otz_session_t]
  BY <1>1 DEF ApiInv, ApiTypeOK
<1>3. \A t \in ASess :
         /\ ses'[t].state = ses[t].state /\ ses'[t].ops = ses[t].ops
         /\ ses'[t].mems = Cardinality({m \in AMem : shm'[m].state = "open" /\ shm'[m].ses = t})
  BY <1>1 DEF ApiInv, CountsExact
<1>4. BlocksAttached'
  BY <1>1 DEF ApiInv, BlocksAttached
<1> QED BY <1>1, <1>2, <1>3, <1>4, BlocksKeep

LEMMA ApiNextInv == ASSUME ApiInv, [OtzApiNext]_avars PROVE ApiInv'
<1>1. CASE UNCHANGED avars
  BY <1>1, ApiStays
<1>2. CASE OtzApiNext
  <2>1. odd = {}
    BY <1>2 DEF OtzApiNext
  <2>2. CASE otz_device_open \/ otz_device_close
    BY <2>1, <2>2, DeviceKeeps
  <2>3. ASSUME NEW o \in AOp, NEW s \in ASess,
               \/ otz_operation_prepare_open(o, s) \/ otz_operation_prepare_invoke(o, s)
               \/ otz_operation_prepare_close(o, s)
        PROVE  ApiInv'
    BY <2>1, <2>3, PrepareActs
  <2>4. ASSUME NEW o \in AOp, otz_encode(o) \/ otz_encode_array_space(o) \/ otz_decode_fails(o)
        PROVE  ApiInv'
    BY <2>1, <2>4, EncodeKeeps
  <2>5. ASSUME NEW o \in AOp, PerformOpen(o) \/ PerformInvoke(o) \/ PerformClose(o) PROVE ApiInv'
    BY <2>1, <2>5, PerformOpenKeeps, PerformInvokeKeeps, PerformCloseKeeps
  <2>6. ASSUME NEW o \in AOp, otz_operation_release(o) PROVE ApiInv'
    BY <2>1, <2>6, OperationReleaseKeeps
  <2>7. ASSUME NEW m \in AMem, NEW s \in ASess, otz_shared_memory_allocate(s, m) PROVE ApiInv'
    BY <2>1, <2>7, AllocateKeeps
  <2>8. ASSUME NEW m \in AMem, otz_shared_memory_release(m) PROVE ApiInv'
    BY <2>1, <2>8, FreeKeeps
  <2> QED BY <1>2, <2>2, <2>3, <2>4, <2>5, <2>6, <2>7, <2>8 DEF OtzApiNext
<1> QED BY <1>1, <1>2

\* Every state of the client API satisfies ApiInv, for any number of sessions,
\* operations, blocks and encode ids.
THEOREM ApiInvariant == OtzApiSpec => []ApiInv
<1>1. ApiInv /\ [OtzApiNext]_avars => ApiInv'
  BY ApiNextInv
<1> QED BY <1>1, ApiInitInv, PTL DEF OtzApiSpec

\* The counts that decide whether otz_api may close a session or the device
\* are exact, and the context of every invoke operation is alive and its own.
THEOREM ApiCountsExact == OtzApiSpec => []ApiExact
<1>1. ApiInv => ApiExact
  BY DEF ApiInv, ApiExact
<1> QED BY <1>1, ApiInvariant, PTL

----------------------------------------------------------------------------
(* CryptoVerify: the verdicts of the crypto tests.                          *)

\* The answers of a list of tests: none is its own input, empty, or that of
\* the test before.
Answers(ts) ==
    /\ \E S : ts \in Seq(S)
    /\ \A n \in 1 .. Len(ts) :
          /\ ts[n].out # ts[n].in /\ ts[n].out # "unset" /\ Length[ts[n].out] # 0
          /\ n > 1 => ts[n].out # ts[n - 1].out

LEMMA KnownFields ==
    \A x, y : Known(x, y).in = x /\ Known(x, y).out = y
BY DEF Known

LEMMA DigestAnswers == Answers(verify_digest_crypto_libs) /\ Len(verify_digest_crypto_libs) = 4
<1> DEFINE ts == verify_digest_crypto_libs
<1>1. Len(ts) = 4
  BY DEF verify_digest_crypto_libs
<1>2. /\ ts[1] = Known("message", "md5")
      /\ ts[2] = Known("abc", "sha1")
      /\ ts[3] = Known("abc", "sha224")
      /\ ts[4] = Known("abc", "sha256")
  BY DEF verify_digest_crypto_libs
<1>3. /\ Length["md5"] = 16 /\ Length["sha1"] = 20 /\ Length["sha224"] = 28
      /\ Length["sha256"] = 32
  BY DEF Length
<1>4. /\ ts[1].in = "message" /\ ts[2].in = "abc" /\ ts[3].in = "abc" /\ ts[4].in = "abc"
      /\ ts[1].out = "md5" /\ ts[2].out = "sha1" /\ ts[3].out = "sha224"
      /\ ts[4].out = "sha256"
  BY <1>2, KnownFields
<1>5. \E S : ts \in Seq(S)
  <2>1. ts \in Seq({ts[n] : n \in 1 .. 4})
    BY <1>1 DEF verify_digest_crypto_libs
  <2> QED BY <2>1
<1> HIDE DEF ts
<1>6. ASSUME NEW n \in 1 .. 4
      PROVE  /\ ts[n].out # ts[n].in /\ ts[n].out # "unset" /\ Length[ts[n].out] # 0
             /\ n > 1 => ts[n].out # ts[n - 1].out
  <2>1. CASE n = 1
    BY <1>3, <1>4, <2>1
  <2>2. CASE n = 2
    BY <1>3, <1>4, <2>2
  <2>3. CASE n = 3
    BY <1>3, <1>4, <2>3
  <2>4. CASE n = 4
    BY <1>3, <1>4, <2>4
  <2> QED BY <2>1, <2>2, <2>3, <2>4
<1> QED BY <1>1, <1>5, <1>6 DEF Answers, ts

LEMMA HmacAnswers == Answers(verify_hmac_crypto_libs) /\ Len(verify_hmac_crypto_libs) = 3
<1> DEFINE ts == verify_hmac_crypto_libs
<1>1. Len(ts) = 3
  BY DEF verify_hmac_crypto_libs
<1>2. /\ ts[1] = Known("hmac_data", "hmac_md5")
      /\ ts[2] = Known("hmac_data", "hmac_sha1")
      /\ ts[3] = Known("hmac_data", "hmac_sha224")
  BY DEF verify_hmac_crypto_libs
<1>3. /\ Length["hmac_md5"] = 16 /\ Length["hmac_sha1"] = 20 /\ Length["hmac_sha224"] = 28
  BY DEF Length
<1>4. /\ ts[1].in = "hmac_data" /\ ts[2].in = "hmac_data" /\ ts[3].in = "hmac_data"
      /\ ts[1].out = "hmac_md5" /\ ts[2].out = "hmac_sha1" /\ ts[3].out = "hmac_sha224"
  BY <1>2, KnownFields
<1>5. \E S : ts \in Seq(S)
  <2>1. ts \in Seq({ts[n] : n \in 1 .. 3})
    BY <1>1 DEF verify_hmac_crypto_libs
  <2> QED BY <2>1
<1> HIDE DEF ts
<1>6. ASSUME NEW n \in 1 .. 3
      PROVE  /\ ts[n].out # ts[n].in /\ ts[n].out # "unset" /\ Length[ts[n].out] # 0
             /\ n > 1 => ts[n].out # ts[n - 1].out
  <2>1. CASE n = 1
    BY <1>3, <1>4, <2>1
  <2>2. CASE n = 2
    BY <1>3, <1>4, <2>2
  <2>3. CASE n = 3
    BY <1>3, <1>4, <2>3
  <2> QED BY <2>1, <2>2, <2>3
<1> QED BY <1>1, <1>5, <1>6 DEF Answers, ts

LEMMA AesAnswers == Answers(AesTests) /\ Len(AesTests) = 8
<1> DEFINE ts == AesTests
<1>1. Len(ts) = 8
  BY DEF AesTests
<1>2. /\ ts[1] = Known("aes_plain", "aes_cbc")
      /\ ts[2] = Known("aes_cbc", "aes_plain")
      /\ ts[3] = Known("aes_plain", "aes_ecb")
      /\ ts[4] = Known("aes_ecb", "aes_plain")
      /\ ts[5] = Known("ctr_plain", "ctr")
      /\ ts[6] = Known("ctr", "ctr_plain")
      /\ ts[7] = Known("aes_plain", "aes_xts")
      /\ ts[8] = Known("aes_xts", "aes_plain")
  BY DEF AesTests
<1>3. /\ Length["aes_cbc"] = 16 /\ Length["aes_ecb"] = 16 /\ Length["aes_plain"] = 16
      /\ Length["aes_xts"] = 16 /\ Length["ctr"] = 32 /\ Length["ctr_plain"] = 32
  BY DEF Length
<1>4. /\ ts[1].in = "aes_plain" /\ ts[2].in = "aes_cbc" /\ ts[3].in = "aes_plain"
      /\ ts[4].in = "aes_ecb" /\ ts[5].in = "ctr_plain" /\ ts[6].in = "ctr"
      /\ ts[7].in = "aes_plain" /\ ts[8].in = "aes_xts" /\ ts[1].out = "aes_cbc"
      /\ ts[2].out = "aes_plain" /\ ts[3].out = "aes_ecb" /\ ts[4].out = "aes_plain"
      /\ ts[5].out = "ctr" /\ ts[6].out = "ctr_plain" /\ ts[7].out = "aes_xts"
      /\ ts[8].out = "aes_plain"
  BY <1>2, KnownFields
<1>5. \E S : ts \in Seq(S)
  <2>1. ts \in Seq({ts[n] : n \in 1 .. 8})
    BY <1>1 DEF AesTests
  <2> QED BY <2>1
<1> HIDE DEF ts
<1>6. ASSUME NEW n \in 1 .. 8
      PROVE  /\ ts[n].out # ts[n].in /\ ts[n].out # "unset" /\ Length[ts[n].out] # 0
             /\ n > 1 => ts[n].out # ts[n - 1].out
  <2>1. CASE n = 1
    BY <1>3, <1>4, <2>1
  <2>2. CASE n = 2
    BY <1>3, <1>4, <2>2
  <2>3. CASE n = 3
    BY <1>3, <1>4, <2>3
  <2>4. CASE n = 4
    BY <1>3, <1>4, <2>4
  <2>5. CASE n = 5
    BY <1>3, <1>4, <2>5
  <2>6. CASE n = 6
    BY <1>3, <1>4, <2>6
  <2>7. CASE n = 7
    BY <1>3, <1>4, <2>7
  <2>8. CASE n = 8
    BY <1>3, <1>4, <2>8
  <2> QED BY <2>1, <2>2, <2>3, <2>4, <2>5, <2>6, <2>7, <2>8
<1> QED BY <1>1, <1>5, <1>6 DEF Answers, ts

LEMMA DesAnswers == Answers(DesTests) /\ Len(DesTests) = 8
<1> DEFINE ts == DesTests
<1>1. Len(ts) = 8
  BY DEF DesTests
<1>2. /\ ts[1] = Known("des_plain", "des")
      /\ ts[2] = Known("des", "des_plain")
      /\ ts[3] = Known("des_plain", "des")
      /\ ts[4] = Known("des", "des_plain")
      /\ ts[5] = Known("des3_plain", "des3_cbc")
      /\ ts[6] = Known("des3_cbc", "des3_plain")
      /\ ts[7] = Known("des3_plain", "des3_ecb")
      /\ ts[8] = Known("des3_ecb", "des3_plain")
  BY DEF DesTests
<1>3. /\ Length["des"] = 8 /\ Length["des3_cbc"] = 32 /\ Length["des3_ecb"] = 32
      /\ Length["des3_plain"] = 32 /\ Length["des_plain"] = 8
  BY DEF Length
<1>4. /\ ts[1].in = "des_plain" /\ ts[2].in = "des" /\ ts[3].in = "des_plain"
      /\ ts[4].in = "des" /\ ts[5].in = "des3_plain" /\ ts[6].in = "des3_cbc"
      /\ ts[7].in = "des3_plain" /\ ts[8].in = "des3_ecb" /\ ts[1].out = "des"
      /\ ts[2].out = "des_plain" /\ ts[3].out = "des" /\ ts[4].out = "des_plain"
      /\ ts[5].out = "des3_cbc" /\ ts[6].out = "des3_plain" /\ ts[7].out = "des3_ecb"
      /\ ts[8].out = "des3_plain"
  BY <1>2, KnownFields
<1>5. \E S : ts \in Seq(S)
  <2>1. ts \in Seq({ts[n] : n \in 1 .. 8})
    BY <1>1 DEF DesTests
  <2> QED BY <2>1
<1> HIDE DEF ts
<1>6. ASSUME NEW n \in 1 .. 8
      PROVE  /\ ts[n].out # ts[n].in /\ ts[n].out # "unset" /\ Length[ts[n].out] # 0
             /\ n > 1 => ts[n].out # ts[n - 1].out
  <2>1. CASE n = 1
    BY <1>3, <1>4, <2>1
  <2>2. CASE n = 2
    BY <1>3, <1>4, <2>2
  <2>3. CASE n = 3
    BY <1>3, <1>4, <2>3
  <2>4. CASE n = 4
    BY <1>3, <1>4, <2>4
  <2>5. CASE n = 5
    BY <1>3, <1>4, <2>5
  <2>6. CASE n = 6
    BY <1>3, <1>4, <2>6
  <2>7. CASE n = 7
    BY <1>3, <1>4, <2>7
  <2>8. CASE n = 8
    BY <1>3, <1>4, <2>8
  <2> QED BY <2>1, <2>2, <2>3, <2>4, <2>5, <2>6, <2>7, <2>8
<1> QED BY <1>1, <1>5, <1>6 DEF Answers, ts

LEMMA ConcatFacts ==
    ASSUME NEW S, NEW p \in Seq(S), NEW q \in Seq(S)
    PROVE  /\ p \o q \in Seq(S) /\ Len(p \o q) = Len(p) + Len(q)
           /\ \A n \in 1 .. Len(p) : (p \o q)[n] = p[n]
           /\ \A n \in (Len(p) + 1) .. (Len(p) + Len(q)) : (p \o q)[n] = q[n - Len(p)]
OBVIOUS

LEMMA CipherAnswers == Answers(verify_cipher_crypto_libs)
<1> DEFINE a == AesTests
           d == DesTests
           ts == a \o d
<1>0. PICK A, D : a \in Seq(A) /\ d \in Seq(D)
  BY AesAnswers, DesAnswers DEF Answers
<1> DEFINE S == A \cup D
<1>1. /\ a \in Seq(S) /\ Len(a) = 8 /\ d \in Seq(S) /\ Len(d) = 8
      /\ a[8].out = "aes_plain" /\ d[1].out = "des"
  <2>1. a[8].out = "aes_plain" /\ d[1].out = "des"
    BY DEF AesTests, DesTests, Known
  <2>2. Len(a) = 8 /\ Len(d) = 8
    BY AesAnswers, DesAnswers
  <2>3. a \in Seq(S) /\ d \in Seq(S)
    <3> HIDE DEF a, d
    <3> QED BY <1>0
  <2> QED BY <2>1, <2>2, <2>3
<1> HIDE DEF S, a, d
<1>2. /\ ts \in Seq(S) /\ Len(ts) = 16
      /\ \A n \in 1 .. 8 : ts[n] = a[n]
      /\ \A n \in 9 .. 16 : ts[n] = d[n - 8]
  <2>0. a \in Seq(S) /\ d \in Seq(S)
    BY <1>1
  <2>1. /\ ts \in Seq(S) /\ Len(ts) = Len(a) + Len(d)
        /\ \A n \in 1 .. Len(a) : ts[n] = a[n]
        /\ \A n \in (Len(a) + 1) .. (Len(a) + Len(d)) : ts[n] = d[n - Len(a)]
    BY <2>0, ConcatFacts
  <2> HIDE DEF ts
  <2> QED BY <1>1, <2>1
<1> HIDE DEF ts
<1>3. ASSUME NEW n \in 1 .. 16
      PROVE  /\ ts[n].out # ts[n].in /\ ts[n].out # "unset" /\ Length[ts[n].out] # 0
             /\ n > 1 => ts[n].out # ts[n - 1].out
  <2>1. CASE n <= 8
    BY SMTT(30), <1>1, <1>2, <2>1, AesAnswers DEF Answers, a
  <2>2. CASE n > 8
    <3>1. /\ n - 8 \in 1 .. 8 /\ n - 1 \in 8 .. 15 /\ ts[n] = d[n - 8]
          /\ n > 9 => (n - 1) - 8 = (n - 8) - 1 /\ ts[n - 1] = d[(n - 8) - 1]
          /\ n = 9 => ts[n - 1] = a[8] /\ ts[n] = d[1]
      BY SMTT(30), <1>2, <2>2
    <3>2. \A k \in 1 .. 8 :
             /\ d[k].out # d[k].in /\ d[k].out # "unset" /\ Length[d[k].out] # 0
             /\ k > 1 => d[k].out # d[k - 1].out
      BY <1>1, DesAnswers DEF Answers, d
    <3>3. ts[n].out # ts[n].in /\ ts[n].out # "unset" /\ Length[ts[n].out] # 0
      BY <3>1, <3>2
    <3>4. CASE n = 9
      BY <1>1, <3>1, <3>3, <3>4
    <3>5. CASE n > 9
      <4>1. d[n - 8].out # d[(n - 8) - 1].out
        BY <3>1, <3>2, <3>5
      <4> QED BY <3>1, <3>3, <3>5, <4>1
    <3>6. n = 9 \/ n > 9
      BY <2>2
    <3> QED BY <3>3, <3>4, <3>5, <3>6
  <2> QED BY <2>1, <2>2
<1> QED BY <1>2, <1>3 DEF Answers, ts, S, a, d, verify_cipher_crypto_libs

LEMMA SuiteAnswers ==
    /\ DOMAIN Suites = 1 .. 3 /\ Len(Suites) = 3
    /\ \A i \in 1 .. 3 : Answers(Suites[i])
<1>1. DOMAIN Suites = 1 .. 3 /\ Len(Suites) = 3
  BY DEF Suites
<1>2. /\ Suites[1] = verify_digest_crypto_libs /\ Suites[2] = verify_hmac_crypto_libs
      /\ Suites[3] = verify_cipher_crypto_libs
  BY DEF Suites
<1> QED BY <1>1, <1>2, DigestAnswers, HmacAnswers, CipherAnswers

LEMMA VerifyStep == VerifyInv /\ Verify => VerifyInv'
<1> SUFFICES ASSUME VerifyInv, Verify PROVE VerifyInv'
  OBVIOUS
<1> DEFINE ts == Suites[suite]
           t == ts[tests + 1]
<1>1. /\ suite \in 1 .. 3 /\ tests \in Nat /\ tests < Len(ts) /\ tests' = tests + 1 /\ before' = verdict
      /\ suite' = suite /\ Answers(ts) /\ Len(ts) \in Nat
  BY SMTT(30), SuiteAnswers DEF VerifyInv, Verify, Answers
<1>2. /\ t.out # t.in /\ t.out # "unset" /\ Length[t.out] # 0
      /\ tests # 0 => t.out # ts[tests].out
  <2> DEFINE n == tests + 1
  <2>1. n \in 1 .. Len(ts) /\ (tests # 0 => n > 1 /\ n - 1 = tests)
    BY <1>1
  <2>2. /\ ts[n].out # ts[n].in /\ ts[n].out # "unset" /\ Length[ts[n].out] # 0
        /\ n > 1 => ts[n].out # ts[n - 1].out
    <3> HIDE DEF n, ts
    <3> QED BY <1>1, <2>1 DEF Answers
  <2> QED BY <2>1, <2>2
<1>3. PICK r \in perform_crypto_result(t) :
         data' = r.data /\ len' = r.len /\ carried' = r.done /\ verdict' = Passed(t, r)
  BY DEF Verify
<1>4. verdict' = (r.len = Length[t.out] /\ r.data = t.out)
  BY <1>3 DEF Passed
<1>5. /\ r.done \in BOOLEAN
      /\ ~r.done => \/ r.data = t.in
                    \/ r.len = 0
                    \/ r.data = data
  <2> HIDE DEF t, ts
  <2>1. \/ r = [data |-> t.out, len |-> Length[t.out], done |-> TRUE]
        \/ r = [data |-> t.in, len |-> Length[t.in], done |-> FALSE]
        \/ r = [data |-> data, len |-> 0, done |-> FALSE]
        \/ r = [data |-> data, len |-> len, done |-> FALSE]
    BY <1>3, Zenon DEF perform_crypto_result
  <2>2. CASE r = [data |-> t.out, len |-> Length[t.out], done |-> TRUE]
    BY <2>2
  <2>3. CASE r = [data |-> t.in, len |-> Length[t.in], done |-> FALSE]
    BY <2>3
  <2>4. CASE r = [data |-> data, len |-> 0, done |-> FALSE]
    BY <2>4
  <2>5. CASE r = [data |-> data, len |-> len, done |-> FALSE]
    BY <2>5
  <2> QED BY <2>1, <2>2, <2>3, <2>4, <2>5
<1>6. verdict' => data' = IF tests' = 0 THEN "unset" ELSE Suites[suite'][tests'].out
  <2>1. verdict' => data' = t.out
    BY <1>3, <1>4
  <2>2. tests' # 0 /\ Suites[suite'][tests'] = t
    BY <1>1
  <2> HIDE DEF t
  <2> QED BY <2>1, <2>2
<1>7. ASSUME verdict', ~carried', before' PROVE FALSE
  <2>1. r.data = t.out /\ r.len # 0 /\ ~r.done /\ verdict
    BY <1>1, <1>2, <1>3, <1>4, <1>7
  <2>2. data = t.out
    BY <1>2, <1>5, <2>1
  <2>3. data = IF tests = 0 THEN "unset" ELSE ts[tests].out
    BY <2>1 DEF VerifyInv
  <2> QED BY <1>2, <2>2, <2>3
<1>8. verdict' \in BOOLEAN /\ carried' \in BOOLEAN /\ before' \in BOOLEAN
  BY <1>1, <1>3, <1>4, <1>5 DEF VerifyInv
<1>9. suite' \in DOMAIN Suites /\ tests' \in 0 .. Len(Suites[suite'])
  BY <1>1, SuiteAnswers
<1> QED BY <1>6, <1>7, <1>8, <1>9 DEF VerifyInv, VerdictsTrue

\* In a run of otzapp that reports no failed test, every answer was computed
\* by the service: a stale or copied buffer never passes for the next answer.
THEOREM VerdictsSound == CryptoVerifySpec => []VerdictsTrue
<1>1. CryptoVerifyInit => VerifyInv
  <2> SUFFICES ASSUME CryptoVerifyInit PROVE VerifyInv
    OBVIOUS
  <2>1. suite \in DOMAIN Suites /\ tests \in 0 .. Len(Suites[suite])
    BY SuiteAnswers DEF CryptoVerifyInit, Answers
  <2> QED BY <2>1 DEF CryptoVerifyInit, VerifyInv, VerdictsTrue
<1>2. VerifyInv /\ [CryptoVerifyNext]_verifyvars => VerifyInv'
  <2> SUFFICES ASSUME VerifyInv, [CryptoVerifyNext]_verifyvars PROVE VerifyInv'
    OBVIOUS
  <2>1. CASE NextSuite
    <3>1. suite' \in DOMAIN Suites /\ tests' \in 0 .. Len(Suites[suite'])
      BY <2>1, SuiteAnswers DEF NextSuite, VerifyInv, Answers
    <3> QED BY <2>1, <3>1 DEF NextSuite, VerifyInv, VerdictsTrue
  <2>2. CASE UNCHANGED verifyvars
    BY <2>2 DEF verifyvars, VerifyInv, VerdictsTrue
  <2> QED BY <2>1, <2>2, VerifyStep DEF CryptoVerifyNext
<1>3. VerifyInv => VerdictsTrue
  BY DEF VerifyInv
<1> QED BY <1>1, <1>2, <1>3, PTL DEF CryptoVerifySpec

=============================================================================
