# Verification of OVTEE-ZC702 (SierraTEE on Zynq-7000)

The repository holds a trusted execution environment: a small cooperative kernel
that runs in the secure world of an ARM core, a Linux driver that reaches it
through SMC instructions, client libraries, and sample services. This directory
models its own core logic in TLA+, checks the models with TLC and proves results
about them with TLAPS. `K` below is `src/trustzone/tzone_sdk/sierratee/src`.

The configuration modelled is the Zynq one (`config/zynq7`): one guest
(`CONFIG_MULTI_GUESTS` off), asynchronous notification on, one core in the secure
world.

## 1. Inventory

| Component | State | Operations | Interaction and hard behaviour | Correct when |
|---|---|---|---|---|
| Scheduler, task life cycle (`K/core/{global,task,scheduler}.c`, `K/lib/kernel/sw_wait.c`) | `task_list`, `ready_to_run_list`, `task_id_pool`, `current_task_id`, state of each task | create, start, suspend, resume, wait, sleep, exit, destroy, `schedule` | tasks are cooperative and run with IRQs masked, but FIQs (timer, UART) wake tasks between any two critical sections | nobody runnable is lost, no node is linked twice, no blocked task runs, ids are not shared, everybody ready runs |
| Driver SMC path (`otz_driver/otz_client_main.c`) | static `smc_cmd`, `send_cmd_lock` and its siblings, `smc_lock`, wait flags, notify slot | ioctl send / open / close, notification IPI | preemptive clients, mutex dropped while waiting, signals, interrupt before the wait | what an SMC passes is what its caller meant; structures are freed once; pending operations end |
| Semaphores, mutexes (`K/lib/kernel/sw_semaphores.c`, `sw_semaphores_asm.S`) | count, lock word, owner, wait queue | init, acquire, try, release, delete | exclusive accesses broken by FIQs, wake-up of the first waiter only | exclusion, no lost unit, no lost wake-up |
| Buddy heap (`K/lib/common/sw_buddy.c`) | free trees per bin, tree of allocated nodes, node array | allocate (split), free (merge) | no lock, frees from the timer FIQ | blocks never overlap, lie in the pool, and are accounted for |
| Timer events (`K/core/sw_timer.c`) | sorted queue, `next_timelen`, one-shot timer | create, start, stop, destroy, tick FIQ | the FIQ comes between locking, comparing and programming | every event fires, in order and in time |
| Dispatcher, world switch (`K/apps/dispatcher_task.c`, `linux_task.c`, `monitor.S`, `smc_wrapper.c`) | parameters from the monitor, one return slot, pending notification | dispatch, return to Linux, resume | one slot for answers of many sessions, Linux interrupted at any point | each call is answered, by its own result |
| Sessions, secure API (`K/core/secure_api.c`, `task.c`, board tables) | entry points, task per session, stacks, heaps, thread storage, permissions | open, close | failures half way, refused opens | what a failed open took is given back; no use after destroy |
| Pages (`K/core/mem_mng.c`, `page_table.c`) | bitmaps of pages, first- and second-level tables, references to non-secure sections | allocate, reserve, map, unmap | mapping a page of tables needs a table | counts exact, nothing freed while it translates |
| Shared segments (`K/lib/kernel/sw_shared_memory.c`) | segments, identifiers, windows | create, control, attach, detach, destroy | destruction under attached tasks | pages and identifiers owned once |
| Services (`task_control.c`, `echo_task.c`, `drm_task.c`, `crypto_task.c`) | mapped buffers, work blocks | receive, decode, handle, answer | many ways out, sections shared between services | everything mapped is unmapped, once, and nothing else |
| Cryptography API (`otz_tee_crypto_api.c`, `crypto_tests.c`) | fields of an operation | allocate, key, init, update, final, free | any order of calls, any of them failing | only set fields are freed, programs return all |
| Driver files (`otz_client_main.c`) | files, services, sessions, contexts, shared blocks | ioctls, mmap, release | clients interleaved, release while a send waits | lists exact; a send is not disturbed |
| Client APIs and programs (`otz_api/`, `ns_client_apps/`) | device, session, operation and block states, counts | API calls, encoding, decoding | error paths, call sequences | counts exact, parameters intact, nothing left open |
| Device files (`sw_syscall_imp.c`, drivers) | descriptors per task | open, close, read, write, ioctl, print | link allocated after the open | every open is closed once |
| Shell (`shell_process_task.c`, `shell_command_manager.c`) | static line buffer, environment list | keys, commands | recursion of variables, limits of the buffer | what is shown is what is executed; nesting bounded |
| Interrupts (`sw_gic.c`, `xilinx_timer.c`) | groups, enables, active interrupts | mask, acknowledge, end, arm | two worlds on one controller | each world gets its own, the tick is never silenced |
| Clock (`sw_timer.c`, `cpu_api.c`, `sw_timer_functions.c`) | timestamp, cycle counters | read, overflow FIQ, conversion, sum and difference, `task_usleep` | not atomic against the overflow FIQ; divisions by shifts, 64-bit carries between nanoseconds and seconds | no cycle counted twice; a sleep lasts as long as asked |
| Big numbers (`otz_tee_arith_api.c`) | none but its arrays of words | add, subtract, compare, shift, multiply, divide | carries and borrows recognised by comparison, a loop that need not end | the number computed is the right one, the loop ends |

`PROJECT.json` lists every component, those that stay out too, and under `hazards`
what in this code is hard to test, line by line.

## 2. Plan

Done: the scheduler and kernel objects (`TaskSched`, `SwSemaphore`, `SwMutex`, `SwBuddy`,
`SwTimer`, `ClockCount`), the world switch (`WorldSwitch`), memory and sessions
(`SwMemory`, `SwSessions`, `SwShm`, `PageTable`, `NsSections`), the services and what they
use (`Services`, `TeeCrypto`, `SwDevices`, `Gic`), the shell (`ShellLine` over
`LineEditor`, `ShellCmd`), the Linux side (`OtzDriver`, `OtzFiles`, `OtzApi`, `OtzApps`,
`TeeClient`, `TeeInvoke`, `CryptoVerify`), the algorithms (`BigNum`, `BuddyTree`,
`TimeMath`); proofs about the scheduler, heap, segments and sessions, both locks, timer
queue, clock and sleeps, the answers of the secure world, the driver's calls and files, the
client API, the line editor and commands of the shell, the services, the device files and
the interrupt controller.

Open: page tables, parameters and operations of the cryptography API are stated over
recursive operators; a proof about them would need them restated without. What else stays
with TLC, and why, is in section 5.

## 3. Modules

Definitions named `..._<word>` under a comment "Defect" are changed versions of the
definition that follows them; nothing uses them, they exist to show that each property
can fail (`mutants` in `PROJECT.json`).

Modules with an MC module of their own, or whose cfg names them, are checked alone. The
composite MC modules (`MCScheduling`, `MCKernel`, `MCMemory`, `MCClient`, `MCServices`) put
several modules that share no state, or share only the page bitmaps, in one run: a
variable, `part`, chosen in the initial state, says which of them a behaviour is about, and
the others keep still.
This is a union of separate checks, not an interleaving. What does interact is composed
inside the modules: `SwSessions`, `SwShm` and `PageTable` are over the pages of
`SwMemory`; `Services` is over `NsSections`; `OtzApps` runs programs against `OtzApi`.

**TaskSched.** State: `pool` (ids taken), `tasks`, `state`, `ready`, `current`
(`current_task_id`), `cpu` (the stack that runs), `phase` (own code, about to
suspend, in `schedule`, chosen but not switched), `armed` (sleep timers), `asyncQ`,
`waiter` and `looped` (the one `wait_head` node per task). Each operation of a task,
and each critical section of the scheduler, is an action; the FIQs are actions that
may come between any two. `fault` records, and freezes the model at, the ways in
which the code stops being a kernel: a list linked into itself, an id scan that does
not end, a NULL task. Invariants hold up to and including that state.

**WorldSwitch.** Linux, the dispatcher, the task that returns to Linux and two services.
State: which world runs, the call Linux is inside, the one answer slot with the call it
was set for, the ready list, each service's position, its event and the notification.
Actions: the SMCs Linux makes (a call of a service, of the dispatcher itself, a resume), the
FIQ in each world, the branches of `dispatch_task`, the two ways back through the monitor,
and the services, which answer, sleep, or answer `SMC_PENDING` and are resumed.

**OtzDriver.** State: program counter and locals of each client in `otz_smc_call`,
owners of the mutexes, the heap of command structures and what each holds, the static
`smc_cmd`, session lists, wait flags, the notify slot. The secure world is external:
it answers an SMC at once or with `SMC_PENDING`, and posts one notification for what
it left pending. Two history variables say what has happened: `mixed` (a call set
`smc_cmd` while another was between its allocation and its return) and `intr` (a signal
ended a wait). The properties name the ones they depend on. `Followed` is a bound: a
thread is not followed past a bad use of a structure, nor once both have happened.

**SwSemaphore, SwMutex.** The counter or lock word, the wait queue, the ready list of
the cooperative scheduler, and what each task holds (history). `SemYield` and
`MutexYield` are `schedule()`. In `SwMutex` a FIQ may make the store-exclusive fail; `torn`
remembers that it did so in a release. In `SwSemaphore`, `over` remembers that a task
released more than it had acquired.

**SwBuddy.** Addresses and sizes count minimum allocations. The tree of each bin is the
set of its addresses: `add_sorted_btree_node` keeps it as a chain in address order,
and the code inserts, removes, and looks at the lowest address and its neighbour only.
The task and the FIQ handler are two contexts; the handler runs to its end. Each tree
operation of an allocation or a free is a step.

**SwTimer.** Times are relative to now and count clock cycles (18 microseconds on this
board). A call is cut at its critical sections; `Tick` lets a cycle pass; an interrupt
is taken within the cycle that raises it. `timer_event_stop` has no caller in the
repository: it is modelled as the API offers it.

**ClockCount.** The free-running counter, the two counters of `sw_timer_info` and the
timestamp; `read_timestamp` is cut at its statements, and the overflow FIQ and the
reading of the tick FIQ may come between them. `Converted` is the conversion of an
unsigned difference (`UIntRange`). History: `late` (a reading came after the wrap and
before its interrupt), `mixed` (a FIQ fell inside a reading).

**SwMemory, SwSessions.** `SwMemory` has the bitmaps of physical and virtual pages and the
mappings, and as operators what allocates and frees stacks, heaps and thread storage.
`SwSessions` opens and closes sessions with the tables of `board_config.c` and
`board_test.c`: permission, identifier, the stages of `create_task` each of which may
fail, and how far `create_task` undoes them. `failed` and `undef` record what went wrong
and which undefined behaviour followed; properties say what holds until then.

**SwShm.** Segments in their list, identifiers (one for each page), what is attached, and
the window of each task, over the pages of `SwMemory` and against a stack that comes and
goes.

**PageTable, NsSections.** First-level entries, the list of pages that hold second-level
tables with their use counts, and the recursion by which a page of tables is itself
mapped. `NsSections` maps Linux memory by one-megabyte sections with a list of
references.

**Services.** Two service tasks. A request runs through `process_otzapi`: mapping of the
command, its metadata, request and response; the test of the session; the handler, as the
sequence of parameters it decodes and blocks it takes; and the ways out. Each command of
the echo, DRM and crypto services is one such plan. A parameter may be a secure reference,
which no encoder of this repository's driver writes but `decode_data` takes; the data abort
of reading a section that is not mapped is left out, the handler goes on.

**TeeCrypto, CryptoVerify.** An operation is a record of fields, each unset, a block, or a
freed block; the API's functions say which they set, use and free by algorithm. Clients
call in any order, or are the programs of `crypto_tests.c`. The cryptographic library is
external: each call may fail. `CryptoVerify` is what `otzapp.c` concludes from the answers.

**SwDevices.** Lists of descriptors per task, opens of each device, and printing (open,
write, close); tasks end and begin.

**ShellLine, LineEditor, ShellCmd.** `LineEditor` is the abstract specification: a text, a
cursor, and the keys. `ShellLine` is `process_input` with its static buffer and counters,
and the terminal that shows what is sent. The refinement maps the text to the first
`max_char` characters of the buffer and the cursor to `i`. Where the code and the comment of
`process_input` disagree about a text that gets too long (section 6), `LineEditor` follows
the code. `ShellCmd` has the commands as a
stack of calls with the blocks each holds, and the list of variables.

**Gic.** Groups, enables, levels and active interrupts of the controller, from the boot
sequence on; the handlers of tick, overflow and key; notification of Linux. The controller
and the devices are external.

**OtzFiles.** The lists of the driver, which no lock protects: files, services, sessions,
contexts and shared blocks, with `otz_client_init` failing half way. Threads make any calls
(`call`: the operation, where it is, and what it found): open and release of the file, `mmap`
and the ioctls. A call is cut where it may sleep (`kmalloc`, the SMC, a copy to or from the
client), so that it walks the lists, keeps what it found, and changes lists later. `Unlocked`
is the mutex an ioctl takes: one for each kind, given up by a send while it waits, and none
for `OTZ_CLIENT_IOCTL_OPERATION_RELEASE`, open, release and `mmap`. `Walks`, `Changes` and
`Keeps...` say which links a call follows, writes and holds at each of its places, and
`Disturbs` when a change of one call removes what another walks, holds or changes. When that
happens, or a call acts on something that no longer holds since it slept (`Stale`), `raced`
records the calls and the behaviour ends, as what the code does next is undefined. Up to then
the lists are exact, and what is proved of `raced` is which calls can meet at all.

**OtzApi, OtzApps, TeeClient, TeeInvoke.** `OtzApi` keeps the states and counts of device,
sessions, operations and blocks of `otz_api.c` beside what the driver has; `OtzApps` is the
sequences of calls of `otzapp.c` and `otz_test_app.c`. `TeeClient` does the same for
the GlobalPlatform API and its programs. `TeeInvoke` follows one `TEEC_InvokeCommand` with
every combination of parameter types: encoding in the driver's buffers, what the service
reads and answers, decoding.

**BigNum.** An array of words is a function from its positions, the most significant first,
and a carry is a recursive function over them, computed the way the code computes it (by
comparing the sum with its operands). Each operation is called once with numbers of a
sample; `TEE_BigIntMult` and `TEE_BigIntDivide` go round by round. History: `lost` (a sum
of the multiplication lost a carry) and `slip` (a division shifted its divisor twice, or
lost a borrow), up to which a division is followed.

**BuddyTree.** The nodes and the three pointers of each of a tree of `sw_buddy.c`: insertion
in order (free blocks) or as a leaf (allocated blocks), search, and removal with its
rearrangements. `members` is the set of addresses that `SwBuddy` takes the tree for.

**TimeMath.** Pairs of seconds and nanoseconds added and subtracted as one 64-bit word, the
conversion of cycles, 18 microseconds each, by shifts, the duration `task_usleep` works out,
and one sleeper whose event becomes due while the clock is read. No reading is a lap of the
counter (65535 cycles) away from the last one: longer gaps are `ClockCount`'s.

**Proof modules.** `TaskSchedProofs` (`TaskSched` and `WorldSwitch`), `MemoryProofs`
(`SwBuddy`, `SwShm`, `SwSessions`), `KernelProofs` (`SwMutex`, `SwSemaphore`, `ClockCount`,
`SwTimer`, `TimeMath`), `OtzDriverProofs`, `ClientProofs` (`OtzFiles`, `OtzApi`,
`CryptoVerify`), `ShellLineProofs` (`ShellLine` with its refinement of `LineEditor`, and
`ShellCmd`), `ServicesProofs` (`Services` over
`NsSections`, `Gic` and `SwDevices`); `ListLemmas` holds what is common to lists: appending, taking the
head, unlinking and inserting keep a list without repetitions and change its elements by
one.

## 4. Runs

| Run | Shows |
|---|---|
| `TaskSched_safety` | dispatcher, shell and two sessions: ids, ready list, no lost task, no blocked runner |
| `Scheduling_liveness` | scheduler: the dispatcher keeps running and every ready task runs (`CoreShared`); semaphore: queue exact and, until a task releases too much or the semaphore is deleted, units and wake-ups kept (`SemaphoreSafe`), nobody left waiting (`ReleaseWakes`); worlds: Linux gets the answer to its own call (`AnswersMatch`) and always gets one (`CallAnswered`) |
| `OtzDriver_calls` | two clients that open, send and close, with asynchronous answers and signals: commands delivered as meant and structures freed once until two calls overlap; one client at a time per ioctl until a wait is interrupted; pending operations end and are not woken early |
| `Kernel_objects` | mutual exclusion with FIQs, and a mutex nobody holds is free until a releasing store fails (`MutexSafe`); event queue sorted and exact, timer never left off (`TimerSafe`), every event fires; clock exact up to one cycle a lap (`ClockExact`); sleeps whose duration is split correctly last as long as asked (`SleepsIfExact`); pages and identifiers of shared segments are exactly those held, each once (`ShmExact`) |
| `Memory_pages` | no overlap and exact accounting of the heap, also when the node array runs out; its trees are sets through every order of insertions and removals (`TreeIsSet`); tasks, identifiers, permissions and data of sessions agree after every half-done open (`SessionsExact`); pages of sessions and tables of page tables are owned exactly (`OwnedPages`) |
| `Client_calls` | two threads in the driver: its lists are exact until two calls meet in them, and only calls that no mutex keeps apart, of one file or with an open or a release, can meet (`FilesExact`); counts of the OTZ API on every error path (`ApiExact`), sample programs of both APIs leave nothing open and the counts of the GlobalPlatform API are exact (`ProgramsClose`), parameters intact (`InvokeExact`), the context of a send under way not freed by another file (`SendUndisturbed`) |
| `Services_parts` | references and blocks of the services, fields of operations, verdicts, device files, shell and interrupts; `EditsLine` is the refinement of `LineEditor`; big numbers computed exactly unless a carry or borrow meets words of all ones, which is said exactly (`BigNumExact`) |
| `OtzDriver_delivered` (violation) | two clients, asynchronous answers: a resumed SMC passes a freed or foreign structure |
| `SwMutex_strex` (violation) | a failed store of a release is taken for a success |
| `SwMutex_contended` (violation) | a contended acquire spins for ever |
| `SwBuddy_inpool` (violation) | memory beyond the pool is handed out |
| `SwTimer_intime` (violation) | an event is pushed back by a later start |

Bounds. Ids: dispatcher, shell and two sessions (enough for waiting on another task and for one id
to be leaked and reused); one session for the liveness of the scheduler. Worlds: two services and four calls, so
that a call comes in while another is pending and both are resumed. Driver: two clients,
each on its own device file, and as many structures, as more cannot be live; a second
client on the same file never gets past the session lookup, which looks at the first
session only. Semaphores: two units and three tasks, so that one waits while two hold
and several wait while one holds both; mutexes: three tasks. Heap: eight units and four
live blocks, so that splits run over all bins, merges go back up, and the node array
runs out; requests end once a node was lost (`MaxLost`). Timers: durations 0 and 3, a
clock period of 2 and a counter limited to 2: a zero, and a duration that needs the
counter more than once; lateness is told apart up to `MaxLate`; three events so that an
insertion in the middle of the queue happens. Clock: three laps of a counter of four, in a
word of sixteen. Pages: twelve, of which a session takes most, so that opens fail at each
stage and the memory fragments; two identifiers, so that they run out. Segments: seven pages and six identifiers, two
tasks and two names. Tables: sections of
two pages and four tables to a page, so that pages of tables are added and given back.
Services: two tasks, alike (`WorkerSymmetry`), whose buffers share one section; a request may
be abandoned with all its buffers, and no request is received after a count
was not allocated or a reference was robbed (`MaxRobbed`): requests in hand are followed to the end.
Driver lists: two threads, alike (`Symmetric`), two files, two sessions of one service, one
context and one block, so that any two calls can meet, of one file and of two, but not two
insertions of contexts or two of blocks; the proof is for any number of each. Sessions,
blocks and operations of the APIs: two of each where they can be confused, one otherwise. Invoked commands: three parameters of every type, in a buffer of eight words
that they may overflow. Line: a buffer of five, reached by typing at the end and inside.
Variables: two, whose values run and set one another. Big numbers: four words of three
bits, and values of two words, as the code's arrays are two words longer than their
values; a sample of all small values and those next to words of all ones. Trees: six
addresses, so that the heir of a removed node is two levels below it and has a child.
Sleeps: durations on both sides of the multiples of 2^19 and of a million and next to a
reading, and readings 5600 cycles to a lap apart: 0.1, 0.99999, 1.008 (which stays in the
nanoseconds) and 1.17963 seconds.

Deadlock is not checked where the system, or the model at a bound, may stop: a fault or
an abort ends `TaskSched` and `SwTimer`, `Followed` ends `OtzDriver`, tasks may wait for
ever on a deleted semaphore, programs and invocations end, and calls, blocks and laps are
bounded.

Fairness. Scheduler: its own code proceeds and a running task gives the core up
eventually, which the kernel requires of its tasks as it is cooperative; nothing obliges
clients or timers. Semaphore: the scheduler and the loop of a woken task proceed. Worlds:
the secure world executes its code, and a timer event that was started fires while the
secure world waits. `OtzDriver`: a thread inside the driver is scheduled by Linux,
interrupts are taken, and the secure world finishes what it left pending. Mutex: in
addition a holder that is given the core again and again releases. Timer: time passes,
interrupts are taken, a call goes on. The fairness of composite runs is stated in their
MC modules, for the part at work.

## 5. Proofs

Proved for every value of the constants under the named assumptions of the modules, which
say of sets that they are finite, of numbers that they are naturals, and of the constants
that must differ that they do. Every safety invariant below is the conclusion of an
inductive invariant defined beside it in its module, which TLC checked on the instance of
the run before it was proved.

*TaskSchedProofs* (`IdAssumption`: ids are positive numbers, dispatcher and shell are
two of them). `SchedulerInvariant` is `Spec => []SchedInv`; type correctness, ids never
shared, the ready list well formed, no task lost, and no blocked runner follow from it.
The properties are not inductive by themselves: that the chosen task is never the one
that is blocking depends on the dispatcher being queued, and ahead of whatever runs
instead of it. `SchedInv` therefore adds `DispatcherQueued` (it never blocks, and is on
the core or in the list before the runner), `CurrentFollowsCpu` and `ChosenIsAnother`.
Lemmas say what `schedule_task`, `schedule_task_next`, `Tail` and unlinking do to a
list without repetitions and to its order, and what waking, blocking and quiet steps
preserve; then there is one lemma for the dispatcher's steps, one for a service's, two
for the scheduler's.

*MemoryProofs*, heap (`BuddyAssumption`: sizes double from bin to bin).
`BlocksNeverOverlap` is `~Fiqs /\ Spec => []NoOverlap`: without frees from a FIQ no two
blocks overlap, for any number of bins. The invariant adds that the FIQ context
is idle (`Alone`) and that the block a call has in its hands lies apart from every
block in the trees (`HeldApart`); a split then halves it, and a merge joins two
neighbours taken from the trees. The assumption is needed: see section 6. `HeapAccounts` is
`~Fiqs /\ Spec => []HeapSizeExact`: `curr_heap_size` and the cardinality of the set of all
memory handed out (`Handed`) add up to the pool. A block that is given adds its own memory,
because it lies apart from all others, and one that comes back takes away its own.

*MemoryProofs*, segments (`MemoryAssumption`, `ShmAssumption`: numbers of pages,
identifiers and attachments are naturals, segments are not empty). `SegmentsExact` is
`ShmSpec => []ShmExact`, for any number of pages, identifiers, tasks and names. `ShmInv` adds what
makes an allocation safe and an attachment meaningful: what segments and the stack hold is
marked as taken in the bitmap, and is not the kernel's (`PagesTaken`); a task that has
attached a segment still finds it, with the pages it saw, by its number (`AttachedLive`);
the table maps the stack and nothing else (`StackMapped`). The attached segment is the first
of its number in the list, so lemmas say how the first of a number changes when a segment is
appended, unlinked, or changed in place. As in the property, pages are followed while what
the code does is `Defined`, and identifiers until one of the ways out in section 6 (`odd`).

*MemoryProofs*, sessions (`SessionAssumption`: at least one identifier; the services have
entry points). `SessionTablesExact` is `SessionSpec => []SessionsExact`: after every open and close, through each
stage of `create_task` that may fail, a task has one block of data and one permission, and an
identifier is taken if a task has it or a refused open has kept it. `SessionInv`
adds that no two tasks share their data and that kept identifiers are nobody's
(`SessionsApart`). That an open only hangs with no identifier left is an argument about
cardinalities: if all are taken and none is kept, there are more tasks than identifiers.

*KernelProofs*, locks (`MutexAssumption`, `SemAssumption`: finitely many tasks, the
dispatcher not among them, a semaphore of at least one unit). `MutexExcludes` is
`MutexSpec => []MutexSafe`; `MutexInv` adds that an owner holds the mutex and that a task
inside `cpu_acquire_mutex` is the one on the core, so that no second one is between its
test and its store. `SemaphoreKeepsUnits` is `SemSpec => []SemaphoreSafe`, the four
parts of which support one another: a wake-up is not lost because the queue holds exactly
the waiters, and units are conserved because none is taken without a unit. `SemInv` adds
that the dispatcher is somewhere, so the core always goes to somebody, and that nobody
waits to release while tasks are disciplined. That the units held are counted right is an
argument about the cardinality of a set of pairs (`Held`), of which an acquire adds one and
a release removes one.

*KernelProofs*, time (`ClockAssumption`, `TimerAssumption`). `ClockCountsCycles` is
`ClockSpec => []ClockExact`, for every length of a lap; `ClockInv` says for each statement
of `read_timestamp` how far timestamp and count of cycles have come, and on which side of
the counter the values read lie. `TimerQueueSafe` is `TimerSpec => []TimerSafe`; its invariant is
`TimerInv`: the queue is exact; the event a call has in its hands is in the state its next
statement takes it to be in; `next_timelen` is set only with the timer on, except
just before `program_tick_for_event` turns it on; and with events queued the timer is off
only between the insertion and the programming of one call.

*KernelProofs*, sleeps (`TimeMathAssumption`: the clock starts within a second, readings are
at most a lap apart). `ReadingsAddUp` says that from the start of such a sleep on each reading
adds exactly the time of the cycles that passed, for every number of cycles: the divisions by
shifts only ever round down (`ShiftedDown`), so what is left over is not negative, stays in `nsec`, and no borrow falls into the seconds. `SleepsEndInTime` is
`CloseReadings /\ TimeMathSpec => []SleepsIfExact`. `CloseReadings`, that no single reading
leaves a second in `nsec` (true of all that are less than 55556 cycles apart), is needed: otherwise
`nsec` grows beyond a second, and the test for an event that is due takes a positive
difference of `sec` for time left, whatever `nsec` takes away from it.
TLC checks the property beyond this condition too, on readings of a second and more.

*TaskSchedProofs*, worlds (`WorldAssumption`). `LinuxAnswered` is `WorldSpec => AnswersMatch`: Linux
takes from the one slot the result of the call it is inside, for any number of services and
calls. `WorldInv` says why one slot is enough: a call is in one place at a time
(`CallInOnePlace`), in `params_stack`, with the one service that is busy, or in the slot,
and while Linux is interrupted rather than in a call it is in none; and the core always
goes on (`CoreHeld`), as the dispatcher never leaves the ready list except for the core, and
a service is linked only while it is busy. A second answer before the dispatcher runs, or a
service left linked after it answered, is what the invariant excludes.

*OtzDriverProofs* (`DriverAssumption`). `DriverInv` holds the four properties together:
whose a structure is depends on who may be inside the ioctl, who may be inside depends on
how waits end, and that on what notifications are outstanding. It says for each program
counter which mutexes the thread owns and which structure is its own, that each live
structure belongs to one call unless calls have mixed, and that a set wait flag comes with
an answer. `CommandsDelivered`, `CommandsFreed`, `IoctlsExclude` and `WakeupsTrue` follow.

*ShellLineProofs* (`ShellAssumption`: a buffer of more than two characters).
`TerminalShowsLine` is `LineSpec => []ScreenShowsLine`; `LineInv` adds the bounds of `i` and
`max_char`, and that what lies before `max_char` in the buffer is printable, which is what a
backspace inside the line and a redrawing rely on. `ShellImplementsEditor` is `LineSpec => EditsLine`: the initial
state maps to an initial state of `LineEditor`, and each key maps to the editor's key of
that name or to a stutter (a full buffer, a cursor at its end). It is proved step by step from
`LineInv`, with lemmas on the mapped text after an insertion, a deletion and an append.

*ShellLineProofs*, commands (`ShellCmdAssumption`: the lines in the values of variables are
commands or words, and a variable that such a line sets has a value of the same kind).
`ShellCallsBounded` is `ShellCmdSpec => []ShellBounded`, for every set of variables, also
those whose values run and set themselves and one another. `ShellCmdInv` adds who has called
whom (`Nested`): the innermost call of `execute_env` bars variables for as long as it runs
one, so that the third call is `execute_command` for a line of a value, and the fourth a
command and no variable. The blocks are counted over these four calls.

*ClientProofs* (`FilesAssumption`, `ApiAssumption`: finitely many sessions, operations and
blocks). `DriverListsExact` is `OtzFilesSpec => []FilesExact` and `SendsUndisturbed` is
`OtzFilesSpec => SendUndisturbed`, both from `FilesInvariant`, `OtzFilesSpec => []FilesInv`,
for every number of threads. `FilesInv` is `RacesKnown`, and `ListsInv` until two calls have
met. Which calls can meet is not an invariant alone: it rests on whose file a call is in
(`FilesHeld`: an ioctl's file stays open, as the kernel releases it only when nobody is inside), on
what the mutexes keep apart (`CallsExclude`), and on a call finding linked what it keeps:
a session is linked in one place and stays there while a call keeps it (`SessionsLinked`), a
context is of one session (`ContextsOwned`), a page block of one file, one session or one
`mmap` under way (`BlocksOwned`). A step that would take from another call what it keeps is
the one that sets `raced`: that every other step leaves `ListsInv` true is the bulk of the
proof, one lemma for each stage of each call. A release walks the lists of its own file, so
that it frees no context of another is what the uniqueness of these owners says.
`ApiCountsExact` is `OtzApiSpec => []ApiExact`: counts
are cardinalities of the sets of operations and blocks that point to a session. `ApiInv` adds
that the client's structures and the driver agree on which sessions are open, and what the
state of an operation says of its session (`OperationsAttached`): one that will open a
session is alone with it, which is why a failed open disturbs nothing. Contexts and the
count of the device are followed until one of the two uses named in `odd`, which the code does not refuse.
`VerdictsSound` is `CryptoVerifySpec => []VerdictsTrue`; `VerifyInv` adds that a test that
passed left its own answer in the buffer.

*ServicesProofs* (`ServicesAssumption`: finitely many services). `ReferencesCounted` is
`ServicesSpec => []ServicesExact`: the references of a section equal its users and the
mappings abandoned on the ways out that section 6 lists, in every interleaving of any
number of services; a section `robbed` of a reference by a secure one has at most as many. `ServicesInv` adds how many of its buffers a service has mapped at each
place of `process_otzapi` and that nobody holds a block outside a handler; the counts are
cardinalities of sets of (service, buffer) pairs. `WorldsInterruptedApart` is
`GicSpec => []InterruptsApart`; `GicInv` adds the groups and enables each stage of the boot
leaves, and that exactly the acknowledged interrupt is active. `OpensLinked` is
`DevSpec => []DevicesExact` (`DeviceAssumption`: finitely many tasks), for every number of
descriptors. `DevInv` adds that a task has links only to devices it may use, so that the
write and the close of `sw_printf` are not refused, and that only live tasks print. Opens
are compared with the cardinality of the set of places (task, position) at which the lists
hold a device: an open adds a place, a destroyed task takes all of its own along, and a
close in the middle of a list moves the places behind it, which is a bijection with the
places before but one.

Only model-checked:

- liveness (`CoreShared`, `ReleaseWakes`, `CallAnswered`, `PendingEnds`, `EventFires`), as fairness is beyond the prover;
- what recursion over data computes: `BigNumExact` is about carries through arrays, and
  `TreeIsSet` about trees, of any size;
- what is stated over `RECURSIVE` operators: `TablesExact` in `OwnedPages`, `CipherAsked` and
  `FieldsKept` (whose algorithms and programs are all in the run), `InvokeExact` (lists of parameters);
- `SessionPagesExact` in `OwnedPages`: which pages the code frees that lie past the
  region depends on how the bitmaps are rounded to words;
- `ProgramsClose`: the programs are fixed and finite, and TLC runs all of their ways.

## 6. Behaviour outside the stated conditions

The conditions in the properties are not decoration: the models show what happens
without them.

- *Waiting for one task twice* (`K/core/task.c:1128`): a task has one `wait_head` node;
  the second waiter links it again and `destroy_task` never gets to the end of the
  list. `TaskSched` stops there with the fault `"wait list hangs"`.
- *No task id free* (`K/core/global.c:586`): `get_next_asid_val` wraps one entry too
  late, so it hands out an id beyond the pool or scans for ever. Ids are leaked by
  refused creations (`task.c:141`).
- *Interrupted wait* (`otz_client_main.c:471`): the call leaves without taking the mutex
  back and the ioctl unlocks it all the same, so that a third client enters beside the
  holder; and an abandoned operation still posts its notification, which may replace
  the one of another client in the only slot.
- *A release beyond the count* (`K/lib/kernel/sw_semaphores.c:253`) waits in the queue
  of the acquirers for a condition that may never hold, and swallows their wake-ups.
- *Deleting a semaphore in use*: the count is unsigned, and the test for a negative one
  (`sw_semaphores.c:276`) never refuses.
- *Initialising a mutex that exists* (`sw_semaphores.c:53`) returns it as it is, locked
  or not, where the header says it is reset.
- *A free from the timer FIQ* (`wake_up_from_sleep`, `K/lib/kernel/sw_timer_functions.c:54`)
  between the choice of a block and its unlinking makes two blocks overlap: with `Fiqs`
  true `NoOverlap` fails.
- *Stopping a timer event while it fires* (`K/core/sw_timer.c:587`): the state is tested
  before the lock is taken, and the lock is given up in the middle; the FIQ may have
  unlinked the event, and its poisoned links are followed (`pc = "aborted"`).

Facts met while writing the other models; each module says in its comments which of them it
follows, and which end the behaviour or set a history variable.

*Worlds* (`WorldSwitch`). A resume with the id of a task that does not exist any more is
answered by nobody, so Linux stays in the SMC. `secure_interrupt_set` and
`g_ns_notify_pending` are tested and never set, and the IPI that would tell Linux has no
live caller. `notify_ns` does not unmap the command it wrote.

*Sessions* (`SwSessions`). A failed `create_task` frees the data of the entry point, and so
does its caller. A service that was not built is reported as
invalid and takes nothing (`sa_destroy_entry_point` sets the errno of the dispatcher task).
Refused opens leak ids. When memory is fragmented a user stack may be
placed past the end of the pages.

*Segments* (`SwShm`). The test at `sw_shared_memory.c:179` is inverted, so that destroying
leaks virtual pages; running out of identifiers frees the last listed segment; the
destroyer's permission is not tested; creators always attach at the first page of their
window; and `num_vir_pag_free` drifts.

*Services* (`Services`). A session mismatch leaves all four buffers mapped; a reference of
the wrong type or too long, and the IPI command, leave the reference mapped. A secure
reference maps nothing, but is given the type of a memory reference (`task_control.c:107`):
the handlers, none of which looks at `mapped`, unmap it all the same, and so release a
reference of another user of that section (`robbed`). A response
without a request uses an unset length. When the API fails, the crypto service answers
`SMC_SUCCESS` with its input as the output.

*Operations* (`TeeCrypto`). A failed allocation of the context, a second key, and CTS leak a
block; CTS, CCM and GCM free an IV that was never set, CMAC, OAEP and DH a context; RSA
and DSA keys are freed twice, and a failing `fillRSAKeys` leaves a dangling one. The
programs free an unset handle when their allocation fails (`crypto_tests.c:51`, `:93`, `:123`,
`:174`): whatever the four pointers found there are, `sw_free` takes one from
`num_blocks_alloc` for each that is not NULL, so the heap's count is off by up to four
(`FieldsKept` excepts this step, and no client is started after it). That such a pointer is
by chance a block in use is left out. `CryptoVerify`: a failure
leaves the last output and its length in place, so two in a row can print "passed".

*Driver lists* (`OtzFiles`). Nothing protects them as a whole: each ioctl has a mutex of
its own kind (`otz_client_main.c:2621-2755`), the release of an operation, `open`, `release` and
`mmap` have none. So closing a session meets the freeing or moving of its blocks, a lookup,
or a send that holds it; releasing an operation frees the context of a send of the same
client; two opens read `device_file_cnt` before and after a `kmalloc` (`:2775-2794`) and give
two files one id; the emptiness test of a release races with an open for the notification
memory; and an interrupted wait ends with the unlock of a mutex that is not the caller's.
`raced` names each pair and the model stops there. Taken for harmless is an insertion beside a
walker only: the links of the new element are written first.

*Clients*. `OtzApi` sends an invocation whose encoder had run out of space. The cleanup of
`otz_tee_app.c` releases blocks that were never initialised, which
`include/otz_tee_client_api.h:699` excludes.

*Shell and devices*. The comment of `process_input` (`shell_process_task.c:128-130`, and
`include/shell_process_task.h:92-94`) says that it "stores upto 255 the characters untill
newline" and that "characters are cleared only if '\n' is received". The code clears them
with the 255th character that comes without a newline, and prints "Can't process the command": at most
254 are stored. `LineEditor`, and so `EditsLine`, says what the code does. Setting a variable that exists appends a second one, and lookup finds
the first (`ShellCmd`). An open whose link cannot be allocated leaves the device open, and
the permission error is overwritten by `ENOENT` (`SwDevices`, `sw_syscall_imp.c:229`).

*Interrupts* (`Gic`). The shell unmasks the key interrupt before it registers a handler
(`shell_process_task.c:64`): a key pressed earlier raises FIQs for ever. The tick's status is
cleared after its handler, so an expiry in between is lost. The comment gives software
interrupts 7 to 15 to the secure world; the code gives it 8 to 15.

*Clock* (`ClockCount`). A reading after the wrap and before its interrupt (`late`) converts a
negative difference as an unsigned one: the timestamp jumps by 2^32 microseconds, while the
count of cycles stays right. One cycle is lost a lap. An overflow inside a reading (`mixed`)
counts cycles twice or not at all.

*Times* (`TimeMath`). Of the durations from half a second on `task_usleep` splits only those
right whose rounded seconds are their whole seconds: the nanoseconds of the others are
negative, or above a second, and 64-bit sums and differences carry them into the seconds, so
that a sleep of 600000 microseconds lasts 1600000 (`K/lib/kernel/sw_timer_functions.c:104`,
where the comment at `:93` says it "sleeps for given number of micro-seconds"). `clockcycles_to_timeval` may leave more
than a second in the nanoseconds (the 1008000 microseconds of 56000 cycles
are no second and 1008000000 nanoseconds);
`add_time` takes out one, and the comparison of times still comes out right.

*Big numbers* (`BigNum`). A carry is lost when both words are all ones and take a carry, a
borrow when the subtrahend's word is all ones and takes one (`otz_tee_arith_api.c:247`, `:304`).
`TEE_BigIntCmp` of numbers whose first words differ compares neither. `TEE_BigIntDivide`
shifts a divisor that did not fit again instead of back (`:518`), adds its quotient to what
`dest_q` held, and does not end for a divisor of 0.

## 7. What is not modelled

The components with status `not_modelled` in `PROJECT.json`, each with its reason. Inside the
modelled ones:

- kernel: the hypervisor mode with several guests is not built for this board; the registers
  the monitor saves; lookup of mutexes and semaphores by name is taken to find the right one;
  memory that is read after it was freed is modelled as a fault, except where nothing can
  have reused it (`sw_sleep` reads the task id from a block the timer has just freed);
  `get_contiguous_block` of `sw_buddy.c`, which is not reached; `check_kernel_integrity`; the IPC device, which the repository does not contain, and the
  IPC functions, which are compiled out;
- driver: what follows once two calls have met in a list; the walks of the lists in the
  handler of the notification interrupt (`ipi_secure_notify`); a session id that the secure
  world hands out again between the SMC of a close and the unlinking; contexts that a
  failed copy leaves allocated and in no list;
- APIs: `TEE_ResetOperation`, `TEE_SetOperationKey2`, `TEE_CopyOperation` and
  `TEE_DeriveKey`, which no program of the repository calls; the memory references of
  `otz_api.c`; the unused `otz_encode_data` and `otz_release_data`; what the cryptographic
  library computes;
- big numbers: negation, the right shift, octet strings, `TEE_BigIntConvertToS32`, the
  reductions of products, and the functions the file leaves unimplemented.
