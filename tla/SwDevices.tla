----------------------------- MODULE SwDevices -----------------------------
(***************************************************************************)
(* Device files (arch/arm/armv7/sw_syscall_imp.c): the list of registered  *)
(* drivers (core/sw_modinit.c, drivers/common), the lists of descriptors   *)
(* of the tasks, and sw_printf (lib/user/sw_printf.c), which opens, writes *)
(* and closes the UART in three system calls.                              *)
(*                                                                         *)
(* A descriptor is the identifier of its device.  A system call runs to    *)
(* its end; a task may be destroyed between two of them.                   *)
(***************************************************************************)
EXTENDS Integers, Sequences, FiniteSets, SequencesExt

CONSTANTS
    DevTask, \* tasks
    Granted, \* for each task the devices it has permission for
    MaxFd    \* bound: descriptors of a task

ASSUME DeviceAssumption == MaxFd \in Nat /\ IsFiniteSet(DevTask)

VARIABLES
    dev_list,      \* global_val.sw_dev_head, in the order of registration
    file_dev_list, \* for each live task its list of fd_link, by device
    opens,         \* for each device: opened more often than closed
    fdblocks,      \* blocks of the common heap that hold a link
    printing,      \* for each task: where in sw_printf it is
    unlinked       \* history: for each device, opens no link was allocated for

devvars == <<dev_list, file_dev_list, opens, fdblocks, printing, unlinked>>

Device == {"uart", "fb"}

\* The operations each driver has, and those that may report an error.
uart_dev_fops == [has |-> {"open", "close", "read", "write", "ioctl"}, fails |-> {"read", "ioctl"}]
fb_dev_fops == [has |-> {"open", "close", "ioctl"}, fails |-> {"open", "close", "ioctl"}]
Fops == [uart |-> uart_dev_fops, fb |-> fb_dev_fops]

\* modules_init: every driver registers itself, at the tail.
DevInit ==
    /\ dev_list \in {<<"uart", "fb">>, <<"fb", "uart">>, <<"uart">>}
    /\ file_dev_list = [t \in DevTask |-> <<>>]
    /\ opens = [d \in Device |-> 0] /\ unlinked = [d \in Device |-> 0]
    /\ fdblocks = 0 /\ printing = [t \in DevTask |-> "no"]

Alive == DOMAIN file_dev_list

find_device(d) == d \in ToSet(dev_list)

\* The first link of the running task with this descriptor, 0 without one.
find_fd(t, d) == SelectInSeq(file_dev_list[t], LAMBDA x : x = d)

\* What the operation may answer, TRUE when it did what was asked.
Answers(d, op) ==
    IF op \notin Fops[d].has THEN {FALSE}
    ELSE IF op = "open" \/ op = "close" THEN {TRUE} \cup (IF op \in Fops[d].fails THEN {FALSE} ELSE {})
    ELSE {op \notin Fops[d].fails}

OpenRefused(t, d) == ~ find_device(d) \/ d \notin Granted[t]

\* SW_SYSCALL_OPEN: the descriptor is returned, or an error and the device is
\* open all the same when the link is not allocated.
sys_open(t, d, ok) ==
    \/ /\ OpenRefused(t, d) \/ FALSE \in Answers(d, "open")
       /\ ok = FALSE /\ UNCHANGED <<file_dev_list, opens, fdblocks, unlinked>>
    \/ /\ ~ OpenRefused(t, d) /\ Len(file_dev_list[t]) < MaxFd
       /\ opens' = [opens EXCEPT ![d] = @ + 1]
       /\ \/ /\ ok = TRUE
             /\ file_dev_list' = [file_dev_list EXCEPT ![t] = Append(@, d)]
             /\ fdblocks' = fdblocks + 1
             /\ UNCHANGED unlinked
          \/ /\ ok = FALSE /\ unlinked[d] = 0
             /\ unlinked' = [unlinked EXCEPT ![d] = @ + 1]
             /\ UNCHANGED <<file_dev_list, fdblocks>>

\* Defect: the link stays in the list.
sys_close_linked(t, d) ==
    /\ find_fd(t, d) # 0
    /\ opens' = [opens EXCEPT ![d] = @ - 1] /\ fdblocks' = fdblocks - 1
    /\ UNCHANGED <<file_dev_list, unlinked>>

\* SW_SYSCALL_CLOSE: the link goes unless the driver reports an error.
sys_close(t, d) ==
    \/ /\ find_fd(t, d) # 0 /\ d \in Granted[t]
       /\ opens' = [opens EXCEPT ![d] = @ - 1]
       /\ file_dev_list' = [file_dev_list EXCEPT ![t] = RemoveAt(@, find_fd(t, d))]
       /\ fdblocks' = fdblocks - 1
       /\ UNCHANGED unlinked
    \/ /\ find_fd(t, d) = 0 \/ d \notin Granted[t] \/ FALSE \in Answers(d, "close")
       /\ UNCHANGED <<file_dev_list, opens, fdblocks, unlinked>>

\* SW_SYSCALL_WRITE, READ and IOCTL change nothing here: what they answer.
sys_transfer(t, d, op) ==
    IF find_fd(t, d) = 0 THEN {FALSE} ELSE IF d \notin Granted[t] THEN {FALSE} ELSE Answers(d, op)

Counted(l) == [d \in Device |-> Cardinality({k \in DOMAIN l : l[k] = d})]

\* destroy_task with close_device_file: every descriptor is closed and its
\* link freed, whatever the driver answers.
destroy_task_devices(t) ==
    /\ file_dev_list' = [x \in Alive \ {t} |-> file_dev_list[x]]
    /\ opens' = [d \in Device |-> opens[d] - Counted(file_dev_list[t])[d]]
    /\ fdblocks' = fdblocks - Len(file_dev_list[t])
    /\ UNCHANGED unlinked

----------------------------------------------------------------------------
Open(t, d) == printing[t] = "no" /\ (\E ok \in BOOLEAN : sys_open(t, d, ok)) /\ UNCHANGED printing
Close(t, d) == printing[t] = "no" /\ sys_close(t, d) /\ UNCHANGED printing

\* sw_printf.
PrintfOpen(t) ==
    /\ printing[t] = "no"
    /\ \E ok \in BOOLEAN :
          /\ sys_open(t, "uart", ok)
          /\ printing' = [printing EXCEPT ![t] = IF ok THEN "write" ELSE "no"]

PrintfWrite(t) ==
    /\ printing[t] = "write"
    /\ \E ok \in sys_transfer(t, "uart", "write") :
          printing' = [printing EXCEPT ![t] = IF ok THEN "close" ELSE "unwritten"]
    /\ UNCHANGED <<file_dev_list, opens, fdblocks, unlinked>>

PrintfClose(t) ==
    /\ printing[t] \in {"close", "unwritten"}
    /\ sys_close(t, "uart")
    /\ printing' = [printing EXCEPT ![t] = "no"]

\* Between two system calls, its own or another's.
Destroy(t) ==
    /\ destroy_task_devices(t)
    /\ printing' = [printing EXCEPT ![t] = "no"]

\* A task begins with an empty list.
Create(t) ==
    /\ t \notin Alive
    /\ file_dev_list' = [x \in Alive \cup {t} |-> IF x = t THEN <<>> ELSE file_dev_list[x]]
    /\ UNCHANGED <<opens, fdblocks, printing, unlinked>>

DevNext ==
    /\ \/ \E t \in Alive : \/ PrintfOpen(t) \/ PrintfWrite(t) \/ PrintfClose(t) \/ Destroy(t)
                           \/ \E d \in Device : Open(t, d) \/ Close(t, d)
       \/ \E t \in DevTask : Create(t)
    /\ UNCHANGED dev_list

DevSpec == DevInit /\ [][DevNext]_devvars

----------------------------------------------------------------------------
Linked(d) == {x \in Alive \X (1 .. MaxFd) : x[2] <= Len(file_dev_list[x[1]]) /\ file_dev_list[x[1]][x[2]] = d}

\* Every open of a device that has not been closed has its link in the list of
\* a live task, except those whose link could not be allocated; every link has
\* its block; and a task that prints has its UART open until it is done, though
\* one descriptor stands for all its opens and a close takes the first link.
DevicesExact ==
    /\ \A d \in Device : opens[d] = Cardinality(Linked(d)) + unlinked[d]
    /\ fdblocks = Cardinality(Linked("uart")) + Cardinality(Linked("fb"))
    /\ \A t \in Alive : printing[t] # "no" => find_fd(t, "uart") # 0 /\ printing[t] # "unwritten"

\* What makes it inductive: a task has links only to devices it has permission
\* for, so that its write and close are not refused, and prints only while it
\* lives.
DevTypeOK ==
    /\ Alive \subseteq DevTask /\ file_dev_list \in [Alive -> Seq(Device)]
    /\ opens \in [Device -> Int] /\ unlinked \in [Device -> Int] /\ fdblocks \in Int
    /\ printing \in [DevTask -> {"no", "write", "close", "unwritten"}]

LinksGranted ==
    /\ \A t \in Alive : /\ Len(file_dev_list[t]) <= MaxFd
                        /\ \A k \in DOMAIN file_dev_list[t] : file_dev_list[t][k] \in Granted[t]
    /\ \A t \in DevTask \ Alive : printing[t] = "no"

DevInv == DevTypeOK /\ LinksGranted /\ DevicesExact
=============================================================================
