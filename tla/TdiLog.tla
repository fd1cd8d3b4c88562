------------------------------- MODULE TdiLog -------------------------------
(***************************************************************************)
(* The log queue of tdi_fw (filter.c), and how a process that opens the    *)
(* transport for the first time gets its name through it: tdi_create logs  *)
(* a request, the user's program reads it and answers, and pid_pname.c     *)
(* wakes the thread (disp_obj.c, pid_pname.c).                             *)
(*                                                                         *)
(* An entry of the queue owns two blocks, the process name and the SID;    *)
(* both go the same way and are one here.  Other handlers log too, one at  *)
(* a time; what they write is an entry without a process to name.  There   *)
(* is memory, an event can be created, and a buffer holds any single       *)
(* entry.  The program is external: it reads until it gets less than fits, *)
(* then waits, and answers what it has read, or closes its handle.         *)
(*                                                                         *)
(* The process list finds the first entry of a process.  find_ple lets go  *)
(* of the lock when there is none, and add_ple takes it again, so that two *)
(* may add an entry for one process: the second is behind the first until  *)
(* that is removed.  What an event that is no longer there overwrites when *)
(* it is set is left out.                                                  *)
(***************************************************************************)
EXTENDS Naturals, Sequences, FiniteSets

CONSTANTS
    Threads,                \* threads that open the transport
    Pids,                   \* processes, there before the driver and again later
    NoPid,
    REQUEST_QUEUE_SIZE,     \* 1024 in the driver
    MaxLogs,                \* bound: requests logged
    MaxAsked,               \* bound: requests that ask for the name of a process
    MaxRead                 \* entries that fit into the program's buffer

TdiLogAssumption ==
    /\ NoPid \notin Pids \cup Threads
    /\ REQUEST_QUEUE_SIZE \in Nat \ {0, 1}
    /\ {MaxLogs, MaxAsked, MaxRead} \subseteq Nat \ {0}

VARIABLES
    data, head, tail,       \* g_queue; a block of 0 is NULL
    event,                  \* g_queue.event: NULL, or whether it is set
    g_got_log,
    unsignalled,            \* is another handler between unlock and KeSetEvent?
    pid,                    \* the process of a thread that is in tdi_create
    alive,                  \* which processes there are
    entered,                 \* has g_plist an entry of the process?
    pname, pname_event,     \* the first: is the name known, whose event is there
    behind,                 \* the entries of the process behind the first
    doubled,                \* history: was there one, since the list was without?
    at, woken,              \* the threads: where in tdi_create, their events
    program, answers,       \* the user's program, and what it has to answer
    naming,                 \* the process it found no entry of, in pid_pname_set
    freed,                  \* has filter_free run?
    heap, twice,            \* blocks allocated, and freed more than once
    logged, dropped, told,  \* history: logged, dropped, and reported dropped
    overflowed,             \* history: did the last log_request drop an entry?
    asked                   \* history: requests for the name of a process

queue   == <<data, head, tail, heap, twice, logged, dropped, overflowed>>
names   == <<alive, entered, pname, pname_event, behind, doubled>>
threads == <<pid, at, woken, asked>>
user    == <<program, answers, naming, g_got_log>>
logVars == <<queue, event, unsignalled, names, threads, user, freed, told>>

Slots == 0 .. REQUEST_QUEUE_SIZE - 1
After(i, n) == (i + n) % REQUEST_QUEUE_SIZE
Count == (head + REQUEST_QUEUE_SIZE - tail) % REQUEST_QUEUE_SIZE
Queued == {After(tail, i) : i \in 0 .. Count - 1}

\* The log_skipped of some entries, added up: a pair for each one skipped.
Skipped(slots) == Cardinality(UNION {{i} \X (1 .. data[i].skipped) : i \in slots})

-----------------------------------------------------------------------------
(* log_request under the queue's lock.  What is dropped is freed, but the  *)
(* pointer stays in its slot.                                              *)

\* Mutant: what a dropped entry said of earlier ones is lost with it.
log_request_Restarts(p) ==
    LET next_head == After(head, 1)
        full == next_head = tail
    IN  /\ logged < MaxLogs
        /\ data' = [data EXCEPT ![head] =
                      [pid |-> p, skipped |-> IF full THEN 1 ELSE 0, block |-> logged + 1]]
        /\ heap' = (heap \ (IF full THEN {data[tail].block} ELSE {})) \cup {logged + 1}
        /\ twice' = twice \cup (IF full THEN {data[tail].block} \ heap ELSE {})
        /\ tail' = IF full THEN After(tail, 1) ELSE tail
        /\ head' = next_head
        /\ logged' = logged + 1
        /\ dropped' = IF full THEN dropped + 1 ELSE dropped
        /\ overflowed' = full

log_request(p) ==
    LET next_head == After(head, 1)
        full == next_head = tail
    IN  /\ logged < MaxLogs
        /\ data' = [data EXCEPT ![head] =
                      [pid |-> p, skipped |-> IF full THEN data[tail].skipped + 1 ELSE 0,
                       block |-> logged + 1]]
        /\ heap' = (heap \ (IF full THEN {data[tail].block} ELSE {})) \cup {logged + 1}
        /\ twice' = twice \cup (IF full THEN {data[tail].block} \ heap ELSE {})
        /\ tail' = IF full THEN After(tail, 1) ELSE tail
        /\ head' = next_head
        /\ logged' = logged + 1
        /\ dropped' = IF full THEN dropped + 1 ELSE dropped
        /\ overflowed' = full

\* The event is set after the lock was released.
KeSetEvent == event' = IF event = "NULL" THEN "NULL" ELSE "set"

\* Another handler, or del_tcp_conn, logs.
Log ==
    /\ ~freed /\ ~unsignalled
    /\ log_request(NoPid)
    /\ unsignalled' = TRUE
    /\ UNCHANGED <<event, names, threads, user, freed, told>>

Signal ==
    /\ unsignalled
    /\ unsignalled' = FALSE
    /\ KeSetEvent
    /\ UNCHANGED <<queue, names, threads, user, freed, told>>

-----------------------------------------------------------------------------
(* The list of processes.                                                  *)

\* add_ple, and what its caller writes into the entry before it lets go of
\* the lock.  It does not look whether there is an entry of the process.
add_ple(p, name, t) ==
    IF entered[p]
    THEN /\ behind' = [behind EXCEPT ![p] = Append(@, [pname |-> name, event |-> t])]
         /\ doubled' = [doubled EXCEPT ![p] = TRUE]
         /\ UNCHANGED <<entered, pname, pname_event>>
    ELSE /\ entered' = [entered EXCEPT ![p] = TRUE]
         /\ pname' = [pname EXCEPT ![p] = name]
         /\ pname_event' = [pname_event EXCEPT ![p] = t]
         /\ UNCHANGED <<behind, doubled>>

\* ProcessNotifyProc
ProcessCreated(p) ==
    /\ ~freed /\ ~alive[p]
    /\ alive' = [alive EXCEPT ![p] = TRUE]
    /\ add_ple(p, FALSE, NoPid)
    /\ UNCHANGED <<queue, event, unsignalled, threads, user, freed, told>>

\* The first entry is removed, and the next one is found from now on.
ProcessEnds(p) ==
    LET last == behind[p] = <<>> IN
    /\ ~freed /\ alive[p]
    /\ \A t \in Threads : pid[t] # p
    /\ alive' = [alive EXCEPT ![p] = FALSE]
    /\ entered' = [entered EXCEPT ![p] = ~last]
    /\ pname' = [pname EXCEPT ![p] = IF last THEN FALSE ELSE Head(behind[p]).pname]
    /\ pname_event' = [pname_event EXCEPT ![p] = IF last THEN NoPid ELSE Head(behind[p]).event]
    /\ behind' = [behind EXCEPT ![p] = IF last THEN <<>> ELSE Tail(@)]
    /\ doubled' = [doubled EXCEPT ![p] = ~last]
    /\ UNCHANGED <<queue, event, unsignalled, threads, user, freed, told>>

-----------------------------------------------------------------------------
(* tdi_create: the name of the process.                                    *)
Goto(t, l) == at' = [at EXCEPT ![t] = l]

\* pid_pname_resolve, and the event on the stack.
CreateResolves(t, p) ==
    /\ ~freed /\ alive[p]
    /\ at[t] = "idle"
    /\ ~pname[p] /\ asked[p] < MaxAsked
    /\ Goto(t, "set")
    /\ pid' = [pid EXCEPT ![t] = p]
    /\ woken' = [woken EXCEPT ![t] = FALSE]
    /\ asked' = [asked EXCEPT ![p] = @ + 1]
    /\ UNCHANGED <<queue, event, unsignalled, names, user, freed, told>>

\* pid_pname_set_event: the event goes into the entry, or find_ple lets go of
\* the lock and one is added.
CreateSetsEvent(t) ==
    /\ at[t] = "set"
    /\ IF entered[pid[t]]
       THEN /\ Goto(t, "log")
            /\ pname_event' = [pname_event EXCEPT ![pid[t]] = t]
       ELSE /\ Goto(t, "add")
            /\ UNCHANGED pname_event
    /\ UNCHANGED <<queue, event, unsignalled, alive, entered, pname, behind, doubled, pid,
                   woken, asked, user, freed, told>>

CreateAddsEntry(t) ==
    /\ at[t] = "add"
    /\ Goto(t, "log")
    /\ add_ple(pid[t], FALSE, t)
    /\ UNCHANGED <<queue, event, unsignalled, alive, pid, woken, asked, user, freed, told>>

\* Without a program default_chain_only decides, at once.
CreateLogs(t) ==
    /\ at[t] = "log"
    /\ IF g_got_log THEN log_request(pid[t]) /\ Goto(t, "signal")
                    ELSE UNCHANGED queue /\ Goto(t, "reset")
    /\ UNCHANGED <<event, unsignalled, names, pid, woken, asked, user, freed, told>>

CreateSignals(t) ==
    /\ at[t] = "signal"
    /\ Goto(t, "wait")
    /\ KeSetEvent
    /\ UNCHANGED <<queue, unsignalled, names, pid, woken, asked, user, freed, told>>

\* The thread was woken (the request is allowed), or waited for five seconds
\* (it is denied).
CreateWaits(t) ==
    /\ at[t] = "wait"
    /\ Goto(t, "reset")
    /\ UNCHANGED <<queue, event, unsignalled, names, pid, woken, asked, user, freed, told>>

\* The list has an entry as long as a thread of the process is inside.
CreateResets(t) ==
    /\ at[t] = "reset"
    /\ Goto(t, "idle")
    /\ pname_event' = [pname_event EXCEPT ![pid[t]] = NoPid]
    /\ pid' = [pid EXCEPT ![t] = NoPid]
    /\ woken' = [woken EXCEPT ![t] = FALSE]
    /\ UNCHANGED <<queue, event, unsignalled, alive, entered, pname, behind, doubled, asked,
                   user, freed, told>>

-----------------------------------------------------------------------------
(* The control device: IRP_MJ_CREATE, IRP_MJ_CLOSE and the requests.  The   *)
(* program makes one call at a time.                                       *)

\* filter_init_2
ProgramOpens ==
    /\ program = "closed" /\ ~freed
    /\ program' = "reading"
    /\ event' = "clear"
    /\ g_got_log' = TRUE
    /\ UNCHANGED <<queue, unsignalled, names, threads, answers, naming, freed, told>>

\* filter_free_2, then g_got_log.
ProgramCloses ==
    /\ program \in {"reading", "waiting"} /\ naming = NoPid
    /\ program' = "closing"
    /\ event' = "NULL"
    /\ answers' = {}
    /\ UNCHANGED <<queue, unsignalled, names, threads, naming, g_got_log, freed, told>>

ProgramClosed ==
    /\ program = "closing"
    /\ program' = "closed"
    /\ g_got_log' = FALSE
    /\ UNCHANGED <<queue, event, unsignalled, names, threads, answers, naming, freed, told>>

\* KeWaitForSingleObject on a synchronization event.
ProgramWakes ==
    /\ program = "waiting" /\ event = "set" /\ naming = NoPid
    /\ program' = "reading"
    /\ event' = "clear"
    /\ UNCHANGED <<queue, unsignalled, names, threads, answers, naming, g_got_log, freed, told>>

\* Mutant: what is copied stays where it is.
get_request_Keeps(n) ==
    LET taken == {After(tail, i) : i \in 0 .. n - 1} IN
    /\ tail' = After(tail, n)
    /\ heap' = heap \ {data[i].block : i \in taken}
    /\ twice' = twice \cup ({data[i].block : i \in taken} \ heap)
    /\ told' = told + Skipped(taken)
    /\ answers' = answers \cup ({data[i].pid : i \in taken} \ {NoPid})
    /\ UNCHANGED <<data, head, logged, dropped, overflowed>>

get_request(n) ==
    LET taken == {After(tail, i) : i \in 0 .. n - 1} IN
    /\ tail' = After(tail, n)
    /\ data' = [i \in Slots |-> IF i \in taken THEN [data[i] EXCEPT !.block = 0] ELSE data[i]]
    /\ heap' = heap \ {data[i].block : i \in taken}
    /\ twice' = twice \cup ({data[i].block : i \in taken} \ heap)
    /\ told' = told + Skipped(taken)
    /\ answers' = answers \cup ({data[i].pid : i \in taken} \ {NoPid})
    /\ UNCHANGED <<head, logged, dropped, overflowed>>

\* IOCTL_CMD_GETREQUEST
ProgramReads ==
    /\ program = "reading" /\ naming = NoPid
    /\ \E room \in 1 .. MaxRead :
          /\ get_request(IF Count < room THEN Count ELSE room)
          /\ program' = IF Count < room THEN "waiting" ELSE "reading"
    /\ UNCHANGED <<event, unsignalled, names, threads, naming, g_got_log, freed>>

\* Mutant: KePulseEvent, which wakes only a thread that waits already.
pid_pname_set_Pulse(p) ==
    LET t == pname_event[p] IN
    /\ pname' = [pname EXCEPT ![p] = TRUE]
    /\ woken' = IF ~pname[p] /\ t # NoPid /\ at[t] = "wait"
                THEN [woken EXCEPT ![t] = TRUE] ELSE woken

pid_pname_set(p) ==
    LET t == pname_event[p] IN
    /\ pname' = [pname EXCEPT ![p] = TRUE]
    /\ woken' = IF ~pname[p] /\ t # NoPid THEN [woken EXCEPT ![t] = TRUE] ELSE woken

\* IOCTL_CMD_SETPNAME: pid_pname_set, or find_ple finds no entry and lets go
\* of the lock.
ProgramAnswers(p) ==
    /\ program \in {"reading", "waiting"} /\ naming = NoPid
    /\ p \in answers
    /\ answers' = answers \ {p}
    /\ IF entered[p] THEN pid_pname_set(p) /\ UNCHANGED naming
                    ELSE naming' = p /\ UNCHANGED <<pname, woken>>
    /\ UNCHANGED <<queue, event, unsignalled, alive, entered, pname_event, behind, doubled,
                   pid, at, asked, program, g_got_log, freed, told>>

ProgramAdds ==
    /\ naming # NoPid
    /\ naming' = NoPid
    /\ add_ple(naming, TRUE, NoPid)
    /\ UNCHANGED <<queue, event, unsignalled, alive, threads, program, answers, g_got_log,
                   freed, told>>

-----------------------------------------------------------------------------
\* OnUnload, with no request in progress and no program: every block that a
\* slot points to.
filter_free ==
    LET left == {data[i].block : i \in Slots} \ {0} IN
    /\ ~freed /\ program = "closed" /\ ~unsignalled
    /\ \A t \in Threads : at[t] = "idle"
    /\ freed' = TRUE
    /\ heap' = heap \ left
    /\ twice' = twice \cup (left \ heap)
    /\ UNCHANGED <<data, head, tail, logged, dropped, overflowed, event, unsignalled, names,
                   threads, user, told>>

\* filter_init
Init ==
    /\ data = [i \in Slots |-> [pid |-> NoPid, skipped |-> 0, block |-> 0]]
    /\ head = 0 /\ tail = 0
    /\ event = "NULL" /\ g_got_log = FALSE /\ unsignalled = FALSE
    /\ pid = [t \in Threads |-> NoPid]
    /\ alive = [p \in Pids |-> TRUE] /\ entered = [p \in Pids |-> FALSE]
    /\ pname = [p \in Pids |-> FALSE]
    /\ pname_event = [p \in Pids |-> NoPid]
    /\ behind = [p \in Pids |-> <<>>] /\ doubled = [p \in Pids |-> FALSE]
    /\ at = [t \in Threads |-> "idle"] /\ woken = [t \in Threads |-> FALSE]
    /\ program = "closed" /\ answers = {} /\ naming = NoPid
    /\ freed = FALSE /\ heap = {} /\ twice = {}
    /\ logged = 0 /\ dropped = 0 /\ told = 0 /\ overflowed = FALSE
    /\ asked = [p \in Pids |-> 0]

tdi_create(t) ==
    \/ \E p \in Pids : CreateResolves(t, p)
    \/ CreateSetsEvent(t) \/ CreateAddsEntry(t) \/ CreateLogs(t)
    \/ CreateSignals(t) \/ CreateWaits(t) \/ CreateResets(t)

Program ==
    \/ ProgramOpens \/ ProgramCloses \/ ProgramClosed \/ ProgramWakes \/ ProgramReads
    \/ ProgramAdds
    \/ \E p \in Pids : ProgramAnswers(p)

Next ==
    \/ \E t \in Threads : tdi_create(t)
    \/ \E p \in Pids : ProcessCreated(p) \/ ProcessEnds(p)
    \/ Log \/ Signal \/ Program \/ filter_free

Spec == Init /\ [][Next]_logVars

-----------------------------------------------------------------------------
\* Every variable keeps its type; what the program is to answer are
\* processes, and it is told of an event only while it has one.
TypeOK ==
    /\ data \in [Slots -> [pid : Pids \cup {NoPid}, skipped : 0 .. MaxLogs, block : 0 .. MaxLogs]]
    /\ head \in Slots /\ tail \in Slots
    /\ event \in {"NULL", "clear", "set"}
    /\ {g_got_log, freed, unsignalled, overflowed} \subseteq BOOLEAN
    /\ pid \in [Threads -> Pids \cup {NoPid}]
    /\ {alive, entered, pname, doubled} \subseteq [Pids -> BOOLEAN]
    /\ pname_event \in [Pids -> Threads \cup {NoPid}]
    /\ behind \in [Pids -> Seq([pname : BOOLEAN, event : Threads \cup {NoPid}])]
    /\ at \in [Threads -> {"idle", "set", "add", "log", "signal", "wait", "reset"}]
    /\ woken \in [Threads -> BOOLEAN]
    /\ program \in {"closed", "reading", "waiting", "closing"}
    /\ answers \subseteq Pids /\ naming \in Pids \cup {NoPid}
    /\ heap \subseteq 1 .. MaxLogs /\ twice \subseteq 1 .. MaxLogs
    /\ {logged, dropped, told} \subseteq 0 .. MaxLogs
    /\ asked \in [Pids -> 0 .. MaxAsked]

\* The counters of skipped requests add up: each request the queue dropped is
\* in the log_skipped of exactly one entry, which the program has read or will
\* read, also when the entry that counted it is dropped itself (filter.c:333).
SkippedExact == dropped = told + Skipped(Queued)

\* Each entry in the queue owns its block until it is read, dropped or the
\* queue is freed, and no block is lost.  filter_free runs over all slots:
\* it frees what the last log_request dropped once more, and nothing else.
BlocksOwned ==
    /\ IF freed THEN heap = {} ELSE heap = {data[i].block : i \in Queued}
    /\ ~freed => twice = {} /\ Cardinality(heap) = Count
    /\ twice # {} => overflowed /\ twice = {data[head].block}

\* A program that waits for entries while there are some is about to be woken.
ReaderWoken ==
    program = "waiting" /\ Count # 0 =>
        event = "set" \/ unsignalled \/ \E t \in Threads : at[t] = "signal"

\* The event in the process list is on the stack of a thread that has not
\* left tdi_create, and belongs to that thread's process, unless two entries
\* were added for the process (pid_pname.c:109-118): only that of the first
\* is reset, and the other is found once the first is removed.
EventOnStack ==
    \A p \in Pids : pname_event[p] # NoPid /\ ~doubled[p] =>
        pid[pname_event[p]] = p /\ at[pname_event[p]] \in {"log", "signal", "wait", "reset"}

\* The first request of a process is allowed as soon as its name is known.
\* (Not a later one: two threads share one event, and an answer to an earlier
\* request may come between the test of the name and the event.)
FirstAnswered ==
    \A t \in Threads : at[t] = "wait" /\ pname[pid[t]] /\ asked[pid[t]] = 1 => woken[t]

\* The ring of entries and the memory of their blocks agree.
RingOwned == TypeOK /\ BlocksOwned

\* Whoever waits for another thread is woken and waits on memory that is there:
\* the program for an entry, a thread for the name of its process.
WaitersServed == ReaderWoken /\ EventOnStack /\ FirstAnswered

===============================================================================
