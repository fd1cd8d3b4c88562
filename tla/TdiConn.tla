------------------------------- MODULE TdiConn -------------------------------
(***************************************************************************)
(* The TCP connections of the firewall library tdi_fw: the connection      *)
(* objects in the object table (obj_tbl.c), the state table the packet     *)
(* filter looks connections up in (conn_state.c), the thread that frees    *)
(* closed entries, and the handlers that move a connection through its     *)
(* states (disp_conn.c, ev_conn.c, disp_obj.c).                            *)
(*                                                                         *)
(* A client has one request per connection object outstanding.  Every      *)
(* object is associated with an address.  The transport is external: it    *)
(* opens, releases and resets connections and answers requests.  Requests  *)
(* the filter rules deny, and failures to allocate, change nothing here.   *)
(* Addresses (set_tcp_conn_local) and logging are left out.                *)
(***************************************************************************)
EXTENDS Naturals, FiniteSets

CONSTANTS
    ConnObjs,           \* connection objects
    Entries,            \* blocks for entries of the state table
    Null,
    MAX_CLOSED_TIME,    \* 20 seconds in the driver, ticks here
    Uninitialized       \* the states a variable nobody has set may hold

TcpStates ==
    {"SYN_SENT", "SYN_RCVD", "ESTABLISHED_IN", "ESTABLISHED_OUT", "FIN_WAIT1",
     "FIN_WAIT2", "TIME_WAIT", "CLOSE_WAIT", "LAST_ACK", "CLOSED"}

TdiAssumption ==
    /\ Null \notin ConnObjs \cup Entries
    /\ IsFiniteSet(Entries)
    /\ MAX_CLOSED_TIME \in Nat \ {0}
    /\ Uninitialized \subseteq TcpStates

VARIABLES
    obj,            \* is the connection object in the object table?
    conn_entry,     \* ote->conn_entry
    state, connobj, \* of the entries; state "FREE" is a block not allocated
    g_conn_to_del,  \* the chain of closed entries, walked from end to end
    circular,       \* does the chain lead back to itself?
    age,            \* ticks since an entry was closed (from ce->ticks)
    g_conn_new_to_del, \* a synchronization event
    thread, timeout,   \* conn_thread, and how long it still waits at most
    g_conn_thread,  \* FALSE once conn_state_free has set it to NULL
    unload,         \* how far OnUnload is
    overtaken,      \* history: did that happen between scan and loop test?
    reused,         \* history: has AcceptReused been taken?
    again,          \* history: of the objects, was a disconnect asked for of a
                    \* connection this side had released, or that was over?
    irp,            \* the client's request: where, and the state it is to set
    indication,     \* the state tdi_event_disconnect is about to set
    tcp, fins       \* the transport's view: the connection, and who released

table   == <<conn_entry, state, connobj, g_conn_to_del, circular, age, g_conn_new_to_del>>
worker  == <<thread, timeout, g_conn_thread, unload, overtaken>>
network == <<tcp, fins>>
history == <<reused, again>>
vars    == <<obj, table, worker, irp, indication, network, history>>

Established == {"ESTABLISHED_IN", "ESTABLISHED_OUT"}

Idle == [at |-> "idle", state |-> "NONE"]
Request(at, s) == [at |-> at, state |-> s]

-----------------------------------------------------------------------------
(* The functions of conn_state.c; the two spin locks make each atomic, and *)
(* a thread that walks in circles keeps the lock of the table.             *)

Unlocked == thread # "spin"

HasEntry(c) == obj[c] /\ conn_entry[c] # Null

get_tcp_conn_state_by_obj(c) == IF HasEntry(c) THEN state[conn_entry[c]] ELSE "NONE"

set_tcp_conn_state(c, s) ==
    /\ Unlocked
    /\ state' = IF HasEntry(c) THEN [state EXCEPT ![conn_entry[c]] = s] ELSE state
    /\ UNCHANGED <<conn_entry, connobj, g_conn_to_del, circular, age, g_conn_new_to_del>>

\* ote_conn->conn_entry is NULL, and there is memory.
add_tcp_conn(c, s) ==
    /\ Unlocked
    /\ conn_entry[c] = Null
    /\ \E e \in Entries :
          /\ state[e] = "FREE"
          /\ conn_entry' = [conn_entry EXCEPT ![c] = e]
          /\ state' = [state EXCEPT ![e] = s]
          /\ connobj' = [connobj EXCEPT ![e] = c]
    /\ UNCHANGED <<g_conn_to_del, circular, age, g_conn_new_to_del>>

\* The entry becomes the first of the chain, also if it is in it.
del_tcp_conn_obj(e) ==
    /\ Unlocked
    /\ state' = [state EXCEPT ![e] = "CLOSED"]
    /\ connobj' = [connobj EXCEPT ![e] = Null]
    /\ g_conn_to_del' = g_conn_to_del \cup {e}
    /\ circular' = (circular \/ e \in g_conn_to_del)
    /\ age' = [age EXCEPT ![e] = 0]
    /\ g_conn_new_to_del' = TRUE

\* Mutant: the object keeps its pointer.
del_tcp_conn_Kept(c) ==
    IF HasEntry(c)
    THEN /\ del_tcp_conn_obj(conn_entry[c])
         /\ UNCHANGED conn_entry
    ELSE Unlocked /\ UNCHANGED table

del_tcp_conn(c) ==
    IF HasEntry(c)
    THEN /\ del_tcp_conn_obj(conn_entry[c])
         /\ conn_entry' = [conn_entry EXCEPT ![c] = Null]
    ELSE Unlocked /\ UNCHANGED table

-----------------------------------------------------------------------------
(* Connection objects: ot_add_fileobj and tdi_cleanup (ot_del_fileobj).    *)
Create(c) ==
    /\ ~obj[c]
    /\ unload = "no"
    /\ irp[c] = Idle /\ indication[c] = "NONE" /\ tcp[c] = "none"
    /\ obj' = [obj EXCEPT ![c] = TRUE]
    /\ UNCHANGED <<table, worker, irp, indication, network, history>>

\* The client closes its handle, whatever is outstanding.
Cleanup(c) ==
    /\ obj[c]
    /\ unload = "no"
    /\ obj' = [obj EXCEPT ![c] = FALSE]
    /\ del_tcp_conn(c)
    /\ tcp' = [tcp EXCEPT ![c] = IF tcp[c] = "opening" THEN "opening" ELSE "none"]
    /\ fins' = [fins EXCEPT ![c] = {}]
    /\ again' = [again EXCEPT ![c] = FALSE]
    /\ UNCHANGED <<worker, irp, indication, reused>>

-----------------------------------------------------------------------------
(* Opening a connection.                                                   *)
Available(c) ==
    /\ obj[c]
    /\ unload = "no"
    /\ irp[c] = Idle /\ indication[c] = "NONE"
    /\ tcp[c] \in {"none", "reset"}

\* tdi_connect; with an entry left the request is denied.
Connect(c) ==
    /\ Available(c)
    /\ add_tcp_conn(c, "SYN_SENT")
    /\ irp' = [irp EXCEPT ![c] = Request("open", "ESTABLISHED_OUT")]
    /\ tcp' = [tcp EXCEPT ![c] = "opening"]
    /\ again' = [again EXCEPT ![c] = FALSE]
    /\ UNCHANGED <<obj, worker, indication, fins, reused>>

\* tdi_event_connect, with the request and the object the listener gave.
Accept(c) ==
    /\ Available(c)
    /\ add_tcp_conn(c, "SYN_RCVD")
    /\ irp' = [irp EXCEPT ![c] = Request("open", "ESTABLISHED_IN")]
    /\ tcp' = [tcp EXCEPT ![c] = "opening"]
    /\ again' = [again EXCEPT ![c] = FALSE]
    /\ UNCHANGED <<obj, worker, indication, fins, reused>>

\* The object still has the entry of its last connection: del_tcp_conn_obj,
\* add_tcp_conn, which says that there is an entry, del_tcp_conn_obj again.
\* The entry's next_to_del is now itself, and the rest of the chain is lost.
AcceptReused(c) ==
    /\ Available(c)
    /\ Unlocked
    /\ HasEntry(c)
    /\ LET e == conn_entry[c] IN
       /\ state' = [state EXCEPT ![e] = "CLOSED"]
       /\ connobj' = [connobj EXCEPT ![e] = Null]
       /\ g_conn_to_del' = {e}
       /\ circular' = TRUE
       /\ age' = [age EXCEPT ![e] = 0]
       /\ g_conn_new_to_del' = TRUE
    /\ conn_entry' = [conn_entry EXCEPT ![c] = Null]
    /\ reused' = TRUE
    /\ UNCHANGED <<obj, worker, irp, indication, network, again>>

TransportOpens(c) ==
    /\ obj[c]
    /\ irp[c].at = "open" /\ tcp[c] = "opening"
    /\ tcp' = [tcp EXCEPT ![c] = "open"]
    /\ UNCHANGED <<obj, table, worker, irp, indication, fins, history>>

\* tdi_connect_complete, tdi_evconn_accept_complete.
OpenComplete(c) ==
    /\ irp[c].at = "open" /\ tcp[c] # "opening"
    /\ set_tcp_conn_state(c, irp[c].state)
    /\ irp' = [irp EXCEPT ![c] = Idle]
    /\ UNCHANGED <<obj, worker, indication, network, history>>

OpenFails(c) ==
    /\ irp[c].at = "open" /\ tcp[c] = "opening"
    /\ tcp' = [tcp EXCEPT ![c] = "none"]
    /\ irp' = [irp EXCEPT ![c] = Idle]
    /\ del_tcp_conn(c)
    /\ UNCHANGED <<obj, worker, indication, fins, history>>

-----------------------------------------------------------------------------
(* tdi_disconnect.  A release reads the state and sets the next one in two *)
(* steps; in a state it does not expect, the next one is not initialized.  *)
(* (A value that is no state does what an unexpected state does.)          *)
Next_state(s) ==
    CASE s \in Established  -> {"FIN_WAIT1"}
      [] s = "CLOSE_WAIT"   -> {"LAST_ACK"}
      [] OTHER              -> Uninitialized

\* A client may ask at any time, of whatever is left of the connection.
Disconnecting(c) ==
    /\ obj[c]
    /\ unload = "no"
    /\ irp[c] = Idle
    /\ again' = [again EXCEPT ![c] = again[c] \/ tcp[c] = "none" \/ "local" \in fins[c]]

Release(c) ==
    /\ Disconnecting(c)
    /\ Unlocked
    /\ \E s \in Next_state(get_tcp_conn_state_by_obj(c)) :
          irp' = [irp EXCEPT ![c] = Request("release", s)]
    /\ UNCHANGED <<obj, table, worker, indication, network, reused>>

ReleaseSet(c) ==
    /\ irp[c].at = "release"
    /\ set_tcp_conn_state(c, irp[c].state)
    /\ irp' = [irp EXCEPT ![c] = Request("disconnect", irp[c].state)]
    /\ UNCHANGED <<obj, worker, indication, network, history>>

Abort(c) ==
    /\ Disconnecting(c)
    /\ set_tcp_conn_state(c, "CLOSED")
    /\ irp' = [irp EXCEPT ![c] = Request("abort", "CLOSED")]
    /\ UNCHANGED <<obj, worker, indication, network, reused>>

\* The transport's end of a release: with that of the other side, the end.
Released(c, side) ==
    LET both == fins[c] \cup {side} = {"local", "remote"} IN
    /\ tcp'  = [tcp EXCEPT ![c] = IF both THEN "none" ELSE "open"]
    /\ fins' = [fins EXCEPT ![c] = IF both THEN {} ELSE fins[c] \cup {side}]

Disconnected(c) ==
    /\ irp[c].at \in {"disconnect", "abort"} /\ tcp[c] = "open"
    /\ irp' = [irp EXCEPT ![c] = Idle]
    /\ IF irp[c].at = "abort"
       THEN /\ tcp' = [tcp EXCEPT ![c] = "none"]
            /\ fins' = [fins EXCEPT ![c] = {}]
       ELSE Released(c, "local")
    /\ UNCHANGED <<obj, worker, indication, history>>

\* Mutant: the first half of a release closes the entry, too.
DisconnectComplete_Early(c) == Disconnected(c) /\ del_tcp_conn(c)

\* tdi_disconnect_complete.
DisconnectComplete(c) ==
    /\ Disconnected(c)
    /\ CASE irp[c].state = "FIN_WAIT1"              -> set_tcp_conn_state(c, "FIN_WAIT2")
         [] irp[c].state \in {"LAST_ACK", "CLOSED"} -> del_tcp_conn(c)
         [] OTHER                                   -> UNCHANGED table

\* The transport refuses what is over or what it has been asked for before.
DisconnectFails(c) ==
    /\ \/ irp[c].at \in {"disconnect", "abort"} /\ tcp[c] \in {"none", "reset"}
       \/ irp[c].at = "disconnect" /\ "local" \in fins[c]
    /\ irp' = [irp EXCEPT ![c] = Idle]
    /\ UNCHANGED <<obj, table, worker, indication, network, history>>

-----------------------------------------------------------------------------
(* tdi_event_disconnect.                                                   *)
Indicating(c) ==
    /\ unload = "no"
    /\ tcp[c] = "open"
    /\ indication[c] = "NONE"

RemoteRelease(c) ==
    /\ Indicating(c)
    /\ Unlocked
    /\ "remote" \notin fins[c]
    /\ LET s == get_tcp_conn_state_by_obj(c) IN
       indication' = [indication EXCEPT ![c] = CASE s \in Established -> "CLOSE_WAIT"
                                                 [] s = "FIN_WAIT2"   -> "TIME_WAIT"
                                                 [] OTHER             -> "NONE"]
    /\ Released(c, "remote")
    /\ UNCHANGED <<obj, table, worker, irp, history>>

RemoteReleaseSet(c) ==
    /\ indication[c] # "NONE"
    /\ set_tcp_conn_state(c, indication[c])
    /\ indication' = [indication EXCEPT ![c] = "NONE"]
    /\ UNCHANGED <<obj, worker, irp, network, history>>

RemoteAbort(c) ==
    /\ Indicating(c)
    /\ del_tcp_conn(c)
    /\ tcp' = [tcp EXCEPT ![c] = "reset"]
    /\ fins' = [fins EXCEPT ![c] = {}]
    /\ UNCHANGED <<obj, worker, irp, indication, history>>

-----------------------------------------------------------------------------
(* conn_thread.                                                            *)
Forever == MAX_CLOSED_TIME + 1      \* no timeout

ThreadWakes ==
    /\ thread = "wait"
    /\ g_conn_new_to_del \/ timeout = 0
    /\ g_conn_new_to_del' = FALSE
    /\ thread' = "scan"
    /\ UNCHANGED <<obj, conn_entry, state, connobj, g_conn_to_del, circular, age, timeout,
                   g_conn_thread, unload, overtaken, irp, indication, network, history>>

\* Mutant: the order to stop does not empty the chain.
Expired_Aged(e) == age[e] >= MAX_CLOSED_TIME

Expired(e) == age[e] >= MAX_CLOSED_TIME \/ ~g_conn_thread

\* Where the chain leads back to itself the loop does not end.
ThreadSpins ==
    /\ thread = "scan"
    /\ circular
    /\ thread' = "spin"
    /\ UNCHANGED <<obj, table, timeout, g_conn_thread, unload, overtaken, irp,
                   indication, network, history>>

\* The timeout becomes that of the entry with the longest time to go.
ThreadScans ==
    /\ thread = "scan"
    /\ ~circular
    /\ thread' = "test"
    /\ LET chain == {e \in g_conn_to_del : ~Expired(e)}
           left  == {MAX_CLOSED_TIME - age[e] : e \in chain}
       IN  /\ g_conn_to_del' = chain
           /\ state' = [e \in Entries |-> IF e \in g_conn_to_del \ chain THEN "FREE" ELSE state[e]]
           /\ age' = [e \in Entries |-> IF e \in chain THEN age[e] ELSE 0]
           /\ IF left = {}
              THEN timeout' = Forever
              ELSE timeout' \in left /\ \A l \in left : l <= timeout'
    /\ UNCHANGED <<obj, conn_entry, connobj, circular, g_conn_new_to_del, g_conn_thread, unload,
                   overtaken, irp, indication, network, history>>

ThreadLoops ==
    /\ thread = "test"
    /\ thread' = IF g_conn_thread THEN "wait" ELSE "exited"
    /\ UNCHANGED <<obj, table, timeout, g_conn_thread, unload, overtaken, irp,
                   indication, network, history>>

\* Queued for the thread, and no object's any more.
Forgotten(e) == state[e] = "CLOSED" /\ connobj[e] = Null

\* Time: a thread that can run does so within the tick.
Tick ==
    /\ thread = "wait" /\ ~g_conn_new_to_del /\ timeout # 0
    /\ \E e \in Entries : Forgotten(e)
    /\ age' = [e \in Entries |->
                 IF Forgotten(e) /\ age[e] < 2 * MAX_CLOSED_TIME
                 THEN age[e] + 1 ELSE age[e]]
    /\ timeout' = IF timeout = Forever THEN Forever ELSE timeout - 1
    /\ UNCHANGED <<obj, conn_entry, state, connobj, g_conn_to_del, circular, g_conn_new_to_del,
                   thread, g_conn_thread, unload, overtaken, irp, indication, network, history>>

\* A thread that walks in circles does so for good.
TimeGoesBy ==
    /\ thread = "spin"
    /\ age' = [e \in Entries |-> IF Forgotten(e) THEN 2 * MAX_CLOSED_TIME ELSE age[e]]
    /\ UNCHANGED <<obj, conn_entry, state, connobj, g_conn_to_del, circular, g_conn_new_to_del,
                   worker, irp, indication, network, history>>

-----------------------------------------------------------------------------
(* OnUnload: the devices are detached, with no request or indication in    *)
(* progress; ot_free, then conn_state_free.                                *)
UnloadBegin ==
    /\ unload = "no"
    /\ \A c \in ConnObjs : irp[c] = Idle /\ indication[c] = "NONE"
    /\ unload' = "ot_free"
    /\ UNCHANGED <<obj, table, thread, timeout, g_conn_thread, overtaken, irp, indication,
                   network, history>>

OtFree(c) ==
    /\ unload = "ot_free"
    /\ obj[c]
    /\ del_tcp_conn(c)
    /\ obj' = [obj EXCEPT ![c] = FALSE]
    /\ UNCHANGED <<worker, irp, indication, network, history>>

ConnStateFree ==
    /\ unload = "ot_free"
    /\ \A c \in ConnObjs : ~obj[c]
    /\ unload' = "wait"
    /\ g_conn_thread' = FALSE
    /\ g_conn_new_to_del' = TRUE
    /\ overtaken' = (thread = "test")
    /\ UNCHANGED <<obj, conn_entry, state, connobj, g_conn_to_del, circular, age, thread, timeout,
                   irp, indication, network, history>>

UnloadDone ==
    /\ unload = "wait"
    /\ thread = "exited"
    /\ unload' = "done"
    /\ UNCHANGED <<obj, table, thread, timeout, g_conn_thread, overtaken, irp, indication,
                   network, history>>

-----------------------------------------------------------------------------
\* conn_state_init
Init ==
    /\ obj = [c \in ConnObjs |-> FALSE]
    /\ conn_entry = [c \in ConnObjs |-> Null]
    /\ state = [e \in Entries |-> "FREE"]
    /\ connobj = [e \in Entries |-> Null]
    /\ g_conn_to_del = {} /\ circular = FALSE
    /\ age = [e \in Entries |-> 0]
    /\ g_conn_new_to_del = FALSE
    /\ thread = "wait" /\ timeout = Forever /\ g_conn_thread = TRUE
    /\ unload = "no" /\ overtaken = FALSE
    /\ irp = [c \in ConnObjs |-> Idle]
    /\ indication = [c \in ConnObjs |-> "NONE"]
    /\ tcp = [c \in ConnObjs |-> "none"]
    /\ fins = [c \in ConnObjs |-> {}]
    /\ reused = FALSE /\ again = [c \in ConnObjs |-> FALSE]

Client(c)    == Create(c) \/ Cleanup(c) \/ Connect(c) \/ Release(c) \/ ReleaseSet(c) \/ Abort(c)
Transport(c) == \/ Accept(c) \/ AcceptReused(c) \/ TransportOpens(c)
                \/ OpenComplete(c) \/ OpenFails(c) \/ DisconnectComplete(c)
                \/ DisconnectFails(c) \/ RemoteRelease(c) \/ RemoteReleaseSet(c)
                \/ RemoteAbort(c)
Thread       == ThreadWakes \/ ThreadSpins \/ ThreadScans \/ ThreadLoops
Unload       == UnloadBegin \/ ConnStateFree \/ UnloadDone \/ \E c \in ConnObjs : OtFree(c)

Next == Thread \/ Tick \/ TimeGoesBy \/ Unload \/ \E c \in ConnObjs : Client(c) \/ Transport(c)

Spec == Init /\ [][Next]_vars

-----------------------------------------------------------------------------
\* Every variable keeps its type.
TypeOK ==
    /\ obj \in [ConnObjs -> BOOLEAN]
    /\ conn_entry \in [ConnObjs -> Entries \cup {Null}]
    /\ state \in [Entries -> TcpStates \cup {"FREE"}]
    /\ connobj \in [Entries -> ConnObjs \cup {Null}]
    /\ g_conn_to_del \in SUBSET Entries
    /\ circular \in BOOLEAN
    /\ age \in [Entries -> 0 .. 2 * MAX_CLOSED_TIME]
    /\ g_conn_new_to_del \in BOOLEAN
    /\ thread \in {"wait", "scan", "spin", "test", "exited"}
    /\ timeout \in 0 .. Forever
    /\ g_conn_thread \in BOOLEAN
    /\ unload \in {"no", "ot_free", "wait", "done"}
    /\ overtaken \in BOOLEAN
    /\ irp \in [ConnObjs -> [at : {"idle", "open", "release", "disconnect", "abort"},
                             state : TcpStates \cup {"NONE"}]]
    /\ indication \in [ConnObjs -> {"NONE", "CLOSE_WAIT", "TIME_WAIT"}]
    /\ tcp \in [ConnObjs -> {"none", "opening", "open", "reset"}]
    /\ fins \in [ConnObjs -> SUBSET {"local", "remote"}]
    /\ reused \in BOOLEAN
    /\ again \in [ConnObjs -> BOOLEAN]

\* "clear listen & conn entries in connobj (fileobject can be reused)"
\* (ev_conn.c:203): an entry that is cleared for the next connection goes
\* into the chain of closed entries once.
DeletedOnce == ~circular

\* An entry in use is its object's and nobody else's until it is queued, once,
\* for the thread to free: no pointer to a queued or freed entry is left in an
\* object, and no entry is lost, whatever handlers, completions and cleanups
\* overlap; as long as no accepted connection reuses an object too early.
EntriesOwned ==
    ~reused =>
        /\ DeletedOnce
        /\ \A c \in ConnObjs : conn_entry[c] # Null =>
              obj[c] /\ connobj[conn_entry[c]] = c /\ conn_entry[c] \notin g_conn_to_del
        /\ \A e \in Entries : state[e] # "FREE" =>
              IF e \in g_conn_to_del THEN state[e] = "CLOSED" ELSE conn_entry[connobj[e]] = e

Settled(c) == obj[c] /\ irp[c] = Idle /\ indication[c] = "NONE"

\* The state table says of a connection what the transport knows of it, when
\* no handler of it is under way: open in both directions, or released by
\* this side.  (Not so by the other side: its release may have come before
\* the completion that establishes the connection, and is ignored then.  Nor
\* after the client asks again for what it had: the release of a state that
\* is not expected stores a state nobody has set.)
TableTracks ==
    \A c \in ConnObjs : Settled(c) /\ tcp[c] = "open" /\ ~again[c] =>
        /\ conn_entry[c] # Null
        /\ fins[c] = {} => state[conn_entry[c]] \in Established
        /\ fins[c] = {"local"} => state[conn_entry[c]] = "FIN_WAIT2"
        /\ fins[c] = {"remote"} => state[conn_entry[c]] \in Established \cup {"CLOSE_WAIT"}

\* No connection that is over looks like one that is being opened or is open,
\* whatever order its ends, completions and the client's close came in, with
\* the same exception.
NoGhosts ==
    \A c \in ConnObjs :
        Settled(c) /\ tcp[c] \in {"none", "reset"} /\ conn_entry[c] # Null /\ ~again[c] =>
            state[conn_entry[c]] \notin Established \cup {"SYN_SENT", "SYN_RCVD", "CLOSED"}

\* An entry no object has any more is freed before twice MAX_CLOSED_TIME ("how
\* much entry in connection will live in CLOSED state", line 25): the thread
\* waits for the entry with the longest time to go, but any new entry wakes it.
\* This is as long as no accepted connection reuses an object too early, which
\* loses the chain and sets the thread to run in circles.
ClosedForgotten ==
    ~reused => \A e \in Entries : Forgotten(e) => age[e] < 2 * MAX_CLOSED_TIME

\* The thread leaves no entry behind when it exits ("signal for thread to
\* cleanup & exit", line 118), unless the signal comes when it has scanned
\* the chain and is about to test it.
CleanExit == thread = "exited" /\ ~overtaken => \A e \in Entries : state[e] = "FREE"

\* The table tells connections that are open from those that are over.
TableTrue == TypeOK /\ TableTracks /\ NoGhosts

\* Closed entries are freed in time, and none is left when the thread exits.
EntriesFreed == ClosedForgotten /\ CleanExit

===============================================================================
