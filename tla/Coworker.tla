------------------------------ MODULE Coworker ------------------------------
(***************************************************************************)
(* The string queue between user threads in the driver of coworker2        *)
(* (coworker2/coworker_sys/coworker_sys.c).  CWK_DVC_SEND_STR inserts a    *)
(* string in a locked list and then sets one synchronization event;        *)
(* CWK_DVC_RECV_STR removes a string, or waits for the event and tries     *)
(* again.  Each request runs in the thread that sent it.                   *)
(*                                                                         *)
(* A buffer is <<inlen, len>>: its length, and the place of its first      *)
(* terminator (inlen if it has none).                                      *)
(***************************************************************************)
EXTENDS Naturals, Sequences

CONSTANTS
    Senders, Receivers,     \* user threads
    CWK_STR_LEN_MAX,        \* 512 in the driver
    Buffers,                \* the buffers the senders pass
    OutLens,                \* the output lengths the receivers pass
    MaxList                 \* bound on the strings in the list

CoworkerAssumption ==
    /\ Senders \cap Receivers = {}
    /\ CWK_STR_LEN_MAX \in Nat
    /\ Buffers \subseteq {b \in Nat \X Nat : b[2] <= b[1]}
    /\ OutLens \subseteq Nat
    /\ MaxList \in Nat

VARIABLES
    list,       \* g_cwk_str_list: the lengths of the strings
    event,      \* g_cwk_event, a synchronization event
    pc,         \* where each thread is
    arg,        \* the string a sender is about to insert
    reply,      \* each receiver's output: its buffer's length and string's
    loaded      \* until DriverUnload

vars == <<list, event, pc, arg, reply, loaded>>

Callers == Senders \cup Receivers

-----------------------------------------------------------------------------
(* CWK_DVC_SEND_STR.                                                       *)
Rejected(b) == b[1] > CWK_STR_LEN_MAX \/ b[2] = b[1]

Accepted(b) == ~Rejected(b)

\* A bad buffer, or no memory for a node: the thread returns at once, with
\* an error status, and nothing has changed.
Send(t) ==
    /\ loaded
    /\ pc[t] = "idle"
    /\ Len(list) < MaxList
    /\ \E b \in Buffers :
          /\ Accepted(b)
          /\ arg' = [arg EXCEPT ![t] = b[2]]
    /\ pc' = [pc EXCEPT ![t] = "insert"]
    /\ UNCHANGED <<list, event, reply, loaded>>

Insert(t) ==
    /\ pc[t] = "insert"
    /\ list' = Append(list, arg[t])
    /\ pc' = [pc EXCEPT ![t] = "signal"]
    /\ UNCHANGED <<event, arg, reply, loaded>>

\* Mutant: KeSetEvent only for the first string in the list.
Signal_First(t) ==
    /\ pc[t] = "signal"
    /\ event' = IF Len(list) = 1 THEN TRUE ELSE event
    /\ pc' = [pc EXCEPT ![t] = "idle"]
    /\ UNCHANGED <<list, arg, reply, loaded>>

Signal(t) ==
    /\ pc[t] = "signal"
    /\ event' = TRUE
    /\ pc' = [pc EXCEPT ![t] = "idle"]
    /\ UNCHANGED <<list, arg, reply, loaded>>

-----------------------------------------------------------------------------
(* CWK_DVC_RECV_STR.                                                       *)
Recv(t) ==
    /\ loaded
    /\ pc[t] = "idle"
    /\ \E n \in OutLens : /\ n >= CWK_STR_LEN_MAX
                          /\ reply' = [reply EXCEPT ![t] = <<n, 0>>]
    /\ pc' = [pc EXCEPT ![t] = "remove"]
    /\ UNCHANGED <<list, event, arg, loaded>>

\* Mutant: RemoveHeadList, which hands out the list head when it is empty.
Remove_Plain(t) ==
    /\ pc[t] = "remove"
    /\ reply' = [reply EXCEPT ![t][2] =
                    IF list = <<>> THEN CWK_STR_LEN_MAX + 2 ELSE Head(list) + 1]
    /\ list' = IF list = <<>> THEN <<>> ELSE Tail(list)
    /\ pc' = [pc EXCEPT ![t] = "idle"]
    /\ UNCHANGED <<event, arg, loaded>>

\* The string goes out with its terminator: strnlen + 1 bytes.
Remove(t) ==
    /\ pc[t] = "remove"
    /\ \/ /\ list # <<>>
          /\ reply' = [reply EXCEPT ![t][2] = Head(list) + 1]
          /\ list' = Tail(list)
          /\ pc' = [pc EXCEPT ![t] = "idle"]
       \/ /\ list = <<>>
          /\ pc' = [pc EXCEPT ![t] = "wait"]
          /\ UNCHANGED <<list, reply>>
    /\ UNCHANGED <<event, arg, loaded>>

Wait(t) ==
    /\ pc[t] = "wait"
    /\ event
    /\ event' = FALSE
    /\ pc' = [pc EXCEPT ![t] = "remove"]
    /\ UNCHANGED <<list, arg, reply, loaded>>

-----------------------------------------------------------------------------
\* cwkUnload: no request is outstanding then; what is left is freed.
Unload ==
    /\ loaded
    /\ \A t \in Callers : pc[t] = "idle"
    /\ loaded' = FALSE
    /\ list' = <<>>
    /\ UNCHANGED <<event, pc, arg, reply>>

\* DriverEntry: the event starts signalled.
Init ==
    /\ list = <<>>
    /\ event = TRUE
    /\ pc = [t \in Callers |-> "idle"]
    /\ arg = [t \in Senders |-> 0]
    /\ reply = [t \in Receivers |-> <<0, 0>>]
    /\ loaded = TRUE

SendStr(t) == Send(t) \/ Insert(t) \/ Signal(t)
RecvStr(t) == Recv(t) \/ Remove(t) \/ Wait(t)

Next ==
    \/ \E t \in Senders : SendStr(t)
    \/ \E t \in Receivers : RecvStr(t)
    \/ Unload

(* A thread that has entered the driver runs on.  No fairness for Send and *)
(* Recv, which user programs call if they like.                            *)
Fairness ==
    /\ \A t \in Senders : WF_vars(Insert(t) \/ Signal(t))
    /\ \A t \in Receivers : WF_vars(Remove(t) \/ Wait(t))

Spec == Init /\ [][Next]_vars
FairSpec == Spec /\ Fairness

-----------------------------------------------------------------------------
\* Every variable keeps its type.
TypeOK ==
    /\ list \in Seq(Nat)
    /\ event \in BOOLEAN
    /\ pc \in [Callers -> {"idle", "insert", "signal", "remove", "wait"}]
    /\ arg \in [Senders -> Nat]
    /\ reply \in [Receivers -> Nat \X Nat]
    /\ loaded \in BOOLEAN

\* Whatever goes through the list fits its node, and the buffer of whoever
\* reads it, with its terminator.
RepliesFit ==
    /\ \A i \in 1 .. Len(list) : list[i] < CWK_STR_LEN_MAX
    /\ \A t \in Receivers : reply[t][2] <= reply[t][1]

\* No string is stranded: while a receiver waits and there is a string, the
\* event is set, or will be, or another receiver is about to look.
NoStrandedString ==
    (\E t \in Receivers : pc[t] = "wait") /\ list # <<>> =>
        \/ event
        \/ \E t \in Senders : pc[t] = "signal"
        \/ \E t \in Receivers : pc[t] = "remove"

\* A waiting receiver returns when there is a string (the comment of line
\* 180: it stays blocked while there is none, "but as soon as there is one
\* it returns").
WaiterReturns ==
    \A t \in Receivers : pc[t] = "wait" /\ list # <<>> ~> pc[t] # "wait" \/ list = <<>>

\* What is delivered fits, and no string waits beside a receiver that waits.
StringsDelivered == TypeOK /\ RepliesFit /\ NoStrandedString

===============================================================================
