----------------------------- MODULE MCCryptFile ------------------------------
(***************************************************************************)
(* The transparent file encryption of crypt_file, or the log queue of      *)
(* tdi_fw with its process names, or the connections of tdi_fw.  A         *)
(* behaviour is one of the models, chosen in its first state from the      *)
(* Parts the instance names, and the others stay where they begin.         *)
(***************************************************************************)
EXTENDS CryptFile, TLC

CONSTANTS Parts, Threads, Pids, NoPid, REQUEST_QUEUE_SIZE, MaxLogs, MaxAsked,
          MaxRead, ConnObjs, Entries, Null, MAX_CLOSED_TIME, Uninitialized

VARIABLES part, qData, head, tail, event, g_got_log, unsignalled, pid,
          alive, entered, pname, pname_event, behind, doubled, at, woken,
          program, answers, naming, freed, heap, twice, logged, dropped,
          told, overflowed, asked,
          obj, conn_entry, state, connobj, g_conn_to_del, circular, age,
          g_conn_new_to_del, thread, timeout, g_conn_thread, unload,
          overtaken, reused, again, irp, indication, tcp, fins

Queue == INSTANCE TdiLog WITH data <- qData
Conn == INSTANCE TdiConn

logVars == <<qData, head, tail, event, g_got_log, unsignalled, pid,
             alive, entered, pname, pname_event, behind, doubled, at,
             woken, program, answers, naming, freed, heap, twice, logged,
             dropped, told, overflowed, asked>>
connVars == <<obj, conn_entry, state, connobj, g_conn_to_del, circular, age,
              g_conn_new_to_del, thread, timeout, g_conn_thread, unload,
              overtaken, reused, again, irp, indication, tcp, fins>>
allVars == <<part, vars, logVars, connVars>>

MCInit ==
    /\ part \in Parts
    /\ Init /\ Queue!Init /\ Conn!Init
    /\ part # "file" => disk[0] = "eof"     \* one file is enough for the others

MCNext ==
    /\ UNCHANGED part
    /\ \/ part = "file" /\ Next /\ UNCHANGED <<logVars, connVars>>
       \/ part = "log" /\ Queue!Next /\ UNCHANGED <<vars, connVars>>
       \/ part = "conn" /\ Conn!Next /\ UNCHANGED <<vars, logVars>>

MCSpec == MCInit /\ [][MCNext]_allVars

ASSUME PartsAssumption == Queue!TdiLogAssumption /\ Conn!TdiAssumption

Symmetry == Permutations(Notepads) \cup Permutations(Threads)
            \cup Permutations(ConnObjs) \cup Permutations(Entries)

SkippedExact  == Queue!SkippedExact
RingOwned     == Queue!RingOwned
WaitersServed == Queue!WaitersServed
EntriesOwned  == Conn!EntriesOwned
TableTrue     == Conn!TableTrue
EntriesFreed  == Conn!EntriesFreed

===============================================================================
