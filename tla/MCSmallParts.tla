---------------------------- MODULE MCSmallParts ------------------------------
(***************************************************************************)
(* Five small models in one run: the paging files and the bitmap of DP,    *)
(* the string queue of coworker2, ctrl2cap, and the initialisation of      *)
(* ndisedge.  A behaviour is one of them, chosen in its first state, and   *)
(* the others stay where they begin.                                       *)
(***************************************************************************)
EXTENDS DPPaging, TLC

CONSTANTS RegionSize, Total, Offsets, Lengths, Null, MaxSets, Senders,
          Receivers, CWK_STR_LEN_MAX, Buffers, OutLens, MaxList, ULong,
          Keyboards, Items, MaxLoads, none

VARIABLES part, Bitmap, status, sets, list, qEvent, qPc, arg, reply,
          loaded, devices, gC2pKeyCount, kPc, reg, unload, walk, raced,
          reused, ndisprot, loads, iFlags, InitEvent, IoTarget, res, read,
          iStatus, request, iRefCount, HaltEvent, registered,
          CallbackObject, item, bugcheck, iPc, result, iOld

Marking == INSTANCE DPBitmap
Queue == INSTANCE Coworker WITH event <- qEvent, pc <- qPc
Keys == INSTANCE Ctrl2cap WITH pc <- kPc
Start == INSTANCE NdisEdgeInit WITH Flags <- iFlags, status <- iStatus,
        RefCount <- iRefCount, pc <- iPc, old <- iOld

bitmapVars == <<Bitmap, status, sets>>
queueVars == <<list, qEvent, qPc, arg, reply, loaded>>
keysVars == <<devices, gC2pKeyCount, kPc, reg, unload, walk, raced,
              reused>>
startVars == <<ndisprot, loads, iFlags, InitEvent, IoTarget, res, read,
               iStatus, request, iRefCount, HaltEvent, registered,
               CallbackObject, item, bugcheck, iPc, result, iOld>>
allVars == <<part, vars, bitmapVars, queueVars, keysVars, startVars>>

MCInit ==
    /\ part \in {"paging", "bitmap", "queue", "keys", "start"}
    /\ Init /\ Marking!Init /\ Queue!Init /\ Keys!Init /\ Start!Init

MCNext ==
    /\ UNCHANGED part
    /\ \/ part = "paging" /\ Next /\ UNCHANGED <<bitmapVars, queueVars, keysVars, startVars>>
       \/ part = "bitmap" /\ Marking!Next /\ UNCHANGED <<vars, queueVars, keysVars, startVars>>
       \/ part = "queue" /\ Queue!Next /\ UNCHANGED <<vars, bitmapVars, keysVars, startVars>>
       \/ part = "keys" /\ Keys!Next /\ UNCHANGED <<vars, bitmapVars, queueVars, startVars>>
       \/ part = "start" /\ Start!Next /\ UNCHANGED <<vars, bitmapVars, queueVars, keysVars>>

MCSpec == MCInit /\ [][MCNext]_allVars

\* In its first state neither model has a step that fairness is about, so one
\* that stays there is fair.
MCFairSpec == MCSpec /\ Queue!Fairness /\ Keys!Fairness

ASSUME PartsAssumption ==
    /\ Marking!BitmapAssumption /\ Queue!CoworkerAssumption /\ Keys!Ctrl2capAssumption
    /\ Start!NdisEdgeInitAssumption

\* Ranges around byte and region boundaries, for regions of two bytes.
MCOffsets == {0, 1, 7, 8, 9, 15, 16, 31, 32, 33}
MCLengths == {1, 2, 7, 8, 9, 16, 17, 24, 32, 33, 40}

\* With nodes of two bytes: empty, one character, too long, and buffers
\* without terminator, one of them empty.
MCBuffers == {<<0, 0>>, <<1, 0>>, <<2, 0>>, <<2, 1>>, <<2, 2>>, <<3, 2>>}

\* Looked at only while the bitmap changes, since they take long.
BitmapPromise ==
    /\ Marking!Marks!Init
    /\ [][part = "bitmap" => [Marking!Marks!Next]_<<Marking!marked, status>>]_allVars
    /\ [](part = "bitmap" => Marking!MarksExact)

StringsDelivered    == Queue!StringsDelivered
WaiterReturns       == Queue!WaiterReturns
CountAndChain       == Keys!CountAndChain
UnloadOutlastsReads == Keys!UnloadOutlastsReads
StartSafe           == Start!StartSafe

===============================================================================
