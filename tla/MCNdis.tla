------------------------------- MODULE MCNdis ---------------------------------
(***************************************************************************)
(* The models of ndisprot and ndisedge in one module.  A behaviour is one  *)
(* of them, chosen in its first state from the Parts the instance names,   *)
(* and the others stay where they begin.                                   *)
(***************************************************************************)
EXTENDS NdisProtRecv, TLC

CONSTANTS Parts, Uses, Files, NoFile, Sends, TCBs, Callers, Dpcs, none,
          MaxMedia, MaxArray, RCBs, Workers, Completers, Returners,
          Watermark, MaxErrors, MaxRefused, MaxChanges

VARIABLES part, loaded, bBind, unbinding, bRefCount, BindingHandle,
          resources, listed, filter, PendedSendCount, pFileObject,
          FsContext, StatusIndicationIrp, bRoutine, bPc, on, raced,
          Flags, halt, media, SendFreeList, SendWaitList, nBusySend,
          Ref, OrgSendPacket, sent, canceling, given, completed,
          dropped, stale, sPc, array, Status, pTCB, Packet, rFlags,
          rHalt, rMedia, RecvFreeList, nBusyRecv, lock, rRef, reading,
          up, queued, IsReadWorkItemQueued, unposted, errors, refused,
          rPc, pRCB, old

Binding == INSTANCE NdisProtBind WITH Irps <- Uses, EarlyUnbind <- FALSE,
        bind <- bBind, RefCount <- bRefCount, routine <- bRoutine, pc <- bPc
Send == INSTANCE NdisEdgeSend WITH Packets <- Sends, pc <- sPc
Recv == INSTANCE NdisEdgeRecv WITH MaxMedia <- MaxChanges, Flags <- rFlags,
        halt <- rHalt, media <- rMedia, Ref <- rRef, pc <- rPc

ASSUME PartsAssumption == Recv!NdisEdgeRecvAssumption /\ Send!NdisEdgeSendAssumption

bindingVars == <<loaded, bBind, unbinding, bRefCount, BindingHandle,
                 resources, listed, filter, PendedSendCount,
                 pFileObject, FsContext, StatusIndicationIrp, bRoutine,
                 bPc, on, raced>>
sendVars == <<Flags, halt, media, SendFreeList, SendWaitList, nBusySend,
              Ref, OrgSendPacket, sent, canceling, given, completed,
              dropped, stale, sPc, array, Status, pTCB, Packet>>
recvVars == <<rFlags, rHalt, rMedia, RecvFreeList, nBusyRecv, lock,
              rRef, reading, up, queued, IsReadWorkItemQueued, unposted,
              errors, refused, rPc, pRCB, old>>
allVars == <<part, vars, bindingVars, sendVars, recvVars>>

MCInit ==
    /\ part \in Parts
    /\ Init /\ Binding!Init /\ Send!Init /\ Recv!Init

MCNext ==
    /\ UNCHANGED part
    /\ \/ part = "reads" /\ Next /\ UNCHANGED <<bindingVars, sendVars, recvVars>>
       \/ part = "binding" /\ Binding!Next /\ UNCHANGED <<vars, sendVars, recvVars>>
       \/ part = "send" /\ Send!Next /\ UNCHANGED <<vars, bindingVars, recvVars>>
       \/ part = "recv" /\ Recv!Next /\ UNCHANGED <<vars, bindingVars, sendVars>>

MCSpec == MCInit /\ [][MCNext]_allVars

\* In its first state none of the models has a step that fairness is about,
\* so those that stay there are fair; but for the work item of NdisEdgeRecv.
MCFairness ==
    /\ Fairness /\ Binding!Fairness /\ Send!Fairness
    /\ \A w \in Workers : WF_recvVars(part = "recv" /\ Recv!Work(w))
    /\ \A e \in Recv!Enders : WF_recvVars(Recv!Ending(e))
    /\ WF_recvVars(\E e \in Completers, r \in RCBs : rHalt = "close" /\ Recv!ReadFails(e, r))
    /\ WF_recvVars(\E e \in Returners, r \in RCBs : Recv!MPReturnPacket(e, r))
    /\ WF_recvVars(Recv!MediaWrites) /\ WF_recvVars(Recv!Halts)

MCFairSpec == MCSpec /\ MCFairness

Symmetry == Permutations(Sends) \cup Permutations(TCBs) \cup Permutations(Dpcs)
            \cup Permutations(RCBs)

SendsAccounted == Send!SendsAccounted
ReadsAccounted == Recv!ReadsAccounted

UnbindsReturn == UnbindReturns /\ Binding!UnbindReturns
HaltsReturn   == Send!HaltReturns /\ Recv!HaltReturns

===============================================================================
