------------------------------ MODULE MCPassthru ------------------------------
(***************************************************************************)
(* The three models of passthru in one run.  They share no state that      *)
(* matters to more than one of them: a behaviour runs one of them, chosen  *)
(* in its first state, and the other two stay where they begin.            *)
(***************************************************************************)
EXTENDS PassthruAdapt

CONSTANTS Frames, PoolSize, Miniports

VARIABLES
    part,
    RecvHandle, halt, pool, frames, keepable, mine, late,
    MiniportCount, ControlDeviceState, NdisDeviceHandle, refused, threads

Recv == INSTANCE PassthruRecv WITH MiniportHandle <- RecvHandle, at <- frames, Packets <- Frames
Device == INSTANCE PassthruDevice WITH at <- threads

ASSUME PartsAssumption == Recv!RecvAssumption /\ Device!DeviceAssumption

recvVars   == <<RecvHandle, halt, pool, frames, keepable, mine, late>>
deviceVars == <<MiniportCount, ControlDeviceState, NdisDeviceHandle, refused, threads>>
allVars    == <<vars, part, recvVars, deviceVars>>

MCInit ==
    /\ part \in {"adapt", "recv", "device"}
    /\ Init /\ Recv!Init /\ Device!Init

AdaptNext  == part = "adapt" /\ Next /\ UNCHANGED <<part, recvVars, deviceVars>>
RecvNext   == part = "recv" /\ Recv!Next /\ UNCHANGED <<part, vars, deviceVars>>
DeviceNext == part = "device" /\ Device!Next /\ UNCHANGED <<part, vars, recvVars>>

MCNext == AdaptNext \/ RecvNext \/ DeviceNext

MCSpec == MCInit /\ [][MCNext]_allVars

\* In its first state none of the models has a step that fairness is about,
\* so those that stay there are fair.
MCFairSpec == MCSpec /\ Fairness /\ Device!Fairness

FramesSafe == Recv!FramesSafe
DeviceSafe == Device!DeviceSafe

\* Whoever waits in passthru is let go: unbinds, power events, MPInitialize.
WaitersReturn == CallsReturn /\ Device!RegisterReturns

===============================================================================
