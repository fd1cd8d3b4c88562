--------------------------- MODULE Passthru_proof ---------------------------
(***************************************************************************)
(* Proofs about the models of passthru: PassthruAdapt, for any number of   *)
(* packets; PassthruRecv, for any number   *)
(* of packets and any pool; PassthruDevice, for any number of miniports.   *)
(***************************************************************************)
EXTENDS MCPassthru, CountingTheorems

-----------------------------------------------------------------------------
(* PassthruAdapt: the inductive invariant.                                 *)

\* Which states of the miniport, as NDIS has it, PtBindAdapter meets.
Binding ==
    /\ At("bind", "out") => im = "none"
    /\ At("bind", "init") => im # "none"
    /\ At("bind", "close") => im \in {"none", "failed"}
    /\ At("bind", "failed") => im \in {"none", "failed", "halted"}
    /\ At("bind", "done") => im # "none" \/ pc["unbind"] \in {"end", "done"}

\* How far MPInitialize and MPHalt are, and what they have left.
Initializing ==
    /\ im \in {"none", "pending"} <=> At("init", "out")
    /\ im = "initializing" <=>
          pc["init"] \in {"mp", "pt", "wake", "wake_failed", "set", "set_failed"}
    /\ im = "halting" <=> pc["halt"] \in {"close", "deref"}
    /\ im = "halted" <=> At("halt", "done")
    /\ MiniportHandle <=> pc["init"] \in {"mp", "pt", "wake", "set"} \/ im = "running"
    /\ im = "running" => MPDeviceState # "unset"
    /\ pc["init"] \in {"out", "mp"} => MPDeviceState = "unset"
    /\ pc["init"] \in {"pt", "wake", "set"} => MPDeviceState # "unset"
    /\ MiniportInitEvent <=> At("init", "done")
    /\ im = "pending" \/ pc["init"] \in {"mp", "pt", "wake", "wake_failed"} => MiniportInitPending
    /\ MiniportInitPending =>
          \/ im = "pending"
          \/ pc["init"] \in {"mp", "pt", "wake", "wake_failed"}
          \/ im = "none" /\ pc["bind"] \in {"close", "failed"}

\* Which of them PtUnbindAdapter meets, and where.
Unbinding ==
    /\ ~At("unbind", "out") => At("bind", "done")
    /\ At("unbind", "complete") => im = "running"
    /\ At("unbind", "check") => im \in {"pending", "initializing", "running", "failed"}
    /\ At("unbind", "wait") => im \in {"initializing", "running", "failed"}
    /\ At("unbind", "end") => \/ im \in {"none", "failed", "running"}
                              \/ pc["init"] \in {"set", "set_failed"}
    /\ At("unbind", "deinit") => \/ im \in {"running", "halting", "halted"}
                                 \/ At("init", "set")
    /\ At("unbind", "done") => im \in {"none", "failed", "halted"} \/ At("init", "set_failed")

\* Who has the binding and who has freed the ADAPT.
Memory ==
    /\ BindingHandle <=> /\ pc["bind"] \in {"init", "close", "done"}
                         /\ pc["halt"] \in {"out", "close"} /\ ~At("unbind", "done")
    /\ At("bind", "out") => memory = "none"
    /\ pc["bind"] \in {"init", "close"} => memory = "allocated"
    /\ At("bind", "done") => memory = IF At("unbind", "done") \/ At("halt", "done")
                                      THEN "freed" ELSE "allocated"
    /\ At("bind", "failed") /\ im # "none" => memory = "freed"

\* The references.
Counted ==
    /\ At("bind", "out") => RefCount = 0
    /\ memory = "allocated" =>
        /\ At("bind", "failed") => RefCount = 0
        /\ At("bind", "close") => RefCount = 1
        /\ At("bind", "init") => /\ im \in {"pending", "initializing", "failed"} => RefCount = 2
                                 /\ im = "running" \/ At("halt", "close") => RefCount = 3
                                 /\ At("halt", "deref") => RefCount = 2
                                 /\ im = "halted" => RefCount = 1
        /\ At("bind", "done") => /\ im = "running" \/ At("halt", "close") => RefCount = 2
                                 /\ ~(im = "running" \/ At("halt", "close")) => RefCount = 1

\* Where the request of NDIS is, and what PtPnPNetEventSetPower does meanwhile.
Requests ==
    /\ UnbindingInProcess <=> ~At("unbind", "out")
    /\ ~At("request", "out") => im = "running"
    /\ pc["request"] \notin {"out", "status"} => MPDeviceState = "D0"
    /\ ~At("power", "out") => /\ At("bind", "done") /\ At("unbind", "out")
                              /\ im \notin {"halting", "halted"}
    /\ At("power", "send") => At("request", "send") /\ PTDeviceState = "D0"
    /\ RequestInOnePlace
    /\ QueuedForPower
    /\ pc["power"] \in {"out", "complete", "send"} /\ PTDeviceState = "low" => ~OutstandingRequests

\* The places of a packet that is counted.
Below == {"send", "below", "completed", "count"}

\* How many packets are counted, which hold the miniport and the power-down up.
Sending ==
    /\ \A p \in Packets : pc[p] \notin {"out", "count"} => im = "running"
    /\ OutstandingSends = Cardinality(Where(pc, Packets, Below))
    /\ ~At("power", "sends") /\ PTDeviceState = "low" => OutstandingSends = 0

\* PtStatus is not in a binding that has been closed.
Indicating == ~At("indication", "out") => BindingHandle

\* Where the last media status is, unless it need not be told (lost): nothing but
\* PtStatus has looked at the power of the edges since it came.
Media ==
    lost \/ /\ im \in {"none", "pending"} => heard = "connect" /\ At("indication", "out")
            /\ At("indication", "pt") /\ MiniportHandle => MPDeviceState = "D0"
            /\ At("indication", "tell") /\ MiniportHandle => MPDeviceState = "D0"
            /\ At("indication", "else") /\ MiniportHandle => MPDeviceState = "low"
            /\ At("request", "status") =>
                  /\ At("indication", "out")
                  /\ MPDeviceState = "low" => StandingBy
                  /\ heard = IF StandingBy THEN LastIndicatedStatus ELSE LatestUnIndicateStatus
            /\ MiniportHandle /\ ~At("request", "status") /\ At("indication", "out") =>
                  heard = IF MPDeviceState = "low" THEN LatestUnIndicateStatus
                                                   ELSE LastIndicatedStatus

IInv ==
    /\ TypeOK
    /\ Binding /\ Initializing /\ Unbinding /\ Memory /\ Counted
    /\ Requests /\ Indicating /\ Sending /\ Media

\* The names of packets are none of calls.
LEMMA Distinct ==
  /\ \A t \in Calls : t \in Threads /\ t \notin Packets
  /\ \A p \in Packets : p \in Threads /\ p \notin Calls
  /\ "bind" \in Calls /\ "init" \in Calls /\ "unbind" \in Calls
  /\ "halt" \in Calls /\ "power" \in Calls /\ "request" \in Calls
  /\ "indication" \in Calls
  BY AdaptAssumption DEF Calls, Threads

-----------------------------------------------------------------------------
(* Every step keeps each part.  The parts on the binding, the miniport and  *)
(* the ADAPT need one another: how far one call is bounds the others.       *)

LEMMA StepBinding ==
  ASSUME TypeOK, Binding, Initializing, Unbinding, Memory, Counted, Requests, [Next]_vars
  PROVE  Binding'
  <1> USE TypeOK, Binding, Initializing, Unbinding, Memory, Requests, Distinct
          DEF TypeOK, Binding, Initializing, Unbinding, Memory, Requests, refs, init, life, power,
              work, told, media, Goto, At, PtReferenceAdapt, PtDereferenceAdapt, PowerEvent,
              Serving, RequestInOnePlace
  <1>1. CASE Bind
    <2>1. CASE BindOpens
      BY <2>1 DEF BindOpens
    <2>2. CASE BindFailsEarly
      BY <2>2 DEF BindFailsEarly
    <2>3. CASE BindSucceeds
      BY <2>3 DEF BindSucceeds
    <2>4. CASE BindFails
      BY <2>4 DEF BindFails
    <2>5. CASE BindCloses
      BY <2>5 DEF BindCloses
    <2> QED
      BY <1>1, <2>1, <2>2, <2>3, <2>4, <2>5 DEF Bind
  <1>2. CASE MPInitialize
    <2>1. CASE InitBegins
      BY <2>1 DEF InitBegins
    <2>2. CASE InitClears
      BY <2>2 DEF InitClears
    <2>3. CASE InitSets
      BY <2>3 DEF InitSets
    <2>4. CASE InitSetsFailed
      BY <2>4 DEF InitSetsFailed
    <2>5. CASE InitPowersMP
      BY <2>5 DEF InitPowersMP
    <2>6. CASE InitPowersPT
      BY <2>6 DEF InitPowersPT
    <2> QED
      BY <1>2, <2>1, <2>2, <2>3, <2>4, <2>5, <2>6 DEF MPInitialize
  <1>3. CASE HaltBegins \/ MPHalt
    <2>1. CASE HaltBegins
      BY <2>1 DEF HaltBegins
    <2>2. CASE HaltCloses
      BY <2>2 DEF HaltCloses
    <2>3. CASE HaltDerefs
      BY <2>3 DEF HaltDerefs
    <2> QED
      BY <1>3, <2>1, <2>2, <2>3 DEF MPHalt
  <1>4. CASE UnbindBegins \/ UnbindSteps
    <2>1. CASE UnbindBegins
      BY <2>1 DEF UnbindBegins
    <2>2. CASE UnbindCancels
      BY <2>2 DEF UnbindCancels
    <2>3. CASE UnbindGoesOn
      BY <2>3 DEF UnbindGoesOn
    <2>4. CASE UnbindDeinitializes
      BY <2>4 DEF UnbindDeinitializes
    <2>5. CASE UnbindDeinitialized
      BY <2>5 DEF UnbindDeinitialized
    <2>6. CASE UnbindFrees
      BY <2>6 DEF UnbindFrees
    <2>7. CASE QueuedCompletes("unbind")
      BY <2>7 DEF QueuedCompletes
    <2> QED
      BY <1>4, <2>1, <2>2, <2>3, <2>4, <2>5, <2>6, <2>7 DEF UnbindSteps
  <1>5. CASE RequestBegins \/ RequestSteps
    <2>1. CASE RequestBegins
      BY <2>1 DEF RequestBegins
    <2>2. CASE RequestQueues
      BY <2>2 DEF RequestQueues
    <2>3. CASE RequestFails
      BY <2>3 DEF RequestFails
    <2>4. CASE RequestGoes
      BY <2>4 DEF RequestGoes
    <2>5. CASE RequestPends
      BY <2>5 DEF RequestPends
    <2>6. CASE RequestCompletes
      BY <2>6 DEF RequestCompletes
    <2>7. CASE RequestReturns
      BY <2>7 DEF RequestReturns
    <2>8. CASE SetPowerTells
      BY <2>8 DEF SetPowerTells
    <2> QED
      BY <1>5, <2>1, <2>2, <2>3, <2>4, <2>5, <2>6, <2>7, <2>8 DEF RequestSteps
  <1>6. ASSUME NEW new \in States, SetPower(new) PROVE Binding'
    <2>1. CASE SetPower(new)
      BY <2>1 DEF SetPower
    <2> QED
      BY <1>6, <2>1
  <1>7. CASE PowersDown \/ PowersUp \/ PowerSteps
    <2>1. CASE PowersDown
      BY <2>1 DEF PowersDown
    <2>2. CASE PowersUp
      BY <2>2 DEF PowersUp
    <2>3. CASE SendsDrained
      BY <2>3 DEF SendsDrained
    <2>4. CASE RequestsDrained
      BY <2>4 DEF RequestsDrained
    <2>5. CASE QueuedCompletes("power")
      BY <2>5 DEF QueuedCompletes
    <2> QED
      BY <1>7, <2>1, <2>2, <2>3, <2>4, <2>5 DEF PowerSteps
  <1>8. ASSUME NEW p \in Packets, SendBegins(p) \/ SendSteps(p) PROVE Binding'
    <2>1. CASE SendBegins(p)
      BY <2>1 DEF SendBegins
    <2>2. CASE SendFails(p)
      BY <2>2 DEF SendFails
    <2>3. CASE SendCounts(p)
      BY <2>3 DEF SendCounts
    <2>4. CASE Sends(p)
      BY <2>4 DEF Sends
    <2>5. CASE SendCompletes(p)
      BY <2>5 DEF SendCompletes
    <2>6. CASE SendUncounts(p)
      BY <2>6 DEF SendUncounts
    <2> QED
      BY <1>8, <2>1, <2>2, <2>3, <2>4, <2>5, <2>6 DEF SendSteps
  <1>9. ASSUME NEW s \in Statuses, PtStatus(s) PROVE Binding'
    <2>1. CASE PtStatus(s)
      BY <2>1 DEF PtStatus
    <2> QED
      BY <1>9, <2>1
  <1>10. CASE UNCHANGED vars
    BY <1>10 DEF Binding, vars, refs, init, life, power, work, told, media, Goto, At
  <1>11. CASE StatusSteps
    <2>1. CASE StatusTestsMP
      BY <2>1 DEF StatusTestsMP
    <2>2. CASE StatusTestsPT
      BY <2>2 DEF StatusTestsPT
    <2>3. CASE StatusTells
      BY <2>3 DEF StatusTells
    <2>4. CASE StatusSaves
      BY <2>4 DEF StatusSaves
    <2> QED
      BY <1>11, <2>1, <2>2, <2>3, <2>4 DEF StatusSteps
  <1> QED
    BY <1>1, <1>2, <1>3, <1>4, <1>5, <1>6, <1>7, <1>8, <1>9, <1>10, <1>11 DEF Next

LEMMA StepInitializing ==
  ASSUME TypeOK, Binding, Initializing, Unbinding, Memory, Counted, Requests, [Next]_vars
  PROVE  Initializing'
  <1> USE TypeOK, Binding, Initializing, Unbinding, Memory, Requests, Distinct
          DEF TypeOK, Binding, Initializing, Unbinding, Memory, Requests, refs, init, life, power,
              work, told, media, Goto, At, PtReferenceAdapt, PtDereferenceAdapt, PowerEvent,
              Serving, RequestInOnePlace
  <1>1. CASE Bind
    <2>1. CASE BindOpens
      BY <2>1 DEF BindOpens
    <2>2. CASE BindFailsEarly
      BY <2>2 DEF BindFailsEarly
    <2>3. CASE BindSucceeds
      BY <2>3 DEF BindSucceeds
    <2>4. CASE BindFails
      BY <2>4 DEF BindFails
    <2>5. CASE BindCloses
      BY <2>5 DEF BindCloses
    <2> QED
      BY <1>1, <2>1, <2>2, <2>3, <2>4, <2>5 DEF Bind
  <1>2. CASE MPInitialize
    <2>1. CASE InitBegins
      BY <2>1 DEF InitBegins
    <2>2. CASE InitClears
      BY <2>2 DEF InitClears
    <2>3. CASE InitSets
      BY <2>3 DEF InitSets
    <2>4. CASE InitSetsFailed
      BY <2>4 DEF InitSetsFailed
    <2>5. CASE InitPowersMP
      BY <2>5 DEF InitPowersMP
    <2>6. CASE InitPowersPT
      BY <2>6 DEF InitPowersPT
    <2> QED
      BY <1>2, <2>1, <2>2, <2>3, <2>4, <2>5, <2>6 DEF MPInitialize
  <1>3. CASE HaltBegins \/ MPHalt
    <2>1. CASE HaltBegins
      BY <2>1 DEF HaltBegins
    <2>2. CASE HaltCloses
      BY <2>2 DEF HaltCloses
    <2>3. CASE HaltDerefs
      BY <2>3 DEF HaltDerefs
    <2> QED
      BY <1>3, <2>1, <2>2, <2>3 DEF MPHalt
  <1>4. CASE UnbindBegins \/ UnbindSteps
    <2>1. CASE UnbindBegins
      BY <2>1 DEF UnbindBegins
    <2>2. CASE UnbindCancels
      BY <2>2 DEF UnbindCancels
    <2>3. CASE UnbindGoesOn
      BY <2>3 DEF UnbindGoesOn
    <2>4. CASE UnbindDeinitializes
      BY <2>4 DEF UnbindDeinitializes
    <2>5. CASE UnbindDeinitialized
      BY <2>5 DEF UnbindDeinitialized
    <2>6. CASE UnbindFrees
      BY <2>6 DEF UnbindFrees
    <2>7. CASE QueuedCompletes("unbind")
      BY <2>7 DEF QueuedCompletes
    <2> QED
      BY <1>4, <2>1, <2>2, <2>3, <2>4, <2>5, <2>6, <2>7 DEF UnbindSteps
  <1>5. CASE RequestBegins \/ RequestSteps
    <2>1. CASE RequestBegins
      BY <2>1 DEF RequestBegins
    <2>2. CASE RequestQueues
      BY <2>2 DEF RequestQueues
    <2>3. CASE RequestFails
      BY <2>3 DEF RequestFails
    <2>4. CASE RequestGoes
      BY <2>4 DEF RequestGoes
    <2>5. CASE RequestPends
      BY <2>5 DEF RequestPends
    <2>6. CASE RequestCompletes
      BY <2>6 DEF RequestCompletes
    <2>7. CASE RequestReturns
      BY <2>7 DEF RequestReturns
    <2>8. CASE SetPowerTells
      BY <2>8 DEF SetPowerTells
    <2> QED
      BY <1>5, <2>1, <2>2, <2>3, <2>4, <2>5, <2>6, <2>7, <2>8 DEF RequestSteps
  <1>6. ASSUME NEW new \in States, SetPower(new) PROVE Initializing'
    <2>1. CASE SetPower(new)
      BY <1>6, <2>1 DEF SetPower, States
    <2> QED
      BY <1>6, <2>1
  <1>7. CASE PowersDown \/ PowersUp \/ PowerSteps
    <2>1. CASE PowersDown
      BY <2>1 DEF PowersDown
    <2>2. CASE PowersUp
      BY <2>2 DEF PowersUp
    <2>3. CASE SendsDrained
      BY <2>3 DEF SendsDrained
    <2>4. CASE RequestsDrained
      BY <2>4 DEF RequestsDrained
    <2>5. CASE QueuedCompletes("power")
      BY <2>5 DEF QueuedCompletes
    <2> QED
      BY <1>7, <2>1, <2>2, <2>3, <2>4, <2>5 DEF PowerSteps
  <1>8. ASSUME NEW p \in Packets, SendBegins(p) \/ SendSteps(p) PROVE Initializing'
    <2>1. CASE SendBegins(p)
      BY <2>1 DEF SendBegins
    <2>2. CASE SendFails(p)
      BY <2>2 DEF SendFails
    <2>3. CASE SendCounts(p)
      BY <2>3 DEF SendCounts
    <2>4. CASE Sends(p)
      BY <2>4 DEF Sends
    <2>5. CASE SendCompletes(p)
      BY <2>5 DEF SendCompletes
    <2>6. CASE SendUncounts(p)
      BY <2>6 DEF SendUncounts
    <2> QED
      BY <1>8, <2>1, <2>2, <2>3, <2>4, <2>5, <2>6 DEF SendSteps
  <1>9. ASSUME NEW s \in Statuses, PtStatus(s) PROVE Initializing'
    <2>1. CASE PtStatus(s)
      BY <2>1 DEF PtStatus
    <2> QED
      BY <1>9, <2>1
  <1>10. CASE UNCHANGED vars
    BY <1>10 DEF Initializing, vars, refs, init, life, power, work, told, media, Goto, At
  <1>11. CASE StatusSteps
    <2>1. CASE StatusTestsMP
      BY <2>1 DEF StatusTestsMP
    <2>2. CASE StatusTestsPT
      BY <2>2 DEF StatusTestsPT
    <2>3. CASE StatusTells
      BY <2>3 DEF StatusTells
    <2>4. CASE StatusSaves
      BY <2>4 DEF StatusSaves
    <2> QED
      BY <1>11, <2>1, <2>2, <2>3, <2>4 DEF StatusSteps
  <1> QED
    BY <1>1, <1>2, <1>3, <1>4, <1>5, <1>6, <1>7, <1>8, <1>9, <1>10, <1>11 DEF Next

LEMMA StepUnbinding ==
  ASSUME TypeOK, Binding, Initializing, Unbinding, Memory, Counted, Requests, [Next]_vars
  PROVE  Unbinding'
  <1> USE TypeOK, Binding, Initializing, Unbinding, Memory, Requests, Distinct
          DEF TypeOK, Binding, Initializing, Unbinding, Memory, Requests, refs, init, life, power,
              work, told, media, Goto, At, PtReferenceAdapt, PtDereferenceAdapt, PowerEvent,
              Serving, RequestInOnePlace
  <1>1. CASE Bind
    <2>1. CASE BindOpens
      BY <2>1 DEF BindOpens
    <2>2. CASE BindFailsEarly
      BY <2>2 DEF BindFailsEarly
    <2>3. CASE BindSucceeds
      BY <2>3 DEF BindSucceeds
    <2>4. CASE BindFails
      BY <2>4 DEF BindFails
    <2>5. CASE BindCloses
      BY <2>5 DEF BindCloses
    <2> QED
      BY <1>1, <2>1, <2>2, <2>3, <2>4, <2>5 DEF Bind
  <1>2. CASE MPInitialize
    <2>1. CASE InitBegins
      BY <2>1 DEF InitBegins
    <2>2. CASE InitClears
      BY <2>2 DEF InitClears
    <2>3. CASE InitSets
      BY <2>3 DEF InitSets
    <2>4. CASE InitSetsFailed
      BY <2>4 DEF InitSetsFailed
    <2>5. CASE InitPowersMP
      BY <2>5 DEF InitPowersMP
    <2>6. CASE InitPowersPT
      BY <2>6 DEF InitPowersPT
    <2> QED
      BY <1>2, <2>1, <2>2, <2>3, <2>4, <2>5, <2>6 DEF MPInitialize
  <1>3. CASE HaltBegins \/ MPHalt
    <2>1. CASE HaltBegins
      BY <2>1 DEF HaltBegins
    <2>2. CASE HaltCloses
      BY <2>2 DEF HaltCloses
    <2>3. CASE HaltDerefs
      BY <2>3 DEF HaltDerefs
    <2> QED
      BY <1>3, <2>1, <2>2, <2>3 DEF MPHalt
  <1>4. CASE UnbindBegins \/ UnbindSteps
    <2>1. CASE UnbindBegins
      BY <2>1 DEF UnbindBegins
    <2>2. CASE UnbindCancels
      BY <2>2 DEF UnbindCancels
    <2>3. CASE UnbindGoesOn
      BY <2>3 DEF UnbindGoesOn
    <2>4. CASE UnbindDeinitializes
      BY <2>4 DEF UnbindDeinitializes
    <2>5. CASE UnbindDeinitialized
      BY <2>5 DEF UnbindDeinitialized
    <2>6. CASE UnbindFrees
      BY <2>6 DEF UnbindFrees
    <2>7. CASE QueuedCompletes("unbind")
      BY <2>7 DEF QueuedCompletes
    <2> QED
      BY <1>4, <2>1, <2>2, <2>3, <2>4, <2>5, <2>6, <2>7 DEF UnbindSteps
  <1>5. CASE RequestBegins \/ RequestSteps
    <2>1. CASE RequestBegins
      BY <2>1 DEF RequestBegins
    <2>2. CASE RequestQueues
      BY <2>2 DEF RequestQueues
    <2>3. CASE RequestFails
      BY <2>3 DEF RequestFails
    <2>4. CASE RequestGoes
      BY <2>4 DEF RequestGoes
    <2>5. CASE RequestPends
      BY <2>5 DEF RequestPends
    <2>6. CASE RequestCompletes
      BY <2>6 DEF RequestCompletes
    <2>7. CASE RequestReturns
      BY <2>7 DEF RequestReturns
    <2>8. CASE SetPowerTells
      BY <2>8 DEF SetPowerTells
    <2> QED
      BY <1>5, <2>1, <2>2, <2>3, <2>4, <2>5, <2>6, <2>7, <2>8 DEF RequestSteps
  <1>6. ASSUME NEW new \in States, SetPower(new) PROVE Unbinding'
    <2>1. CASE SetPower(new)
      BY <2>1 DEF SetPower
    <2> QED
      BY <1>6, <2>1
  <1>7. CASE PowersDown \/ PowersUp \/ PowerSteps
    <2>1. CASE PowersDown
      BY <2>1 DEF PowersDown
    <2>2. CASE PowersUp
      BY <2>2 DEF PowersUp
    <2>3. CASE SendsDrained
      BY <2>3 DEF SendsDrained
    <2>4. CASE RequestsDrained
      BY <2>4 DEF RequestsDrained
    <2>5. CASE QueuedCompletes("power")
      BY <2>5 DEF QueuedCompletes
    <2> QED
      BY <1>7, <2>1, <2>2, <2>3, <2>4, <2>5 DEF PowerSteps
  <1>8. ASSUME NEW p \in Packets, SendBegins(p) \/ SendSteps(p) PROVE Unbinding'
    <2>1. CASE SendBegins(p)
      BY <2>1 DEF SendBegins
    <2>2. CASE SendFails(p)
      BY <2>2 DEF SendFails
    <2>3. CASE SendCounts(p)
      BY <2>3 DEF SendCounts
    <2>4. CASE Sends(p)
      BY <2>4 DEF Sends
    <2>5. CASE SendCompletes(p)
      BY <2>5 DEF SendCompletes
    <2>6. CASE SendUncounts(p)
      BY <2>6 DEF SendUncounts
    <2> QED
      BY <1>8, <2>1, <2>2, <2>3, <2>4, <2>5, <2>6 DEF SendSteps
  <1>9. ASSUME NEW s \in Statuses, PtStatus(s) PROVE Unbinding'
    <2>1. CASE PtStatus(s)
      BY <2>1 DEF PtStatus
    <2> QED
      BY <1>9, <2>1
  <1>10. CASE UNCHANGED vars
    BY <1>10 DEF Unbinding, vars, refs, init, life, power, work, told, media, Goto, At
  <1>11. CASE StatusSteps
    <2>1. CASE StatusTestsMP
      BY <2>1 DEF StatusTestsMP
    <2>2. CASE StatusTestsPT
      BY <2>2 DEF StatusTestsPT
    <2>3. CASE StatusTells
      BY <2>3 DEF StatusTells
    <2>4. CASE StatusSaves
      BY <2>4 DEF StatusSaves
    <2> QED
      BY <1>11, <2>1, <2>2, <2>3, <2>4 DEF StatusSteps
  <1> QED
    BY <1>1, <1>2, <1>3, <1>4, <1>5, <1>6, <1>7, <1>8, <1>9, <1>10, <1>11 DEF Next

LEMMA StepMemory ==
  ASSUME TypeOK, Binding, Initializing, Unbinding, Memory, Counted, Requests, [Next]_vars
  PROVE  Memory'
  <1> USE TypeOK, Binding, Initializing, Unbinding, Memory, Counted, Requests, Distinct
          DEF TypeOK, Binding, Initializing, Unbinding, Memory, Counted, Requests, refs, init, life,
              power, work, told, media, Goto, At, PtReferenceAdapt, PtDereferenceAdapt, PowerEvent,
              Serving, RequestInOnePlace
  <1>1. CASE Bind
    <2>1. CASE BindOpens
      BY <2>1 DEF BindOpens
    <2>2. CASE BindFailsEarly
      BY <2>2 DEF BindFailsEarly
    <2>3. CASE BindSucceeds
      BY <2>3 DEF BindSucceeds
    <2>4. CASE BindFails
      BY <2>4 DEF BindFails
    <2>5. CASE BindCloses
      BY <2>5 DEF BindCloses
    <2> QED
      BY <1>1, <2>1, <2>2, <2>3, <2>4, <2>5 DEF Bind
  <1>2. CASE MPInitialize
    <2>1. CASE InitBegins
      BY <2>1 DEF InitBegins
    <2>2. CASE InitClears
      BY <2>2 DEF InitClears
    <2>3. CASE InitSets
      BY <2>3 DEF InitSets
    <2>4. CASE InitSetsFailed
      BY <2>4 DEF InitSetsFailed
    <2>5. CASE InitPowersMP
      BY <2>5 DEF InitPowersMP
    <2>6. CASE InitPowersPT
      BY <2>6 DEF InitPowersPT
    <2> QED
      BY <1>2, <2>1, <2>2, <2>3, <2>4, <2>5, <2>6 DEF MPInitialize
  <1>3. CASE HaltBegins \/ MPHalt
    <2>1. CASE HaltBegins
      BY <2>1 DEF HaltBegins
    <2>2. CASE HaltCloses
      BY <2>2 DEF HaltCloses
    <2>3. CASE HaltDerefs
      BY <2>3 DEF HaltDerefs
    <2> QED
      BY <1>3, <2>1, <2>2, <2>3 DEF MPHalt
  <1>4. CASE UnbindBegins \/ UnbindSteps
    <2>1. CASE UnbindBegins
      BY <2>1 DEF UnbindBegins
    <2>2. CASE UnbindCancels
      BY <2>2 DEF UnbindCancels
    <2>3. CASE UnbindGoesOn
      BY <2>3 DEF UnbindGoesOn
    <2>4. CASE UnbindDeinitializes
      BY <2>4 DEF UnbindDeinitializes
    <2>5. CASE UnbindDeinitialized
      BY <2>5 DEF UnbindDeinitialized
    <2>6. CASE UnbindFrees
      BY <2>6 DEF UnbindFrees
    <2>7. CASE QueuedCompletes("unbind")
      BY <2>7 DEF QueuedCompletes
    <2> QED
      BY <1>4, <2>1, <2>2, <2>3, <2>4, <2>5, <2>6, <2>7 DEF UnbindSteps
  <1>5. CASE RequestBegins \/ RequestSteps
    <2>1. CASE RequestBegins
      BY <2>1 DEF RequestBegins
    <2>2. CASE RequestQueues
      BY <2>2 DEF RequestQueues
    <2>3. CASE RequestFails
      BY <2>3 DEF RequestFails
    <2>4. CASE RequestGoes
      BY <2>4 DEF RequestGoes
    <2>5. CASE RequestPends
      BY <2>5 DEF RequestPends
    <2>6. CASE RequestCompletes
      BY <2>6 DEF RequestCompletes
    <2>7. CASE RequestReturns
      BY <2>7 DEF RequestReturns
    <2>8. CASE SetPowerTells
      BY <2>8 DEF SetPowerTells
    <2> QED
      BY <1>5, <2>1, <2>2, <2>3, <2>4, <2>5, <2>6, <2>7, <2>8 DEF RequestSteps
  <1>6. ASSUME NEW new \in States, SetPower(new) PROVE Memory'
    <2>1. CASE SetPower(new)
      BY <2>1 DEF SetPower
    <2> QED
      BY <1>6, <2>1
  <1>7. CASE PowersDown \/ PowersUp \/ PowerSteps
    <2>1. CASE PowersDown
      BY <2>1 DEF PowersDown
    <2>2. CASE PowersUp
      BY <2>2 DEF PowersUp
    <2>3. CASE SendsDrained
      BY <2>3 DEF SendsDrained
    <2>4. CASE RequestsDrained
      BY <2>4 DEF RequestsDrained
    <2>5. CASE QueuedCompletes("power")
      BY <2>5 DEF QueuedCompletes
    <2> QED
      BY <1>7, <2>1, <2>2, <2>3, <2>4, <2>5 DEF PowerSteps
  <1>8. ASSUME NEW p \in Packets, SendBegins(p) \/ SendSteps(p) PROVE Memory'
    <2>1. CASE SendBegins(p)
      BY <2>1 DEF SendBegins
    <2>2. CASE SendFails(p)
      BY <2>2 DEF SendFails
    <2>3. CASE SendCounts(p)
      BY <2>3 DEF SendCounts
    <2>4. CASE Sends(p)
      BY <2>4 DEF Sends
    <2>5. CASE SendCompletes(p)
      BY <2>5 DEF SendCompletes
    <2>6. CASE SendUncounts(p)
      BY <2>6 DEF SendUncounts
    <2> QED
      BY <1>8, <2>1, <2>2, <2>3, <2>4, <2>5, <2>6 DEF SendSteps
  <1>9. ASSUME NEW s \in Statuses, PtStatus(s) PROVE Memory'
    <2>1. CASE PtStatus(s)
      BY <2>1 DEF PtStatus
    <2> QED
      BY <1>9, <2>1
  <1>10. CASE UNCHANGED vars
    BY <1>10 DEF Memory, vars, refs, init, life, power, work, told, media, Goto, At
  <1>11. CASE StatusSteps
    <2>1. CASE StatusTestsMP
      BY <2>1 DEF StatusTestsMP
    <2>2. CASE StatusTestsPT
      BY <2>2 DEF StatusTestsPT
    <2>3. CASE StatusTells
      BY <2>3 DEF StatusTells
    <2>4. CASE StatusSaves
      BY <2>4 DEF StatusSaves
    <2> QED
      BY <1>11, <2>1, <2>2, <2>3, <2>4 DEF StatusSteps
  <1> QED
    BY <1>1, <1>2, <1>3, <1>4, <1>5, <1>6, <1>7, <1>8, <1>9, <1>10, <1>11 DEF Next

\* A reference is taken and given back with the step that IInv says it is for.
LEMMA StepCounted ==
  ASSUME TypeOK, Binding, Initializing, Unbinding, Memory, Counted, Requests, [Next]_vars
  PROVE  Counted'
  <1> USE TypeOK, Binding, Initializing, Unbinding, Memory, Counted, Requests, Distinct
          DEF TypeOK, Binding, Initializing, Unbinding, Memory, Counted, Requests, refs, init, life,
              power, work, told, media, Goto, At, PtReferenceAdapt, PtDereferenceAdapt, PowerEvent,
              Serving, AllUp
  <1>1. CASE Bind
    <2>1. CASE BindOpens
      BY <2>1 DEF BindOpens
    <2>2. CASE BindFailsEarly
      BY <2>2 DEF BindFailsEarly
    <2>3. CASE BindSucceeds
      BY <2>3 DEF BindSucceeds
    <2>4. CASE BindFails
      BY <2>4 DEF BindFails
    <2>5. CASE BindCloses
      BY <2>5 DEF BindCloses
    <2> QED
      BY <1>1, <2>1, <2>2, <2>3, <2>4, <2>5 DEF Bind
  <1>2. CASE MPInitialize
    <2>1. CASE InitBegins
      BY <2>1 DEF InitBegins
    <2>2. CASE InitClears
      BY <2>2 DEF InitClears
    <2>3. CASE InitSets
      BY <2>3 DEF InitSets
    <2>4. CASE InitSetsFailed
      BY <2>4 DEF InitSetsFailed
    <2>5. CASE InitPowersMP
      BY <2>5 DEF InitPowersMP
    <2>6. CASE InitPowersPT
      BY <2>6 DEF InitPowersPT
    <2> QED
      BY <1>2, <2>1, <2>2, <2>3, <2>4, <2>5, <2>6 DEF MPInitialize
  <1>3. CASE HaltBegins \/ MPHalt
    <2>1. CASE HaltBegins
      BY <2>1 DEF HaltBegins
    <2>2. CASE HaltCloses
      BY <2>2 DEF HaltCloses
    <2>3. CASE HaltDerefs
      BY <2>3 DEF HaltDerefs
    <2> QED
      BY <1>3, <2>1, <2>2, <2>3 DEF MPHalt
  <1>4. CASE UnbindBegins \/ UnbindSteps
    <2>1. CASE UnbindBegins
      BY <2>1 DEF UnbindBegins
    <2>2. CASE UnbindCancels
      BY <2>2 DEF UnbindCancels
    <2>3. CASE UnbindGoesOn
      BY <2>3 DEF UnbindGoesOn
    <2>4. CASE UnbindDeinitializes
      BY <2>4 DEF UnbindDeinitializes
    <2>5. CASE UnbindDeinitialized
      BY <2>5 DEF UnbindDeinitialized
    <2>6. CASE UnbindFrees
      BY <2>6 DEF UnbindFrees
    <2>7. CASE QueuedCompletes("unbind")
      BY <2>7 DEF QueuedCompletes
    <2> QED
      BY <1>4, <2>1, <2>2, <2>3, <2>4, <2>5, <2>6, <2>7 DEF UnbindSteps
  <1>5. CASE RequestBegins \/ RequestSteps
    <2>1. CASE RequestBegins
      BY <2>1 DEF RequestBegins
    <2>2. CASE RequestQueues
      BY <2>2 DEF RequestQueues
    <2>3. CASE RequestFails
      BY <2>3 DEF RequestFails
    <2>4. CASE RequestGoes
      BY <2>4 DEF RequestGoes
    <2>5. CASE RequestPends
      BY <2>5 DEF RequestPends
    <2>6. CASE RequestCompletes
      BY <2>6 DEF RequestCompletes
    <2>7. CASE RequestReturns
      BY <2>7 DEF RequestReturns
    <2>8. CASE SetPowerTells
      BY <2>8 DEF SetPowerTells
    <2> QED
      BY <1>5, <2>1, <2>2, <2>3, <2>4, <2>5, <2>6, <2>7, <2>8 DEF RequestSteps
  <1>6. ASSUME NEW new \in States, SetPower(new) PROVE Counted'
    <2>1. CASE SetPower(new)
      BY <2>1 DEF SetPower
    <2> QED
      BY <1>6, <2>1
  <1>7. CASE PowersDown \/ PowersUp \/ PowerSteps
    <2>1. CASE PowersDown
      BY <2>1 DEF PowersDown
    <2>2. CASE PowersUp
      BY <2>2 DEF PowersUp
    <2>3. CASE SendsDrained
      BY <2>3 DEF SendsDrained
    <2>4. CASE RequestsDrained
      BY <2>4 DEF RequestsDrained
    <2>5. CASE QueuedCompletes("power")
      BY <2>5 DEF QueuedCompletes
    <2> QED
      BY <1>7, <2>1, <2>2, <2>3, <2>4, <2>5 DEF PowerSteps
  <1>8. ASSUME NEW p \in Packets, SendBegins(p) \/ SendSteps(p) PROVE Counted'
    <2>1. CASE SendBegins(p)
      BY <2>1 DEF SendBegins
    <2>2. CASE SendFails(p)
      BY <2>2 DEF SendFails
    <2>3. CASE SendCounts(p)
      BY <2>3 DEF SendCounts
    <2>4. CASE Sends(p)
      BY <2>4 DEF Sends
    <2>5. CASE SendCompletes(p)
      BY <2>5 DEF SendCompletes
    <2>6. CASE SendUncounts(p)
      BY <2>6 DEF SendUncounts
    <2> QED
      BY <1>8, <2>1, <2>2, <2>3, <2>4, <2>5, <2>6 DEF SendSteps
  <1>9. ASSUME NEW s \in Statuses, PtStatus(s) PROVE Counted'
    <2>1. CASE PtStatus(s)
      BY <2>1 DEF PtStatus
    <2> QED
      BY <1>9, <2>1
  <1>10. CASE UNCHANGED vars
    BY <1>10 DEF Counted, vars, refs, init, life, power, work, told, media, Goto, At
  <1>11. CASE StatusSteps
    <2>1. CASE StatusTestsMP
      BY <2>1 DEF StatusTestsMP
    <2>2. CASE StatusTestsPT
      BY <2>2 DEF StatusTestsPT
    <2>3. CASE StatusTells
      BY <2>3 DEF StatusTells
    <2>4. CASE StatusSaves
      BY <2>4 DEF StatusSaves
    <2> QED
      BY <1>11, <2>1, <2>2, <2>3, <2>4 DEF StatusSteps
  <1> QED
    BY <1>1, <1>2, <1>3, <1>4, <1>5, <1>6, <1>7, <1>8, <1>9, <1>10, <1>11 DEF Next

\* The request and the power states: PtPnPNetEventSetPower is never in a binding
\* that is being undone, and a request waits in one place.
LEMMA StepRequests ==
  ASSUME TypeOK, Binding, Initializing, Unbinding, Memory, Counted, Requests, Sending, [Next]_vars
  PROVE  Requests'
  <1> USE TypeOK, Binding, Initializing, Unbinding, Requests, Distinct
          DEF TypeOK, Binding, Initializing, Unbinding, Requests, RequestInOnePlace, QueuedForPower,
              States, refs, init, life, power, work, told, media, Goto, At, PtReferenceAdapt,
              PtDereferenceAdapt, PowerEvent, Serving, AllUp
  <1>1. CASE Bind
    <2>1. CASE BindOpens
      BY <2>1 DEF BindOpens
    <2>2. CASE BindFailsEarly
      BY <2>2 DEF BindFailsEarly
    <2>3. CASE BindSucceeds
      BY <2>3 DEF BindSucceeds
    <2>4. CASE BindFails
      BY <2>4 DEF BindFails
    <2>5. CASE BindCloses
      BY <2>5 DEF BindCloses
    <2> QED
      BY <1>1, <2>1, <2>2, <2>3, <2>4, <2>5 DEF Bind
  <1>2. CASE MPInitialize
    <2>1. CASE InitBegins
      BY <2>1 DEF InitBegins
    <2>2. CASE InitClears
      BY <2>2 DEF InitClears
    <2>3. CASE InitSets
      BY <2>3 DEF InitSets
    <2>4. CASE InitSetsFailed
      BY <2>4 DEF InitSetsFailed
    <2>5. CASE InitPowersMP
      BY <2>5 DEF InitPowersMP
    <2>6. CASE InitPowersPT
      BY <2>6 DEF InitPowersPT
    <2> QED
      BY <1>2, <2>1, <2>2, <2>3, <2>4, <2>5, <2>6 DEF MPInitialize
  <1>3. CASE HaltBegins \/ MPHalt
    <2>1. CASE HaltBegins
      BY <2>1 DEF HaltBegins
    <2>2. CASE HaltCloses
      BY <2>2 DEF HaltCloses
    <2>3. CASE HaltDerefs
      BY <2>3 DEF HaltDerefs
    <2> QED
      BY <1>3, <2>1, <2>2, <2>3 DEF MPHalt
  <1>4. CASE UnbindBegins \/ UnbindSteps
    <2>1. CASE UnbindBegins
      BY <2>1 DEF UnbindBegins
    <2>2. CASE UnbindCancels
      BY <2>2 DEF UnbindCancels
    <2>3. CASE UnbindGoesOn
      BY <2>3 DEF UnbindGoesOn
    <2>4. CASE UnbindDeinitializes
      BY <2>4 DEF UnbindDeinitializes
    <2>5. CASE UnbindDeinitialized
      BY <2>5 DEF UnbindDeinitialized
    <2>6. CASE UnbindFrees
      BY <2>6 DEF UnbindFrees
    <2>7. CASE QueuedCompletes("unbind")
      BY <2>7 DEF QueuedCompletes
    <2> QED
      BY <1>4, <2>1, <2>2, <2>3, <2>4, <2>5, <2>6, <2>7 DEF UnbindSteps
  <1>5. CASE RequestBegins \/ RequestSteps
    <2>1. CASE RequestBegins
      BY <2>1 DEF RequestBegins
    <2>2. CASE RequestQueues
      BY <2>2 DEF RequestQueues
    <2>3. CASE RequestFails
      BY <2>3 DEF RequestFails
    <2>4. CASE RequestGoes
      BY <2>4 DEF RequestGoes
    <2>5. CASE RequestPends
      BY <2>5 DEF RequestPends
    <2>6. CASE RequestCompletes
      BY <2>6 DEF RequestCompletes
    <2>7. CASE RequestReturns
      BY <2>7 DEF RequestReturns
    <2>8. CASE SetPowerTells
      BY <2>8 DEF SetPowerTells
    <2> QED
      BY <1>5, <2>1, <2>2, <2>3, <2>4, <2>5, <2>6, <2>7, <2>8 DEF RequestSteps
  <1>6. ASSUME NEW new \in States, SetPower(new) PROVE Requests'
    <2>1. CASE SetPower(new)
      BY <2>1 DEF SetPower
    <2> QED
      BY <1>6, <2>1
  <1>7. CASE PowersDown \/ PowersUp \/ PowerSteps
    <2>1. CASE PowersDown
      BY <2>1 DEF PowersDown
    <2>2. CASE PowersUp
      BY <2>2 DEF PowersUp
    <2>3. CASE SendsDrained
      BY <2>3 DEF SendsDrained
    <2>4. CASE RequestsDrained
      BY <2>4 DEF RequestsDrained
    <2>5. CASE QueuedCompletes("power")
      BY <2>5 DEF QueuedCompletes
    <2> QED
      BY <1>7, <2>1, <2>2, <2>3, <2>4, <2>5 DEF PowerSteps
  <1>8. ASSUME NEW p \in Packets, SendBegins(p) \/ SendSteps(p) PROVE Requests'
    <2>1. CASE SendBegins(p)
      BY <2>1 DEF SendBegins
    <2>2. CASE SendFails(p)
      BY <2>2 DEF SendFails
    <2>3. CASE SendCounts(p)
      BY <2>3 DEF SendCounts
    <2>4. CASE Sends(p)
      BY <2>4 DEF Sends
    <2>5. CASE SendCompletes(p)
      BY <2>5 DEF SendCompletes
    <2>6. CASE SendUncounts(p)
      BY <2>6 DEF SendUncounts
    <2> QED
      BY <1>8, <2>1, <2>2, <2>3, <2>4, <2>5, <2>6 DEF SendSteps
  <1>9. ASSUME NEW s \in Statuses, PtStatus(s) PROVE Requests'
    <2>1. CASE PtStatus(s)
      BY <2>1 DEF PtStatus
    <2> QED
      BY <1>9, <2>1
  <1>10. CASE UNCHANGED vars
    BY <1>10
       DEF Requests, RequestInOnePlace, QueuedForPower, vars, refs, init, life, power, work, told,
           media, Goto, At
  <1>11. CASE StatusSteps
    <2>1. CASE StatusTestsMP
      BY <2>1 DEF StatusTestsMP
    <2>2. CASE StatusTestsPT
      BY <2>2 DEF StatusTestsPT
    <2>3. CASE StatusTells
      BY <2>3 DEF StatusTells
    <2>4. CASE StatusSaves
      BY <2>4 DEF StatusSaves
    <2> QED
      BY <1>11, <2>1, <2>2, <2>3, <2>4 DEF StatusSteps
  <1> QED
    BY <1>1, <1>2, <1>3, <1>4, <1>5, <1>6, <1>7, <1>8, <1>9, <1>10, <1>11 DEF Next

\* The media status is told, or lost is set.
LEMMA StepMedia ==
  ASSUME TypeOK, Binding, Initializing, Unbinding, Memory, Counted, Requests, Media, [Next]_vars
  PROVE  Media'
  <1> USE TypeOK, Binding, Initializing, Requests, Media, Distinct
          DEF TypeOK, Binding, Initializing, Requests, Media, RequestInOnePlace, States, refs, init,
              life, power, work, told, media, Goto, At, PtReferenceAdapt, PtDereferenceAdapt,
              PowerEvent, Serving, AllUp
  <1>1. CASE Bind
    <2>1. CASE BindOpens
      BY <2>1 DEF BindOpens
    <2>2. CASE BindFailsEarly
      BY <2>2 DEF BindFailsEarly
    <2>3. CASE BindSucceeds
      BY <2>3 DEF BindSucceeds
    <2>4. CASE BindFails
      BY <2>4 DEF BindFails
    <2>5. CASE BindCloses
      BY <2>5 DEF BindCloses
    <2> QED
      BY <1>1, <2>1, <2>2, <2>3, <2>4, <2>5 DEF Bind
  <1>2. CASE MPInitialize
    <2>1. CASE InitBegins
      BY <2>1 DEF InitBegins
    <2>2. CASE InitClears
      BY <2>2 DEF InitClears
    <2>3. CASE InitSets
      BY <2>3 DEF InitSets
    <2>4. CASE InitSetsFailed
      BY <2>4 DEF InitSetsFailed
    <2>5. CASE InitPowersMP
      BY <2>5 DEF InitPowersMP
    <2>6. CASE InitPowersPT
      BY <2>6 DEF InitPowersPT
    <2> QED
      BY <1>2, <2>1, <2>2, <2>3, <2>4, <2>5, <2>6 DEF MPInitialize
  <1>3. CASE HaltBegins \/ MPHalt
    <2>1. CASE HaltBegins
      BY <2>1 DEF HaltBegins
    <2>2. CASE HaltCloses
      BY <2>2 DEF HaltCloses
    <2>3. CASE HaltDerefs
      BY <2>3 DEF HaltDerefs
    <2> QED
      BY <1>3, <2>1, <2>2, <2>3 DEF MPHalt
  <1>4. CASE UnbindBegins \/ UnbindSteps
    <2>1. CASE UnbindBegins
      BY <2>1 DEF UnbindBegins
    <2>2. CASE UnbindCancels
      BY <2>2 DEF UnbindCancels
    <2>3. CASE UnbindGoesOn
      BY <2>3 DEF UnbindGoesOn
    <2>4. CASE UnbindDeinitializes
      BY <2>4 DEF UnbindDeinitializes
    <2>5. CASE UnbindDeinitialized
      BY <2>5 DEF UnbindDeinitialized
    <2>6. CASE UnbindFrees
      BY <2>6 DEF UnbindFrees
    <2>7. CASE QueuedCompletes("unbind")
      BY <2>7 DEF QueuedCompletes
    <2> QED
      BY <1>4, <2>1, <2>2, <2>3, <2>4, <2>5, <2>6, <2>7 DEF UnbindSteps
  <1>5. CASE RequestBegins \/ RequestSteps
    <2>1. CASE RequestBegins
      BY <2>1 DEF RequestBegins
    <2>2. CASE RequestQueues
      BY <2>2 DEF RequestQueues
    <2>3. CASE RequestFails
      BY <2>3 DEF RequestFails
    <2>4. CASE RequestGoes
      BY <2>4 DEF RequestGoes
    <2>5. CASE RequestPends
      BY <2>5 DEF RequestPends
    <2>6. CASE RequestCompletes
      BY <2>6 DEF RequestCompletes
    <2>7. CASE RequestReturns
      BY <2>7 DEF RequestReturns
    <2>8. CASE SetPowerTells
      BY <2>8 DEF SetPowerTells
    <2> QED
      BY <1>5, <2>1, <2>2, <2>3, <2>4, <2>5, <2>6, <2>7, <2>8 DEF RequestSteps
  <1>6. ASSUME NEW new \in States, SetPower(new) PROVE Media'
    <2>1. CASE SetPower(new)
      BY <2>1 DEF SetPower
    <2> QED
      BY <1>6, <2>1
  <1>7. CASE PowersDown \/ PowersUp \/ PowerSteps
    <2>1. CASE PowersDown
      BY <2>1 DEF PowersDown
    <2>2. CASE PowersUp
      BY <2>2 DEF PowersUp
    <2>3. CASE SendsDrained
      BY <2>3 DEF SendsDrained
    <2>4. CASE RequestsDrained
      BY <2>4 DEF RequestsDrained
    <2>5. CASE QueuedCompletes("power")
      BY <2>5 DEF QueuedCompletes
    <2> QED
      BY <1>7, <2>1, <2>2, <2>3, <2>4, <2>5 DEF PowerSteps
  <1>8. ASSUME NEW p \in Packets, SendBegins(p) \/ SendSteps(p) PROVE Media'
    <2>1. CASE SendBegins(p)
      BY <2>1 DEF SendBegins
    <2>2. CASE SendFails(p)
      BY <2>2 DEF SendFails
    <2>3. CASE SendCounts(p)
      BY <2>3 DEF SendCounts
    <2>4. CASE Sends(p)
      BY <2>4 DEF Sends
    <2>5. CASE SendCompletes(p)
      BY <2>5 DEF SendCompletes
    <2>6. CASE SendUncounts(p)
      BY <2>6 DEF SendUncounts
    <2> QED
      BY <1>8, <2>1, <2>2, <2>3, <2>4, <2>5, <2>6 DEF SendSteps
  <1>9. ASSUME NEW s \in Statuses, PtStatus(s) PROVE Media'
    <2>1. CASE PtStatus(s)
      BY <2>1 DEF PtStatus
    <2> QED
      BY <1>9, <2>1
  <1>10. CASE UNCHANGED vars
    BY <1>10 DEF Media, vars, refs, init, life, power, work, told, media, Goto, At
  <1>11. CASE StatusSteps
    <2>1. CASE StatusTestsMP
      BY <2>1 DEF StatusTestsMP
    <2>2. CASE StatusTestsPT
      BY <2>2 DEF StatusTestsPT
    <2>3. CASE StatusTells
      BY <2>3 DEF StatusTells
    <2>4. CASE StatusSaves
      BY <2>4 DEF StatusSaves
    <2> QED
      BY <1>11, <2>1, <2>2, <2>3, <2>4 DEF StatusSteps
  <1> QED
    BY <1>1, <1>2, <1>3, <1>4, <1>5, <1>6, <1>7, <1>8, <1>9, <1>10, <1>11 DEF Next

\* PtStatus has a binding as long as it runs.
LEMMA StepIndicating ==
  ASSUME TypeOK, Binding, Initializing, Unbinding, Memory, Counted, Requests, Indicating, [Next]_vars
  PROVE  Indicating'
  <1> USE TypeOK, Binding, Initializing, Unbinding, Memory, Indicating, Distinct
          DEF TypeOK, Binding, Initializing, Unbinding, Memory, Indicating, refs, init, life, power,
              work, told, media, Goto, At, PtReferenceAdapt, PtDereferenceAdapt, NothingBelow
  <1>1. CASE Bind
    <2>1. CASE BindOpens
      BY <2>1 DEF BindOpens
    <2>2. CASE BindFailsEarly
      BY <2>2 DEF BindFailsEarly
    <2>3. CASE BindSucceeds
      BY <2>3 DEF BindSucceeds
    <2>4. CASE BindFails
      BY <2>4 DEF BindFails
    <2>5. CASE BindCloses
      BY <2>5 DEF BindCloses
    <2> QED
      BY <1>1, <2>1, <2>2, <2>3, <2>4, <2>5 DEF Bind
  <1>2. CASE MPInitialize
    <2>1. CASE InitBegins
      BY <2>1 DEF InitBegins
    <2>2. CASE InitClears
      BY <2>2 DEF InitClears
    <2>3. CASE InitSets
      BY <2>3 DEF InitSets
    <2>4. CASE InitSetsFailed
      BY <2>4 DEF InitSetsFailed
    <2>5. CASE InitPowersMP
      BY <2>5 DEF InitPowersMP
    <2>6. CASE InitPowersPT
      BY <2>6 DEF InitPowersPT
    <2> QED
      BY <1>2, <2>1, <2>2, <2>3, <2>4, <2>5, <2>6 DEF MPInitialize
  <1>3. CASE HaltBegins \/ MPHalt
    <2>1. CASE HaltBegins
      BY <2>1 DEF HaltBegins
    <2>2. CASE HaltCloses
      BY <2>2 DEF HaltCloses
    <2>3. CASE HaltDerefs
      BY <2>3 DEF HaltDerefs
    <2> QED
      BY <1>3, <2>1, <2>2, <2>3 DEF MPHalt
  <1>4. CASE UnbindBegins \/ UnbindSteps
    <2>1. CASE UnbindBegins
      BY <2>1 DEF UnbindBegins
    <2>2. CASE UnbindCancels
      BY <2>2 DEF UnbindCancels
    <2>3. CASE UnbindGoesOn
      BY <2>3 DEF UnbindGoesOn
    <2>4. CASE UnbindDeinitializes
      BY <2>4 DEF UnbindDeinitializes
    <2>5. CASE UnbindDeinitialized
      BY <2>5 DEF UnbindDeinitialized
    <2>6. CASE UnbindFrees
      BY <2>6 DEF UnbindFrees
    <2>7. CASE QueuedCompletes("unbind")
      BY <2>7 DEF QueuedCompletes
    <2> QED
      BY <1>4, <2>1, <2>2, <2>3, <2>4, <2>5, <2>6, <2>7 DEF UnbindSteps
  <1>5. CASE RequestBegins \/ RequestSteps
    <2>1. CASE RequestBegins
      BY <2>1 DEF RequestBegins
    <2>2. CASE RequestQueues
      BY <2>2 DEF RequestQueues
    <2>3. CASE RequestFails
      BY <2>3 DEF RequestFails
    <2>4. CASE RequestGoes
      BY <2>4 DEF RequestGoes
    <2>5. CASE RequestPends
      BY <2>5 DEF RequestPends
    <2>6. CASE RequestCompletes
      BY <2>6 DEF RequestCompletes
    <2>7. CASE RequestReturns
      BY <2>7 DEF RequestReturns
    <2>8. CASE SetPowerTells
      BY <2>8 DEF SetPowerTells
    <2> QED
      BY <1>5, <2>1, <2>2, <2>3, <2>4, <2>5, <2>6, <2>7, <2>8 DEF RequestSteps
  <1>6. ASSUME NEW new \in States, SetPower(new) PROVE Indicating'
    <2>1. CASE SetPower(new)
      BY <2>1 DEF SetPower
    <2> QED
      BY <1>6, <2>1
  <1>7. CASE PowersDown \/ PowersUp \/ PowerSteps
    <2>1. CASE PowersDown
      BY <2>1 DEF PowersDown
    <2>2. CASE PowersUp
      BY <2>2 DEF PowersUp
    <2>3. CASE SendsDrained
      BY <2>3 DEF SendsDrained
    <2>4. CASE RequestsDrained
      BY <2>4 DEF RequestsDrained
    <2>5. CASE QueuedCompletes("power")
      BY <2>5 DEF QueuedCompletes
    <2> QED
      BY <1>7, <2>1, <2>2, <2>3, <2>4, <2>5 DEF PowerSteps
  <1>8. ASSUME NEW p \in Packets, SendBegins(p) \/ SendSteps(p) PROVE Indicating'
    <2>1. CASE SendBegins(p)
      BY <2>1 DEF SendBegins
    <2>2. CASE SendFails(p)
      BY <2>2 DEF SendFails
    <2>3. CASE SendCounts(p)
      BY <2>3 DEF SendCounts
    <2>4. CASE Sends(p)
      BY <2>4 DEF Sends
    <2>5. CASE SendCompletes(p)
      BY <2>5 DEF SendCompletes
    <2>6. CASE SendUncounts(p)
      BY <2>6 DEF SendUncounts
    <2> QED
      BY <1>8, <2>1, <2>2, <2>3, <2>4, <2>5, <2>6 DEF SendSteps
  <1>9. ASSUME NEW s \in Statuses, PtStatus(s) PROVE Indicating'
    <2>1. CASE PtStatus(s)
      BY <2>1 DEF PtStatus
    <2> QED
      BY <1>9, <2>1
  <1>10. CASE UNCHANGED vars
    BY <1>10 DEF Indicating, vars, refs, init, life, power, work, told, media, Goto, At
  <1>11. CASE StatusSteps
    <2>1. CASE StatusTestsMP
      BY <2>1 DEF StatusTestsMP
    <2>2. CASE StatusTestsPT
      BY <2>2 DEF StatusTestsPT
    <2>3. CASE StatusTells
      BY <2>3 DEF StatusTells
    <2>4. CASE StatusSaves
      BY <2>4 DEF StatusSaves
    <2> QED
      BY <1>11, <2>1, <2>2, <2>3, <2>4 DEF StatusSteps
  <1> QED
    BY <1>1, <1>2, <1>3, <1>4, <1>5, <1>6, <1>7, <1>8, <1>9, <1>10, <1>11 DEF Next

\* The packets that are counted stay as many when no packet moves,
LEMMA NoPacketMoves ==
  ASSUME \A p \in Packets : pc'[p] = pc[p]
  PROVE  Where(pc', Packets, Below) = Where(pc, Packets, Below)
  BY DEF Where

\* and when one does, they change by that one.
LEMMA PacketMoves ==
  ASSUME NEW p \in Packets, NEW w, Goto(p, w), DOMAIN pc = Threads
  PROVE  Moved(Cardinality(Where(pc, Packets, Below)), Cardinality(Where(pc', Packets, Below)),
               Below, pc[p], w)
  <1>1. \A q \in Packets : pc'[q] = IF q = p THEN w ELSE pc[q]
    BY Distinct DEF Goto
  <1> QED
    BY <1>1, CountMove, AdaptAssumption

\* The packets below are counted, and there are none of them while it sleeps.
LEMMA StepSending ==
  ASSUME TypeOK, Binding, Initializing, Requests, Sending, [Next]_vars
  PROVE  Sending'
  <1> USE TypeOK, Binding, Sending, Initializing, Requests, Distinct
          DEF TypeOK, Binding, Sending, States, refs, init, life, power, work, told, media, Goto,
              At, PtReferenceAdapt, PtDereferenceAdapt, PowerEvent, Serving, AllUp, Initializing,
              Requests
  <1>1. CASE Bind
    <2>1. CASE BindOpens
      <3>1. \A p \in Packets : pc'[p] = pc[p]
        BY <2>1 DEF BindOpens
      <3>2. OutstandingSends = Cardinality(Where(pc', Packets, Below))
        BY <3>1, NoPacketMoves
      <3> QED
        BY <3>1, <3>2, <2>1 DEF BindOpens
    <2>2. CASE BindFailsEarly
      <3>1. \A p \in Packets : pc'[p] = pc[p]
        BY <2>2 DEF BindFailsEarly
      <3>2. OutstandingSends = Cardinality(Where(pc', Packets, Below))
        BY <3>1, NoPacketMoves
      <3> QED
        BY <3>1, <3>2, <2>2 DEF BindFailsEarly
    <2>3. CASE BindSucceeds
      <3>1. \A p \in Packets : pc'[p] = pc[p]
        BY <2>3 DEF BindSucceeds
      <3>2. OutstandingSends = Cardinality(Where(pc', Packets, Below))
        BY <3>1, NoPacketMoves
      <3> QED
        BY <3>1, <3>2, <2>3 DEF BindSucceeds
    <2>4. CASE BindFails
      <3>1. \A p \in Packets : pc'[p] = pc[p]
        BY <2>4 DEF BindFails
      <3>2. OutstandingSends = Cardinality(Where(pc', Packets, Below))
        BY <3>1, NoPacketMoves
      <3> QED
        BY <3>1, <3>2, <2>4 DEF BindFails
    <2>5. CASE BindCloses
      <3>1. \A p \in Packets : pc'[p] = pc[p]
        BY <2>5 DEF BindCloses
      <3>2. OutstandingSends = Cardinality(Where(pc', Packets, Below))
        BY <3>1, NoPacketMoves
      <3> QED
        BY <3>1, <3>2, <2>5 DEF BindCloses
    <2> QED
      BY <1>1, <2>1, <2>2, <2>3, <2>4, <2>5 DEF Bind
  <1>2. CASE MPInitialize
    <2>1. CASE InitBegins
      <3>1. \A p \in Packets : pc'[p] = pc[p]
        BY <2>1 DEF InitBegins
      <3>2. OutstandingSends = Cardinality(Where(pc', Packets, Below))
        BY <3>1, NoPacketMoves
      <3> QED
        BY <3>1, <3>2, <2>1 DEF InitBegins
    <2>2. CASE InitClears
      <3>1. \A p \in Packets : pc'[p] = pc[p]
        BY <2>2 DEF InitClears
      <3>2. OutstandingSends = Cardinality(Where(pc', Packets, Below))
        BY <3>1, NoPacketMoves
      <3> QED
        BY <3>1, <3>2, <2>2 DEF InitClears
    <2>3. CASE InitSets
      <3>1. \A p \in Packets : pc'[p] = pc[p]
        BY <2>3 DEF InitSets
      <3>2. OutstandingSends = Cardinality(Where(pc', Packets, Below))
        BY <3>1, NoPacketMoves
      <3> QED
        BY <3>1, <3>2, <2>3 DEF InitSets
    <2>4. CASE InitSetsFailed
      <3>1. \A p \in Packets : pc'[p] = pc[p]
        BY <2>4 DEF InitSetsFailed
      <3>2. OutstandingSends = Cardinality(Where(pc', Packets, Below))
        BY <3>1, NoPacketMoves
      <3> QED
        BY <3>1, <3>2, <2>4 DEF InitSetsFailed
    <2>5. CASE InitPowersMP
      <3>1. \A p \in Packets : pc'[p] = pc[p]
        BY <2>5 DEF InitPowersMP
      <3>2. OutstandingSends = Cardinality(Where(pc', Packets, Below))
        BY <3>1, NoPacketMoves
      <3> QED
        BY <3>1, <3>2, <2>5 DEF InitPowersMP
    <2>6. CASE InitPowersPT
      <3>1. \A p \in Packets : pc'[p] = pc[p]
        BY <2>6 DEF InitPowersPT
      <3>2. OutstandingSends = Cardinality(Where(pc', Packets, Below))
        BY <3>1, NoPacketMoves
      <3> QED
        BY <3>1, <3>2, <2>6 DEF InitPowersPT
    <2> QED
      BY <1>2, <2>1, <2>2, <2>3, <2>4, <2>5, <2>6 DEF MPInitialize
  <1>3. CASE HaltBegins \/ MPHalt
    <2>1. CASE HaltBegins
      <3>1. \A p \in Packets : pc'[p] = pc[p]
        BY <2>1 DEF HaltBegins
      <3>2. OutstandingSends = Cardinality(Where(pc', Packets, Below))
        BY <3>1, NoPacketMoves
      <3> QED
        BY <3>1, <3>2, <2>1 DEF HaltBegins
    <2>2. CASE HaltCloses
      <3>1. \A p \in Packets : pc'[p] = pc[p]
        BY <2>2 DEF HaltCloses
      <3>2. OutstandingSends = Cardinality(Where(pc', Packets, Below))
        BY <3>1, NoPacketMoves
      <3> QED
        BY <3>1, <3>2, <2>2 DEF HaltCloses
    <2>3. CASE HaltDerefs
      <3>1. \A p \in Packets : pc'[p] = pc[p]
        BY <2>3 DEF HaltDerefs
      <3>2. OutstandingSends = Cardinality(Where(pc', Packets, Below))
        BY <3>1, NoPacketMoves
      <3> QED
        BY <3>1, <3>2, <2>3 DEF HaltDerefs
    <2> QED
      BY <1>3, <2>1, <2>2, <2>3 DEF MPHalt
  <1>4. CASE UnbindBegins \/ UnbindSteps
    <2>1. CASE UnbindBegins
      <3>1. \A p \in Packets : pc'[p] = pc[p]
        BY <2>1 DEF UnbindBegins
      <3>2. OutstandingSends = Cardinality(Where(pc', Packets, Below))
        BY <3>1, NoPacketMoves
      <3> QED
        BY <3>1, <3>2, <2>1 DEF UnbindBegins
    <2>2. CASE UnbindCancels
      <3>1. \A p \in Packets : pc'[p] = pc[p]
        BY <2>2 DEF UnbindCancels
      <3>2. OutstandingSends = Cardinality(Where(pc', Packets, Below))
        BY <3>1, NoPacketMoves
      <3> QED
        BY <3>1, <3>2, <2>2 DEF UnbindCancels
    <2>3. CASE UnbindGoesOn
      <3>1. \A p \in Packets : pc'[p] = pc[p]
        BY <2>3 DEF UnbindGoesOn
      <3>2. OutstandingSends = Cardinality(Where(pc', Packets, Below))
        BY <3>1, NoPacketMoves
      <3> QED
        BY <3>1, <3>2, <2>3 DEF UnbindGoesOn
    <2>4. CASE UnbindDeinitializes
      <3>1. \A p \in Packets : pc'[p] = pc[p]
        BY <2>4 DEF UnbindDeinitializes
      <3>2. OutstandingSends = Cardinality(Where(pc', Packets, Below))
        BY <3>1, NoPacketMoves
      <3> QED
        BY <3>1, <3>2, <2>4 DEF UnbindDeinitializes
    <2>5. CASE UnbindDeinitialized
      <3>1. \A p \in Packets : pc'[p] = pc[p]
        BY <2>5 DEF UnbindDeinitialized
      <3>2. OutstandingSends = Cardinality(Where(pc', Packets, Below))
        BY <3>1, NoPacketMoves
      <3> QED
        BY <3>1, <3>2, <2>5 DEF UnbindDeinitialized
    <2>6. CASE UnbindFrees
      <3>1. \A p \in Packets : pc'[p] = pc[p]
        BY <2>6 DEF UnbindFrees
      <3>2. OutstandingSends = Cardinality(Where(pc', Packets, Below))
        BY <3>1, NoPacketMoves
      <3> QED
        BY <3>1, <3>2, <2>6 DEF UnbindFrees
    <2>7. CASE QueuedCompletes("unbind")
      <3>1. \A p \in Packets : pc'[p] = pc[p]
        BY <2>7 DEF QueuedCompletes
      <3>2. OutstandingSends = Cardinality(Where(pc', Packets, Below))
        BY <3>1, NoPacketMoves
      <3> QED
        BY <3>1, <3>2, <2>7 DEF QueuedCompletes
    <2> QED
      BY <1>4, <2>1, <2>2, <2>3, <2>4, <2>5, <2>6, <2>7 DEF UnbindSteps
  <1>5. CASE RequestBegins \/ RequestSteps
    <2>1. CASE RequestBegins
      <3>1. \A p \in Packets : pc'[p] = pc[p]
        BY <2>1 DEF RequestBegins
      <3>2. OutstandingSends = Cardinality(Where(pc', Packets, Below))
        BY <3>1, NoPacketMoves
      <3> QED
        BY <3>1, <3>2, <2>1 DEF RequestBegins
    <2>2. CASE RequestQueues
      <3>1. \A p \in Packets : pc'[p] = pc[p]
        BY <2>2 DEF RequestQueues
      <3>2. OutstandingSends = Cardinality(Where(pc', Packets, Below))
        BY <3>1, NoPacketMoves
      <3> QED
        BY <3>1, <3>2, <2>2 DEF RequestQueues
    <2>3. CASE RequestFails
      <3>1. \A p \in Packets : pc'[p] = pc[p]
        BY <2>3 DEF RequestFails
      <3>2. OutstandingSends = Cardinality(Where(pc', Packets, Below))
        BY <3>1, NoPacketMoves
      <3> QED
        BY <3>1, <3>2, <2>3 DEF RequestFails
    <2>4. CASE RequestGoes
      <3>1. \A p \in Packets : pc'[p] = pc[p]
        BY <2>4 DEF RequestGoes
      <3>2. OutstandingSends = Cardinality(Where(pc', Packets, Below))
        BY <3>1, NoPacketMoves
      <3> QED
        BY <3>1, <3>2, <2>4 DEF RequestGoes
    <2>5. CASE RequestPends
      <3>1. \A p \in Packets : pc'[p] = pc[p]
        BY <2>5 DEF RequestPends
      <3>2. OutstandingSends = Cardinality(Where(pc', Packets, Below))
        BY <3>1, NoPacketMoves
      <3> QED
        BY <3>1, <3>2, <2>5 DEF RequestPends
    <2>6. CASE RequestCompletes
      <3>1. \A p \in Packets : pc'[p] = pc[p]
        BY <2>6 DEF RequestCompletes
      <3>2. OutstandingSends = Cardinality(Where(pc', Packets, Below))
        BY <3>1, NoPacketMoves
      <3> QED
        BY <3>1, <3>2, <2>6 DEF RequestCompletes
    <2>7. CASE RequestReturns
      <3>1. \A p \in Packets : pc'[p] = pc[p]
        BY <2>7 DEF RequestReturns
      <3>2. OutstandingSends = Cardinality(Where(pc', Packets, Below))
        BY <3>1, NoPacketMoves
      <3> QED
        BY <3>1, <3>2, <2>7 DEF RequestReturns
    <2>8. CASE SetPowerTells
      <3>1. \A p \in Packets : pc'[p] = pc[p]
        BY <2>8 DEF SetPowerTells
      <3>2. OutstandingSends = Cardinality(Where(pc', Packets, Below))
        BY <3>1, NoPacketMoves
      <3> QED
        BY <3>1, <3>2, <2>8 DEF SetPowerTells
    <2> QED
      BY <1>5, <2>1, <2>2, <2>3, <2>4, <2>5, <2>6, <2>7, <2>8 DEF RequestSteps
  <1>6. ASSUME NEW new \in States, SetPower(new) PROVE Sending'
    <2>1. CASE SetPower(new)
      <3>1. \A p \in Packets : pc'[p] = pc[p]
        BY <2>1 DEF SetPower
      <3>2. OutstandingSends = Cardinality(Where(pc', Packets, Below))
        BY <3>1, NoPacketMoves
      <3> QED
        BY <3>1, <3>2, <2>1 DEF SetPower
    <2> QED
      BY <1>6, <2>1
  <1>7. CASE PowersDown \/ PowersUp \/ PowerSteps
    <2>1. CASE PowersDown
      <3>1. \A p \in Packets : pc'[p] = pc[p]
        BY <2>1 DEF PowersDown
      <3>2. OutstandingSends = Cardinality(Where(pc', Packets, Below))
        BY <3>1, NoPacketMoves
      <3> QED
        BY <3>1, <3>2, <2>1 DEF PowersDown
    <2>2. CASE PowersUp
      <3>1. \A p \in Packets : pc'[p] = pc[p]
        BY <2>2 DEF PowersUp
      <3>2. OutstandingSends = Cardinality(Where(pc', Packets, Below))
        BY <3>1, NoPacketMoves
      <3> QED
        BY <3>1, <3>2, <2>2 DEF PowersUp
    <2>3. CASE SendsDrained
      <3>1. \A p \in Packets : pc'[p] = pc[p]
        BY <2>3 DEF SendsDrained
      <3>2. OutstandingSends = Cardinality(Where(pc', Packets, Below))
        BY <3>1, NoPacketMoves
      <3> QED
        BY <3>1, <3>2, <2>3 DEF SendsDrained
    <2>4. CASE RequestsDrained
      <3>1. \A p \in Packets : pc'[p] = pc[p]
        BY <2>4 DEF RequestsDrained
      <3>2. OutstandingSends = Cardinality(Where(pc', Packets, Below))
        BY <3>1, NoPacketMoves
      <3> QED
        BY <3>1, <3>2, <2>4 DEF RequestsDrained
    <2>5. CASE QueuedCompletes("power")
      <3>1. \A p \in Packets : pc'[p] = pc[p]
        BY <2>5 DEF QueuedCompletes
      <3>2. OutstandingSends = Cardinality(Where(pc', Packets, Below))
        BY <3>1, NoPacketMoves
      <3> QED
        BY <3>1, <3>2, <2>5 DEF QueuedCompletes
    <2> QED
      BY <1>7, <2>1, <2>2, <2>3, <2>4, <2>5 DEF PowerSteps
  <1>8. ASSUME NEW p \in Packets, SendBegins(p) \/ SendSteps(p) PROVE Sending'
    <2> HIDE DEF Goto
    <2>1. CASE SendBegins(p)
      <3>1. Moved(OutstandingSends, Cardinality(Where(pc', Packets, Below)), Below, pc[p], "lock")
        BY <2>1, PacketMoves DEF SendBegins
      <3> QED
        BY <3>1, <2>1 DEF Goto, Moved, Below, SendBegins
    <2>2. CASE SendFails(p)
      <3>1. Moved(OutstandingSends, Cardinality(Where(pc', Packets, Below)), Below, pc[p], "out")
        BY <2>2, PacketMoves DEF SendFails
      <3> QED
        BY <3>1, <2>2 DEF Goto, Moved, Below, SendFails
    <2>3. CASE SendCounts(p)
      <3>1. Moved(OutstandingSends, Cardinality(Where(pc', Packets, Below)), Below, pc[p], "send")
        BY <2>3, PacketMoves DEF SendCounts
      <3> QED
        BY <3>1, <2>3 DEF Goto, Moved, Below, SendCounts
    <2>4. CASE Sends(p)
      <3>1. PICK w \in {"below", "count"} : Goto(p, w)
        BY <2>4 DEF Sends, Goto
      <3>2. Moved(OutstandingSends, Cardinality(Where(pc', Packets, Below)), Below, pc[p], w)
        BY <3>1, PacketMoves
      <3> QED
        BY <3>1, <3>2, <2>4 DEF Goto, Moved, Below, Sends
    <2>5. CASE SendCompletes(p)
      <3>1. Moved(OutstandingSends, Cardinality(Where(pc', Packets, Below)), Below, pc[p], "completed")
        BY <2>5, PacketMoves DEF SendCompletes
      <3> QED
        BY <3>1, <2>5 DEF Goto, Moved, Below, SendCompletes
    <2>6. CASE SendUncounts(p)
      <3>1. Moved(OutstandingSends, Cardinality(Where(pc', Packets, Below)), Below, pc[p], "out")
        BY <2>6, PacketMoves DEF SendUncounts
      <3> QED
        BY <3>1, <2>6 DEF Goto, Moved, Below, SendUncounts
    <2> QED
      BY <1>8, <2>1, <2>2, <2>3, <2>4, <2>5, <2>6 DEF SendSteps
  <1>9. ASSUME NEW s \in Statuses, PtStatus(s) PROVE Sending'
    <2>1. CASE PtStatus(s)
      <3>1. \A p \in Packets : pc'[p] = pc[p]
        BY <2>1 DEF PtStatus
      <3>2. OutstandingSends = Cardinality(Where(pc', Packets, Below))
        BY <3>1, NoPacketMoves
      <3> QED
        BY <3>1, <3>2, <2>1 DEF PtStatus
    <2> QED
      BY <1>9, <2>1
  <1>10. CASE UNCHANGED vars
    <2>1. OutstandingSends = Cardinality(Where(pc', Packets, Below))
      BY <1>10, NoPacketMoves DEF vars
    <2> QED
      BY <1>10, <2>1 DEF vars
  <1>11. CASE StatusSteps
    <2>1. CASE StatusTestsMP
      <3>1. \A p \in Packets : pc'[p] = pc[p]
        BY <2>1 DEF StatusTestsMP
      <3>2. OutstandingSends = Cardinality(Where(pc', Packets, Below))
        BY <3>1, NoPacketMoves
      <3> QED
        BY <3>1, <3>2, <2>1 DEF StatusTestsMP
    <2>2. CASE StatusTestsPT
      <3>1. \A p \in Packets : pc'[p] = pc[p]
        BY <2>2 DEF StatusTestsPT
      <3>2. OutstandingSends = Cardinality(Where(pc', Packets, Below))
        BY <3>1, NoPacketMoves
      <3> QED
        BY <3>1, <3>2, <2>2 DEF StatusTestsPT
    <2>3. CASE StatusTells
      <3>1. \A p \in Packets : pc'[p] = pc[p]
        BY <2>3 DEF StatusTells
      <3>2. OutstandingSends = Cardinality(Where(pc', Packets, Below))
        BY <3>1, NoPacketMoves
      <3> QED
        BY <3>1, <3>2, <2>3 DEF StatusTells
    <2>4. CASE StatusSaves
      <3>1. \A p \in Packets : pc'[p] = pc[p]
        BY <2>4 DEF StatusSaves
      <3>2. OutstandingSends = Cardinality(Where(pc', Packets, Below))
        BY <3>1, NoPacketMoves
      <3> QED
        BY <3>1, <3>2, <2>4 DEF StatusSaves
    <2> QED
      BY <1>11, <2>1, <2>2, <2>3, <2>4 DEF StatusSteps
  <1> QED
    BY <1>1, <1>2, <1>3, <1>4, <1>5, <1>6, <1>7, <1>8, <1>9, <1>10, <1>11 DEF Next

\* No more packets are counted than there are.
LEMMA SendsBounded ==
  ASSUME NEW f
  PROVE  Cardinality(Where(f, Packets, Below)) \in 0 .. Cardinality(Packets)
  <1>1. Where(f, Packets, Below) \subseteq Packets
    BY DEF Where
  <1> QED
    BY <1>1, AdaptAssumption, FS_Subset, FS_CardinalityType

\* The Boolean part of TypeOK.
Flags ==
    /\ BindingHandle \in BOOLEAN /\ MiniportHandle \in BOOLEAN
    /\ MiniportInitPending \in BOOLEAN /\ MiniportInitEvent \in BOOLEAN
    /\ UnbindingInProcess \in BOOLEAN
    /\ StandingBy \in BOOLEAN
    /\ QueuedRequest \in BOOLEAN /\ OutstandingRequests \in BOOLEAN
    /\ lost \in BOOLEAN

\* The other parts.
Values ==
    /\ memory \in {"none", "allocated", "freed"}
    /\ im \in {"none", "pending", "initializing", "failed", "running", "halting", "halted"}
    /\ {MPDeviceState, PTDeviceState} \subseteq States \cup {"unset"}
    /\ LastIndicatedStatus \in Statuses \cup {"none"}
    /\ LatestUnIndicateStatus \in Statuses \cup {"none"}
    /\ heard \in Statuses
    /\ kind \in {"caps", "other"}

\* Where the calls and the packets are.
Places ==
    /\ DOMAIN pc = Threads
    /\ pc["bind"] \in {"out", "init", "close", "done", "failed"}
    /\ pc["init"] \in {"out", "mp", "pt", "wake", "wake_failed", "set", "set_failed", "done"}
    /\ pc["unbind"] \in {"out", "complete", "check", "wait", "end", "deinit", "done"}
    /\ pc["halt"] \in {"out", "close", "deref", "done"}
    /\ pc["power"] \in {"out", "sends", "requests", "complete", "send"}
    /\ pc["request"] \in {"out", "lock", "queued", "send", "below", "complete", "status"}
    /\ pc["indication"] \in {"out", "mp", "pt", "tell", "else"}
    /\ \A p \in Packets : pc[p] \in {"out", "lock", "send", "below", "completed", "count"}

\* The Boolean values, the others, the places and the two counters are each in
\* their range: the references because IInv says how many there are.
LEMMA StepType ==
  ASSUME TypeOK, Binding, Initializing, Unbinding, Memory, Counted, Requests, Sending', [Next]_vars
  PROVE  TypeOK'
  <1> USE DEF refs, init, life, power, work, told, media, Goto, At, PtReferenceAdapt,
          PtDereferenceAdapt
  <1>flags. Flags
    BY TypeOK DEF TypeOK, Flags, Values, Places
  <1>sends. OutstandingSends' \in 0 .. Cardinality(Packets)
    BY Sending', SendsBounded DEF Sending
  <1>1. CASE Bind
    <2>1. CASE BindOpens
      <3>1. RefCount' \in 0 .. 3
        BY TypeOK, Binding, Initializing, Unbinding, Memory, Counted, Requests, <2>1
           DEF TypeOK, Binding, Initializing, Unbinding, Memory, Counted, Requests, BindOpens
      <3>2. Flags'
        BY <1>flags, <2>1, Zenon DEF Flags, BindOpens
      <3>3. Values'
        BY TypeOK, Distinct, <2>1 DEF TypeOK, Values, States, Statuses, BindOpens
      <3>4. Places'
        BY TypeOK, Distinct, <2>1 DEF TypeOK, Places, BindOpens
      <3> QED
        BY <1>sends, <3>1, <3>2, <3>3, <3>4 DEF TypeOK, Flags, Values, Places
    <2>2. CASE BindFailsEarly
      <3>1. RefCount' \in 0 .. 3
        BY TypeOK, <2>2 DEF TypeOK, BindFailsEarly
      <3>2. Flags'
        BY <1>flags, <2>2, Zenon DEF Flags, BindFailsEarly
      <3>3. Values'
        BY TypeOK, Distinct, <2>2 DEF TypeOK, Values, States, Statuses, BindFailsEarly
      <3>4. Places'
        BY TypeOK, Distinct, <2>2 DEF TypeOK, Places, BindFailsEarly
      <3> QED
        BY <1>sends, <3>1, <3>2, <3>3, <3>4 DEF TypeOK, Flags, Values, Places
    <2>3. CASE BindSucceeds
      <3>1. RefCount' \in 0 .. 3
        BY TypeOK, Binding, Initializing, Unbinding, Memory, Counted, Requests, <2>3
           DEF TypeOK, Binding, Initializing, Unbinding, Memory, Counted, Requests, BindSucceeds
      <3>2. Flags'
        BY <1>flags, <2>3, Zenon DEF Flags, BindSucceeds
      <3>3. Values'
        BY TypeOK, Distinct, <2>3 DEF TypeOK, Values, States, Statuses, BindSucceeds
      <3>4. Places'
        BY TypeOK, Distinct, <2>3 DEF TypeOK, Places, BindSucceeds
      <3> QED
        BY <1>sends, <3>1, <3>2, <3>3, <3>4 DEF TypeOK, Flags, Values, Places
    <2>4. CASE BindFails
      <3>1. RefCount' \in 0 .. 3
        BY TypeOK, Binding, Initializing, Unbinding, Memory, Counted, Requests, <2>4
           DEF TypeOK, Binding, Initializing, Unbinding, Memory, Counted, Requests, BindFails
      <3>2. Flags'
        BY <1>flags, <2>4, Zenon DEF Flags, BindFails
      <3>3. Values'
        BY TypeOK, Distinct, <2>4 DEF TypeOK, Values, States, Statuses, BindFails
      <3>4. Places'
        BY TypeOK, Distinct, <2>4 DEF TypeOK, Places, BindFails
      <3> QED
        BY <1>sends, <3>1, <3>2, <3>3, <3>4 DEF TypeOK, Flags, Values, Places
    <2>5. CASE BindCloses
      <3>1. RefCount' \in 0 .. 3
        BY TypeOK, Binding, Initializing, Unbinding, Memory, Counted, Requests, <2>5
           DEF TypeOK, Binding, Initializing, Unbinding, Memory, Counted, Requests, BindCloses
      <3>2. Flags'
        BY <1>flags, <2>5, Zenon DEF Flags, BindCloses
      <3>3. Values'
        BY TypeOK, Distinct, <2>5 DEF TypeOK, Values, States, Statuses, BindCloses
      <3>4. Places'
        BY TypeOK, Distinct, <2>5 DEF TypeOK, Places, BindCloses
      <3> QED
        BY <1>sends, <3>1, <3>2, <3>3, <3>4 DEF TypeOK, Flags, Values, Places
    <2> QED
      BY <1>1, <2>1, <2>2, <2>3, <2>4, <2>5 DEF Bind
  <1>2. CASE MPInitialize
    <2>1. CASE InitBegins
      <3>1. RefCount' \in 0 .. 3
        BY TypeOK, <2>1 DEF TypeOK, InitBegins
      <3>2. Flags'
        BY <1>flags, <2>1, Zenon DEF Flags, InitBegins
      <3>3. Values'
        BY TypeOK, Distinct, <2>1 DEF TypeOK, Values, States, Statuses, InitBegins
      <3>4. Places'
        BY TypeOK, Distinct, <2>1 DEF TypeOK, Places, InitBegins
      <3> QED
        BY <1>sends, <3>1, <3>2, <3>3, <3>4 DEF TypeOK, Flags, Values, Places
    <2>2. CASE InitClears
      <3>1. RefCount' \in 0 .. 3
        BY TypeOK, <2>2 DEF TypeOK, InitClears
      <3>2. Flags'
        BY <1>flags, <2>2, Zenon DEF Flags, InitClears
      <3>3. Values'
        BY TypeOK, Distinct, <2>2 DEF TypeOK, Values, States, Statuses, InitClears
      <3>4. Places'
        BY TypeOK, Distinct, <2>2 DEF TypeOK, Places, InitClears
      <3> QED
        BY <1>sends, <3>1, <3>2, <3>3, <3>4 DEF TypeOK, Flags, Values, Places
    <2>3. CASE InitSets
      <3>1. RefCount' \in 0 .. 3
        BY TypeOK, Binding, Initializing, Unbinding, Memory, Counted, Requests, <2>3
           DEF TypeOK, Binding, Initializing, Unbinding, Memory, Counted, Requests, InitSets
      <3>2. Flags'
        BY <1>flags, <2>3, Zenon DEF Flags, InitSets
      <3>3. Values'
        BY TypeOK, Distinct, <2>3 DEF TypeOK, Values, States, Statuses, InitSets
      <3>4. Places'
        BY TypeOK, Distinct, <2>3 DEF TypeOK, Places, InitSets
      <3> QED
        BY <1>sends, <3>1, <3>2, <3>3, <3>4 DEF TypeOK, Flags, Values, Places
    <2>4. CASE InitSetsFailed
      <3>1. RefCount' \in 0 .. 3
        BY TypeOK, <2>4 DEF TypeOK, InitSetsFailed
      <3>2. Flags'
        BY <1>flags, <2>4, Zenon DEF Flags, InitSetsFailed
      <3>3. Values'
        BY TypeOK, Distinct, <2>4 DEF TypeOK, Values, States, Statuses, InitSetsFailed
      <3>4. Places'
        BY TypeOK, Distinct, <2>4 DEF TypeOK, Places, InitSetsFailed
      <3> QED
        BY <1>sends, <3>1, <3>2, <3>3, <3>4 DEF TypeOK, Flags, Values, Places
    <2>5. CASE InitPowersMP
      <3>1. RefCount' \in 0 .. 3
        BY TypeOK, <2>5 DEF TypeOK, InitPowersMP
      <3>2. Flags'
        BY <1>flags, <2>5, Zenon DEF Flags, InitPowersMP
      <3>3. Values'
        BY TypeOK, Distinct, <2>5 DEF TypeOK, Values, States, Statuses, InitPowersMP
      <3>4. Places'
        BY TypeOK, Distinct, <2>5 DEF TypeOK, Places, InitPowersMP
      <3> QED
        BY <1>sends, <3>1, <3>2, <3>3, <3>4 DEF TypeOK, Flags, Values, Places
    <2>6. CASE InitPowersPT
      <3>1. RefCount' \in 0 .. 3
        BY TypeOK, <2>6 DEF TypeOK, InitPowersPT
      <3>2. Flags'
        BY <1>flags, <2>6, Zenon DEF Flags, InitPowersPT
      <3>3. Values'
        BY TypeOK, Distinct, <2>6 DEF TypeOK, Values, States, Statuses, InitPowersPT
      <3>4. Places'
        BY TypeOK, Distinct, <2>6 DEF TypeOK, Places, InitPowersPT
      <3> QED
        BY <1>sends, <3>1, <3>2, <3>3, <3>4 DEF TypeOK, Flags, Values, Places
    <2> QED
      BY <1>2, <2>1, <2>2, <2>3, <2>4, <2>5, <2>6 DEF MPInitialize
  <1>3. CASE HaltBegins \/ MPHalt
    <2>1. CASE HaltBegins
      <3>1. RefCount' \in 0 .. 3
        BY TypeOK, <2>1 DEF TypeOK, HaltBegins
      <3>2. Flags'
        BY <1>flags, <2>1, Zenon DEF Flags, HaltBegins
      <3>3. Values'
        BY TypeOK, Distinct, <2>1 DEF TypeOK, Values, States, Statuses, HaltBegins
      <3>4. Places'
        BY TypeOK, Distinct, <2>1 DEF TypeOK, Places, HaltBegins
      <3> QED
        BY <1>sends, <3>1, <3>2, <3>3, <3>4 DEF TypeOK, Flags, Values, Places
    <2>2. CASE HaltCloses
      <3>1. RefCount' \in 0 .. 3
        BY TypeOK, Binding, Initializing, Unbinding, Memory, Counted, Requests, <2>2
           DEF TypeOK, Binding, Initializing, Unbinding, Memory, Counted, Requests, HaltCloses
      <3>2. Flags'
        BY <1>flags, <2>2, Zenon DEF Flags, HaltCloses
      <3>3. Values'
        BY TypeOK, Distinct, <2>2 DEF TypeOK, Values, States, Statuses, HaltCloses
      <3>4. Places'
        BY TypeOK, Distinct, <2>2 DEF TypeOK, Places, HaltCloses
      <3> QED
        BY <1>sends, <3>1, <3>2, <3>3, <3>4 DEF TypeOK, Flags, Values, Places
    <2>3. CASE HaltDerefs
      <3>1. RefCount' \in 0 .. 3
        BY TypeOK, Binding, Initializing, Unbinding, Memory, Counted, Requests, <2>3
           DEF TypeOK, Binding, Initializing, Unbinding, Memory, Counted, Requests, HaltDerefs
      <3>2. Flags'
        BY <1>flags, <2>3, Zenon DEF Flags, HaltDerefs
      <3>3. Values'
        BY TypeOK, Distinct, <2>3 DEF TypeOK, Values, States, Statuses, HaltDerefs
      <3>4. Places'
        BY TypeOK, Distinct, <2>3 DEF TypeOK, Places, HaltDerefs
      <3> QED
        BY <1>sends, <3>1, <3>2, <3>3, <3>4 DEF TypeOK, Flags, Values, Places
    <2> QED
      BY <1>3, <2>1, <2>2, <2>3 DEF MPHalt
  <1>4. CASE UnbindBegins \/ UnbindSteps
    <2>1. CASE UnbindBegins
      <3>1. RefCount' \in 0 .. 3
        BY TypeOK, <2>1 DEF TypeOK, UnbindBegins
      <3>2. Flags'
        BY <1>flags, <2>1, Zenon DEF Flags, UnbindBegins
      <3>3. Values'
        BY TypeOK, Distinct, <2>1 DEF TypeOK, Values, States, Statuses, UnbindBegins
      <3>4. Places'
        BY TypeOK, Distinct, <2>1 DEF TypeOK, Places, UnbindBegins
      <3> QED
        BY <1>sends, <3>1, <3>2, <3>3, <3>4 DEF TypeOK, Flags, Values, Places
    <2>2. CASE UnbindCancels
      <3>1. RefCount' \in 0 .. 3
        BY TypeOK, <2>2 DEF TypeOK, UnbindCancels
      <3>2. Flags'
        BY <1>flags, <2>2, Zenon DEF Flags, UnbindCancels
      <3>3. Values'
        <4>1. im' = "none" \/ im' = im
          BY <2>2, Zenon DEF UnbindCancels
        <4>2. UNCHANGED <<refs, power, work, media>>
          BY <2>2, Zenon DEF UnbindCancels
        <4> QED
          BY TypeOK, <4>1, <4>2 DEF TypeOK, Values
      <3>4. Places'
        BY TypeOK, Distinct, <2>2 DEF TypeOK, Places, UnbindCancels
      <3> QED
        BY <1>sends, <3>1, <3>2, <3>3, <3>4 DEF TypeOK, Flags, Values, Places
    <2>3. CASE UnbindGoesOn
      <3>1. RefCount' \in 0 .. 3
        BY TypeOK, <2>3 DEF TypeOK, UnbindGoesOn
      <3>2. Flags'
        BY <1>flags, <2>3, Zenon DEF Flags, UnbindGoesOn
      <3>3. Values'
        BY TypeOK, Distinct, <2>3 DEF TypeOK, Values, States, Statuses, UnbindGoesOn
      <3>4. Places'
        BY TypeOK, Distinct, <2>3 DEF TypeOK, Places, UnbindGoesOn
      <3> QED
        BY <1>sends, <3>1, <3>2, <3>3, <3>4 DEF TypeOK, Flags, Values, Places
    <2>4. CASE UnbindDeinitializes
      <3>1. RefCount' \in 0 .. 3
        BY TypeOK, <2>4 DEF TypeOK, UnbindDeinitializes
      <3>2. Flags'
        BY <1>flags, <2>4, Zenon DEF Flags, UnbindDeinitializes
      <3>3. Values'
        BY TypeOK, Distinct, <2>4 DEF TypeOK, Values, States, Statuses, UnbindDeinitializes
      <3>4. Places'
        BY TypeOK, Distinct, <2>4 DEF TypeOK, Places, UnbindDeinitializes
      <3> QED
        BY <1>sends, <3>1, <3>2, <3>3, <3>4 DEF TypeOK, Flags, Values, Places
    <2>5. CASE UnbindDeinitialized
      <3>1. RefCount' \in 0 .. 3
        BY TypeOK, <2>5 DEF TypeOK, UnbindDeinitialized
      <3>2. Flags'
        BY <1>flags, <2>5, Zenon DEF Flags, UnbindDeinitialized
      <3>3. Values'
        BY TypeOK, Distinct, <2>5 DEF TypeOK, Values, States, Statuses, UnbindDeinitialized
      <3>4. Places'
        BY TypeOK, Distinct, <2>5 DEF TypeOK, Places, UnbindDeinitialized
      <3> QED
        BY <1>sends, <3>1, <3>2, <3>3, <3>4 DEF TypeOK, Flags, Values, Places
    <2>6. CASE UnbindFrees
      <3>1. RefCount' \in 0 .. 3
        BY TypeOK, Binding, Initializing, Unbinding, Memory, Counted, Requests, <2>6
           DEF TypeOK, Binding, Initializing, Unbinding, Memory, Counted, Requests, UnbindFrees
      <3>2. Flags'
        BY <1>flags, <2>6, Zenon DEF Flags, UnbindFrees
      <3>3. Values'
        BY TypeOK, Distinct, <2>6 DEF TypeOK, Values, States, Statuses, UnbindFrees
      <3>4. Places'
        BY TypeOK, Distinct, <2>6 DEF TypeOK, Places, UnbindFrees
      <3> QED
        BY <1>sends, <3>1, <3>2, <3>3, <3>4 DEF TypeOK, Flags, Values, Places
    <2>7. CASE QueuedCompletes("unbind")
      <3>1. RefCount' \in 0 .. 3
        BY TypeOK, <2>7 DEF TypeOK, QueuedCompletes
      <3>2. Flags'
        BY <1>flags, <2>7, Zenon DEF Flags, QueuedCompletes
      <3>3. Values'
        BY TypeOK, Distinct, <2>7 DEF TypeOK, Values, States, Statuses, QueuedCompletes
      <3>4. Places'
        BY TypeOK, Distinct, <2>7 DEF TypeOK, Places, QueuedCompletes
      <3> QED
        BY <1>sends, <3>1, <3>2, <3>3, <3>4 DEF TypeOK, Flags, Values, Places
    <2> QED
      BY <1>4, <2>1, <2>2, <2>3, <2>4, <2>5, <2>6, <2>7 DEF UnbindSteps
  <1>5. CASE RequestBegins \/ RequestSteps
    <2>1. CASE RequestBegins
      <3>1. RefCount' \in 0 .. 3
        BY TypeOK, <2>1 DEF TypeOK, RequestBegins
      <3>2. Flags'
        BY <1>flags, <2>1, Zenon DEF Flags, RequestBegins
      <3>3. Values'
        BY TypeOK, Distinct, <2>1 DEF TypeOK, Values, States, Statuses, RequestBegins
      <3>4. Places'
        BY TypeOK, Distinct, <2>1 DEF TypeOK, Places, RequestBegins
      <3> QED
        BY <1>sends, <3>1, <3>2, <3>3, <3>4 DEF TypeOK, Flags, Values, Places
    <2>2. CASE RequestQueues
      <3>1. RefCount' \in 0 .. 3
        BY TypeOK, <2>2 DEF TypeOK, RequestQueues
      <3>2. Flags'
        BY <1>flags, <2>2, Zenon DEF Flags, RequestQueues
      <3>3. Values'
        BY TypeOK, Distinct, <2>2 DEF TypeOK, Values, States, Statuses, RequestQueues
      <3>4. Places'
        BY TypeOK, Distinct, <2>2 DEF TypeOK, Places, RequestQueues
      <3> QED
        BY <1>sends, <3>1, <3>2, <3>3, <3>4 DEF TypeOK, Flags, Values, Places
    <2>3. CASE RequestFails
      <3>1. RefCount' \in 0 .. 3
        BY TypeOK, <2>3 DEF TypeOK, RequestFails
      <3>2. Flags'
        BY <1>flags, <2>3, Zenon DEF Flags, RequestFails
      <3>3. Values'
        BY TypeOK, Distinct, <2>3 DEF TypeOK, Values, States, Statuses, RequestFails
      <3>4. Places'
        BY TypeOK, Distinct, <2>3 DEF TypeOK, Places, RequestFails
      <3> QED
        BY <1>sends, <3>1, <3>2, <3>3, <3>4 DEF TypeOK, Flags, Values, Places
    <2>4. CASE RequestGoes
      <3>1. RefCount' \in 0 .. 3
        BY TypeOK, <2>4 DEF TypeOK, RequestGoes
      <3>2. Flags'
        BY <1>flags, <2>4, Zenon DEF Flags, RequestGoes
      <3>3. Values'
        BY TypeOK, Distinct, <2>4 DEF TypeOK, Values, States, Statuses, RequestGoes
      <3>4. Places'
        BY TypeOK, Distinct, <2>4 DEF TypeOK, Places, RequestGoes
      <3> QED
        BY <1>sends, <3>1, <3>2, <3>3, <3>4 DEF TypeOK, Flags, Values, Places
    <2>5. CASE RequestPends
      <3>1. RefCount' \in 0 .. 3
        BY TypeOK, <2>5 DEF TypeOK, RequestPends
      <3>2. Flags'
        BY <1>flags, <2>5, Zenon DEF Flags, RequestPends
      <3>3. Values'
        BY TypeOK, Distinct, <2>5 DEF TypeOK, Values, States, Statuses, RequestPends
      <3>4. Places'
        BY TypeOK, Distinct, <2>5 DEF TypeOK, Places, RequestPends
      <3> QED
        BY <1>sends, <3>1, <3>2, <3>3, <3>4 DEF TypeOK, Flags, Values, Places
    <2>6. CASE RequestCompletes
      <3>1. RefCount' \in 0 .. 3
        BY TypeOK, <2>6 DEF TypeOK, RequestCompletes
      <3>2. Flags'
        BY <1>flags, <2>6, Zenon DEF Flags, RequestCompletes
      <3>3. Values'
        BY TypeOK, Distinct, <2>6 DEF TypeOK, Values, States, Statuses, RequestCompletes
      <3>4. Places'
        BY TypeOK, Distinct, <2>6 DEF TypeOK, Places, RequestCompletes
      <3> QED
        BY <1>sends, <3>1, <3>2, <3>3, <3>4 DEF TypeOK, Flags, Values, Places
    <2>7. CASE RequestReturns
      <3>1. RefCount' \in 0 .. 3
        BY TypeOK, <2>7 DEF TypeOK, RequestReturns
      <3>2. Flags'
        BY <1>flags, <2>7, Zenon DEF Flags, RequestReturns
      <3>3. Values'
        BY TypeOK, Distinct, <2>7 DEF TypeOK, Values, States, Statuses, RequestReturns
      <3>4. Places'
        BY TypeOK, Distinct, <2>7 DEF TypeOK, Places, RequestReturns
      <3> QED
        BY <1>sends, <3>1, <3>2, <3>3, <3>4 DEF TypeOK, Flags, Values, Places
    <2>8. CASE SetPowerTells
      <3>1. RefCount' \in 0 .. 3
        BY TypeOK, <2>8 DEF TypeOK, SetPowerTells
      <3>2. Flags'
        BY <1>flags, <2>8, Zenon DEF Flags, SetPowerTells
      <3>3. Values'
        BY TypeOK, Distinct, <2>8 DEF TypeOK, Values, States, Statuses, SetPowerTells
      <3>4. Places'
        BY TypeOK, Distinct, <2>8 DEF TypeOK, Places, SetPowerTells
      <3> QED
        BY <1>sends, <3>1, <3>2, <3>3, <3>4 DEF TypeOK, Flags, Values, Places
    <2> QED
      BY <1>5, <2>1, <2>2, <2>3, <2>4, <2>5, <2>6, <2>7, <2>8 DEF RequestSteps
  <1>6. ASSUME NEW new \in States, SetPower(new) PROVE TypeOK'
    <2>1. CASE SetPower(new)
      <3>1. RefCount' \in 0 .. 3
        BY TypeOK, <2>1 DEF TypeOK, SetPower
      <3>2. Flags'
        <4>1. StandingBy' \in BOOLEAN /\ lost' \in BOOLEAN
          BY <1>flags, <2>1 DEF Flags, SetPower
        <4> QED
          BY <1>flags, <4>1, <2>1, Zenon DEF Flags, SetPower
      <3>3. Values'
        BY TypeOK, Distinct, <2>1 DEF TypeOK, Values, States, Statuses, SetPower
      <3>4. Places'
        BY TypeOK, Distinct, <2>1 DEF TypeOK, Places, SetPower
      <3> QED
        BY <1>sends, <3>1, <3>2, <3>3, <3>4 DEF TypeOK, Flags, Values, Places
    <2> QED
      BY <1>6, <2>1
  <1>7. CASE PowersDown \/ PowersUp \/ PowerSteps
    <2>1. CASE PowersDown
      <3>1. RefCount' \in 0 .. 3
        BY TypeOK, <2>1 DEF TypeOK, PowersDown
      <3>2. Flags'
        <4>1. StandingBy' \in BOOLEAN /\ lost' \in BOOLEAN
          BY <2>1 DEF Flags, PowersDown
        <4> QED
          BY <1>flags, <4>1, <2>1, Zenon DEF Flags, PowersDown
      <3>3. Values'
        BY TypeOK, Distinct, <2>1 DEF TypeOK, Values, States, Statuses, PowersDown
      <3>4. Places'
        BY TypeOK, Distinct, <2>1 DEF TypeOK, Places, PowersDown
      <3> QED
        BY <1>sends, <3>1, <3>2, <3>3, <3>4 DEF TypeOK, Flags, Values, Places
    <2>2. CASE PowersUp
      <3>1. RefCount' \in 0 .. 3
        BY TypeOK, <2>2 DEF TypeOK, PowersUp
      <3>2. Flags'
        <4>1. StandingBy' \in BOOLEAN /\ OutstandingRequests' \in BOOLEAN /\ lost' \in BOOLEAN
          BY <2>2 DEF Flags, PowersUp
        <4> QED
          BY <1>flags, <4>1, <2>2, Zenon DEF Flags, PowersUp
      <3>3. Values'
        BY TypeOK, Distinct, <2>2 DEF TypeOK, Values, States, Statuses, PowersUp
      <3>4. Places'
        BY TypeOK, Distinct, <2>2 DEF TypeOK, Places, PowersUp
      <3> QED
        BY <1>sends, <3>1, <3>2, <3>3, <3>4 DEF TypeOK, Flags, Values, Places
    <2>3. CASE SendsDrained
      <3>1. RefCount' \in 0 .. 3
        BY TypeOK, <2>3 DEF TypeOK, SendsDrained
      <3>2. Flags'
        BY <1>flags, <2>3, Zenon DEF Flags, SendsDrained
      <3>3. Values'
        BY TypeOK, Distinct, <2>3 DEF TypeOK, Values, States, Statuses, SendsDrained
      <3>4. Places'
        BY TypeOK, Distinct, <2>3 DEF TypeOK, Places, SendsDrained
      <3> QED
        BY <1>sends, <3>1, <3>2, <3>3, <3>4 DEF TypeOK, Flags, Values, Places
    <2>4. CASE RequestsDrained
      <3>1. RefCount' \in 0 .. 3
        BY TypeOK, <2>4 DEF TypeOK, RequestsDrained
      <3>2. Flags'
        BY <1>flags, <2>4, Zenon DEF Flags, RequestsDrained
      <3>3. Values'
        BY TypeOK, Distinct, <2>4 DEF TypeOK, Values, States, Statuses, RequestsDrained
      <3>4. Places'
        BY TypeOK, Distinct, <2>4 DEF TypeOK, Places, RequestsDrained
      <3> QED
        BY <1>sends, <3>1, <3>2, <3>3, <3>4 DEF TypeOK, Flags, Values, Places
    <2>5. CASE QueuedCompletes("power")
      <3>1. RefCount' \in 0 .. 3
        BY TypeOK, <2>5 DEF TypeOK, QueuedCompletes
      <3>2. Flags'
        BY <1>flags, <2>5, Zenon DEF Flags, QueuedCompletes
      <3>3. Values'
        BY TypeOK, Distinct, <2>5 DEF TypeOK, Values, States, Statuses, QueuedCompletes
      <3>4. Places'
        BY TypeOK, Distinct, <2>5 DEF TypeOK, Places, QueuedCompletes
      <3> QED
        BY <1>sends, <3>1, <3>2, <3>3, <3>4 DEF TypeOK, Flags, Values, Places
    <2> QED
      BY <1>7, <2>1, <2>2, <2>3, <2>4, <2>5 DEF PowerSteps
  <1>8. ASSUME NEW p \in Packets, SendBegins(p) \/ SendSteps(p) PROVE TypeOK'
    <2>1. CASE SendBegins(p)
      <3>1. RefCount' \in 0 .. 3
        BY TypeOK, <2>1 DEF TypeOK, SendBegins
      <3>2. Flags'
        BY <1>flags, <2>1, Zenon DEF Flags, SendBegins
      <3>3. Values'
        BY TypeOK, Distinct, <2>1 DEF TypeOK, Values, States, Statuses, SendBegins
      <3>4. Places'
        BY TypeOK, Distinct, <2>1 DEF TypeOK, Places, SendBegins
      <3> QED
        BY <1>sends, <3>1, <3>2, <3>3, <3>4 DEF TypeOK, Flags, Values, Places
    <2>2. CASE SendFails(p)
      <3>1. RefCount' \in 0 .. 3
        BY TypeOK, <2>2 DEF TypeOK, SendFails
      <3>2. Flags'
        BY <1>flags, <2>2, Zenon DEF Flags, SendFails
      <3>3. Values'
        BY TypeOK, Distinct, <2>2 DEF TypeOK, Values, States, Statuses, SendFails
      <3>4. Places'
        BY TypeOK, Distinct, <2>2 DEF TypeOK, Places, SendFails
      <3> QED
        BY <1>sends, <3>1, <3>2, <3>3, <3>4 DEF TypeOK, Flags, Values, Places
    <2>3. CASE SendCounts(p)
      <3>1. RefCount' \in 0 .. 3
        BY TypeOK, <2>3 DEF TypeOK, SendCounts
      <3>2. Flags'
        BY <1>flags, <2>3, Zenon DEF Flags, SendCounts
      <3>3. Values'
        BY TypeOK, Distinct, <2>3 DEF TypeOK, Values, States, Statuses, SendCounts
      <3>4. Places'
        BY TypeOK, Distinct, <2>3 DEF TypeOK, Places, SendCounts
      <3> QED
        BY <1>sends, <3>1, <3>2, <3>3, <3>4 DEF TypeOK, Flags, Values, Places
    <2>4. CASE Sends(p)
      <3>1. RefCount' \in 0 .. 3
        BY TypeOK, <2>4 DEF TypeOK, Sends
      <3>2. Flags'
        BY <1>flags, <2>4, Zenon DEF Flags, Sends
      <3>3. Values'
        BY TypeOK, Distinct, <2>4 DEF TypeOK, Values, States, Statuses, Sends
      <3>4. Places'
        BY TypeOK, Distinct, <2>4 DEF TypeOK, Places, Sends
      <3> QED
        BY <1>sends, <3>1, <3>2, <3>3, <3>4 DEF TypeOK, Flags, Values, Places
    <2>5. CASE SendCompletes(p)
      <3>1. RefCount' \in 0 .. 3
        BY TypeOK, <2>5 DEF TypeOK, SendCompletes
      <3>2. Flags'
        BY <1>flags, <2>5, Zenon DEF Flags, SendCompletes
      <3>3. Values'
        BY TypeOK, Distinct, <2>5 DEF TypeOK, Values, States, Statuses, SendCompletes
      <3>4. Places'
        BY TypeOK, Distinct, <2>5 DEF TypeOK, Places, SendCompletes
      <3> QED
        BY <1>sends, <3>1, <3>2, <3>3, <3>4 DEF TypeOK, Flags, Values, Places
    <2>6. CASE SendUncounts(p)
      <3>1. RefCount' \in 0 .. 3
        BY TypeOK, <2>6 DEF TypeOK, SendUncounts
      <3>2. Flags'
        BY <1>flags, <2>6, Zenon DEF Flags, SendUncounts
      <3>3. Values'
        BY TypeOK, Distinct, <2>6 DEF TypeOK, Values, States, Statuses, SendUncounts
      <3>4. Places'
        BY TypeOK, Distinct, <2>6 DEF TypeOK, Places, SendUncounts
      <3> QED
        BY <1>sends, <3>1, <3>2, <3>3, <3>4 DEF TypeOK, Flags, Values, Places
    <2> QED
      BY <1>8, <2>1, <2>2, <2>3, <2>4, <2>5, <2>6 DEF SendSteps
  <1>9. ASSUME NEW s \in Statuses, PtStatus(s) PROVE TypeOK'
    <2>1. CASE PtStatus(s)
      <3>1. RefCount' \in 0 .. 3
        BY TypeOK, <2>1 DEF TypeOK, PtStatus
      <3>2. Flags'
        <4>1. lost' \in BOOLEAN
          BY <2>1 DEF Flags, PtStatus
        <4> QED
          BY <1>flags, <4>1, <2>1, Zenon DEF Flags, PtStatus
      <3>3. Values'
        BY TypeOK, Distinct, AdaptAssumption, <2>1
           DEF TypeOK, Values, States, Statuses, PtStatus
      <3>4. Places'
        BY TypeOK, Distinct, <2>1 DEF TypeOK, Places, PtStatus
      <3> QED
        BY <1>sends, <3>1, <3>2, <3>3, <3>4 DEF TypeOK, Flags, Values, Places
    <2> QED
      BY <1>9, <2>1
  <1>10. CASE UNCHANGED vars
    BY <1>10, TypeOK DEF TypeOK, vars
  <1>11. CASE StatusSteps
    <2>1. CASE StatusTestsMP
      <3>1. RefCount' \in 0 .. 3
        BY TypeOK, <2>1 DEF TypeOK, StatusTestsMP
      <3>2. Flags'
        <4>1. lost' \in BOOLEAN
          BY <2>1 DEF Flags, StatusTestsMP
        <4> QED
          BY <1>flags, <4>1, <2>1, Zenon DEF Flags, StatusTestsMP
      <3>3. Values'
        BY TypeOK, Distinct, AdaptAssumption, <2>1
           DEF TypeOK, Values, States, Statuses, StatusTestsMP
      <3>4. Places'
        BY TypeOK, Distinct, <2>1 DEF TypeOK, Places, StatusTestsMP
      <3> QED
        BY <1>sends, <3>1, <3>2, <3>3, <3>4 DEF TypeOK, Flags, Values, Places
    <2>2. CASE StatusTestsPT
      <3>1. RefCount' \in 0 .. 3
        BY TypeOK, <2>2 DEF TypeOK, StatusTestsPT
      <3>2. Flags'
        <4>1. lost' \in BOOLEAN
          BY <2>2 DEF Flags, StatusTestsPT
        <4> QED
          BY <1>flags, <4>1, <2>2, Zenon DEF Flags, StatusTestsPT
      <3>3. Values'
        BY TypeOK, Distinct, AdaptAssumption, <2>2
           DEF TypeOK, Values, States, Statuses, StatusTestsPT
      <3>4. Places'
        BY TypeOK, Distinct, <2>2 DEF TypeOK, Places, StatusTestsPT
      <3> QED
        BY <1>sends, <3>1, <3>2, <3>3, <3>4 DEF TypeOK, Flags, Values, Places
    <2>3. CASE StatusTells
      <3>1. RefCount' \in 0 .. 3
        BY TypeOK, <2>3 DEF TypeOK, StatusTells
      <3>2. Flags'
        BY <1>flags, <2>3, Zenon DEF Flags, StatusTells
      <3>3. Values'
        BY TypeOK, Distinct, AdaptAssumption, <2>3
           DEF TypeOK, Values, States, Statuses, StatusTells
      <3>4. Places'
        BY TypeOK, Distinct, <2>3 DEF TypeOK, Places, StatusTells
      <3> QED
        BY <1>sends, <3>1, <3>2, <3>3, <3>4 DEF TypeOK, Flags, Values, Places
    <2>4. CASE StatusSaves
      <3>1. RefCount' \in 0 .. 3
        BY TypeOK, <2>4 DEF TypeOK, StatusSaves
      <3>2. Flags'
        BY <1>flags, <2>4, Zenon DEF Flags, StatusSaves
      <3>3. Values'
        BY TypeOK, Distinct, AdaptAssumption, <2>4
           DEF TypeOK, Values, States, Statuses, StatusSaves
      <3>4. Places'
        BY TypeOK, Distinct, <2>4 DEF TypeOK, Places, StatusSaves
      <3> QED
        BY <1>sends, <3>1, <3>2, <3>3, <3>4 DEF TypeOK, Flags, Values, Places
    <2> QED
      BY <1>11, <2>1, <2>2, <2>3, <2>4 DEF StatusSteps
  <1> QED
    BY <1>1, <1>2, <1>3, <1>4, <1>5, <1>6, <1>7, <1>8, <1>9, <1>10, <1>11 DEF Next

-----------------------------------------------------------------------------
\* The driver starts in it,
LEMMA InitIInv ==
  ASSUME Init
  PROVE  IInv
  <1>1. TypeOK
    <2>1. 0 \in 0 .. 3 /\ 0 \in 0 .. Cardinality(Packets)
      BY AdaptAssumption, FS_CardinalityType
    <2>2. \A t \in Threads : pc[t] = "out"
      BY DEF Init
    <2>3. DOMAIN pc = Threads
      BY DEF Init
    <2> QED
      BY <2>1, <2>2, <2>3, Distinct DEF Init, TypeOK, States, Statuses
  <1>2. Binding /\ Initializing /\ Unbinding /\ Memory /\ Counted /\ Requests /\ Indicating /\ Media
    BY Distinct
       DEF Init, At, Binding, Initializing, Unbinding, Memory, Counted, Requests, Indicating,
           Media, RequestInOnePlace, QueuedForPower
  <1>3. Sending
    <2>1. Where(pc, Packets, Below) = {}
      BY Distinct DEF Init, Where, Below
    <2> QED
      BY <2>1, FS_EmptySet, Distinct DEF Init, Sending
  <1> QED
    BY <1>1, <1>2, <1>3 DEF IInv

\* and every step keeps it.
LEMMA StepIInv ==
  ASSUME IInv, [Next]_vars
  PROVE  IInv'
  <1>1. Sending'
    BY StepSending DEF IInv
  <1> QED
    BY <1>1, StepType, StepBinding, StepInitializing, StepUnbinding, StepMemory, StepCounted,
       StepRequests, StepIndicating, StepMedia
       DEF IInv

\* Both ends of an ADAPT, its references, the request of NDIS, the packets and
\* the media status agree in every state.
THEOREM Invariant == Spec => []IInv
  <1>1. Init => IInv
    BY InitIInv
  <1>2. IInv /\ [Next]_vars => IInv'
    BY StepIInv
  <1> QED
    BY <1>1, <1>2, PTL DEF Spec

\* The number of those who are counted, which ReferencesExact compares with.
LEMMA HoldersCounted ==
  /\ Cardinality({}) = 0
  /\ Cardinality({"binding"}) = 1 /\ Cardinality({"bind"}) = 1 /\ Cardinality({"miniport"}) = 1
  /\ Cardinality({"binding", "bind"}) = 2 /\ Cardinality({"binding", "miniport"}) = 2
  /\ Cardinality({"bind", "miniport"}) = 2
  /\ Cardinality({"binding", "bind", "miniport"}) = 3
  <1>1. IsFiniteSet({}) /\ Cardinality({}) = 0
    BY FS_EmptySet
  <1>2. \A x : IsFiniteSet({x}) /\ Cardinality({x}) = 1
    BY FS_Singleton
  <1>3. \A x, y : x # y => IsFiniteSet({x, y}) /\ Cardinality({x, y}) = 2
    <2> SUFFICES ASSUME NEW x, NEW y, x # y PROVE IsFiniteSet({x, y}) /\ Cardinality({x, y}) = 2
      OBVIOUS
    <2>1. {x, y} = {x} \cup {y} /\ y \notin {x}
      OBVIOUS
    <2>2. IsFiniteSet({x}) /\ Cardinality({x}) = 1
      BY <1>2
    <2>3. IsFiniteSet({x} \cup {y}) /\ Cardinality({x} \cup {y}) = Cardinality({x}) + 1
      BY <2>1, <2>2, FS_AddElement
    <2> QED
      BY <2>1, <2>2, <2>3
  <1>4. Cardinality({"binding", "bind", "miniport"}) = 3
    <2>1. IsFiniteSet({"binding", "bind"}) /\ Cardinality({"binding", "bind"}) = 2
      BY <1>3
    <2>2. {"binding", "bind", "miniport"} = {"binding", "bind"} \cup {"miniport"}
      OBVIOUS
    <2>3. "miniport" \notin {"binding", "bind"}
      OBVIOUS
    <2> DEFINE S == {"binding", "bind"}
               x == "miniport"
    <2>4. IsFiniteSet(S) /\ x \notin S /\ Cardinality(S) = 2
      BY <2>1, <2>3
    <2> HIDE DEF S, x
    <2>5. Cardinality(S \cup {x}) = 3
      BY <2>4, FS_AddElement
    <2> QED
      BY <2>2, <2>5 DEF S, x
  <1> QED
    BY <1>1, <1>2, <1>3, <1>4

\* PtBindAdapter, MPInitialize, MPHalt, PtUnbindAdapter: the references are the
\* holders, the ADAPT is freed once, under nobody, and always.
THEOREM AdaptAlwaysCounted == Spec => []AdaptCounted
  <1> DEFINE binding  == IF BindingHandle THEN {"binding"} ELSE {}
             bind     == IF At("bind", "init") THEN {"bind"} ELSE {}
             miniport == IF At("init", "done") /\ im \in {"running", "halting"} THEN {"miniport"} ELSE {}
  <1>1. ASSUME IInv, memory = "allocated" PROVE RefCount = Cardinality(binding \cup bind \cup miniport)
    <2> DEFINE holders == binding \cup bind \cup miniport
    <2>0. im \in {"running", "halting"} => At("init", "done")
      BY <1>1 DEF IInv, TypeOK, Initializing, At
    <2>1. CASE ~BindingHandle /\ ~At("bind", "init") /\ im \notin {"running", "halting"}
      <3>1. RefCount = 0
        BY <1>1, <2>1 DEF IInv, TypeOK, Binding, Initializing, Unbinding, Memory, Counted, At
      <3>2. holders = {}
        BY <2>0, <2>1
      <3> QED
        BY <3>1, <3>2, HoldersCounted
    <2>2. CASE BindingHandle /\ ~At("bind", "init") /\ im \notin {"running", "halting"}
      <3>1. RefCount = 1
        BY <1>1, <2>2 DEF IInv, TypeOK, Binding, Initializing, Unbinding, Memory, Counted, At
      <3>2. holders = {"binding"}
        BY <2>0, <2>2
      <3> QED
        BY <3>1, <3>2, HoldersCounted
    <2>3. CASE ~BindingHandle /\ At("bind", "init") /\ im \notin {"running", "halting"}
      <3>1. RefCount = 1
        BY <1>1, <2>3 DEF IInv, TypeOK, Binding, Initializing, Unbinding, Memory, Counted, At
      <3>2. holders = {"bind"}
        BY <2>0, <2>3
      <3> QED
        BY <3>1, <3>2, HoldersCounted
    <2>4. CASE ~BindingHandle /\ ~At("bind", "init") /\ im \in {"running", "halting"}
      <3>1. RefCount = 1
        BY <1>1, <2>4 DEF IInv, TypeOK, Binding, Initializing, Unbinding, Memory, Counted, At
      <3>2. holders = {"miniport"}
        BY <2>0, <2>4
      <3> QED
        BY <3>1, <3>2, HoldersCounted
    <2>5. CASE BindingHandle /\ At("bind", "init") /\ im \notin {"running", "halting"}
      <3>1. RefCount = 2
        BY <1>1, <2>5 DEF IInv, TypeOK, Binding, Initializing, Unbinding, Memory, Counted, At
      <3>2. holders = {"binding", "bind"}
        BY <2>0, <2>5
      <3> QED
        BY <3>1, <3>2, HoldersCounted
    <2>6. CASE BindingHandle /\ ~At("bind", "init") /\ im \in {"running", "halting"}
      <3>1. RefCount = 2
        BY <1>1, <2>6 DEF IInv, TypeOK, Binding, Initializing, Unbinding, Memory, Counted, At
      <3>2. holders = {"binding", "miniport"}
        BY <2>0, <2>6
      <3> QED
        BY <3>1, <3>2, HoldersCounted
    <2>7. CASE ~BindingHandle /\ At("bind", "init") /\ im \in {"running", "halting"}
      <3>1. RefCount = 2
        BY <1>1, <2>7 DEF IInv, TypeOK, Binding, Initializing, Unbinding, Memory, Counted, At
      <3>2. holders = {"bind", "miniport"}
        BY <2>0, <2>7
      <3> QED
        BY <3>1, <3>2, HoldersCounted
    <2>8. CASE BindingHandle /\ At("bind", "init") /\ im \in {"running", "halting"}
      <3>1. RefCount = 3
        BY <1>1, <2>8 DEF IInv, TypeOK, Binding, Initializing, Unbinding, Memory, Counted, At
      <3>2. holders = {"binding", "bind", "miniport"}
        BY <2>0, <2>8
      <3> QED
        BY <3>1, <3>2, HoldersCounted
    <2> QED
      BY <2>1, <2>2, <2>3, <2>4, <2>5, <2>6, <2>7, <2>8
  <1>2. IInv => ReferencesExact
    BY <1>1 DEF ReferencesExact
  <1>3. IInv => FreedUnused
    BY
       DEF IInv, TypeOK, Binding, Initializing, Unbinding, Memory, Requests, Indicating,
           Sending, FreedUnused, At
  <1>4. IInv => NothingLeft
    BY DEF IInv, TypeOK, Binding, Initializing, Unbinding, Memory, NothingLeft, At
  <1>5. IInv => AdaptCounted
    BY <1>2, <1>3, <1>4 DEF IInv, AdaptCounted
  <1> QED
    BY <1>5, Invariant, PTL

\* MPQueryInformation, MPSendPackets, PtPnPNetEventSetPower: what goes below has a
\* binding that is awake, and a request waits in one place, for power only.
THEOREM RequestsAlwaysSettled == Spec => []RequestsSettled
  <1>1. ASSUME IInv PROVE OutstandingSends = Cardinality({p \in Packets : pc[p] \notin {"out", "lock"}})
    <2>1. Where(pc, Packets, Below) = {p \in Packets : pc[p] \notin {"out", "lock"}}
      BY <1>1 DEF IInv, TypeOK, Where, Below
    <2> QED
      BY <1>1, <2>1 DEF IInv, Sending
  <1>2. ASSUME IInv,
               \/ OutstandingRequests
               \/ OutstandingSends > Cardinality({p \in Packets : At(p, "count")})
        PROVE  BindingHandle
    <2>1. im = "running"
      <3>1. CASE OutstandingRequests
        BY <1>2, <3>1 DEF IInv, TypeOK, Requests, RequestInOnePlace, At
      <3>2. CASE im # "running"
        <4>1. {p \in Packets : At(p, "count")} = {p \in Packets : pc[p] \notin {"out", "lock"}}
          BY <1>2, <3>2 DEF IInv, TypeOK, Sending, At
        <4>2. OutstandingSends \in Nat
          BY <1>2, AdaptAssumption, FS_CardinalityType DEF IInv, TypeOK
        <4> QED
          BY <1>1, <1>2, <3>1, <4>1, <4>2
      <3> QED
        BY <3>1, <3>2
    <2> QED
      BY <1>2, <2>1 DEF IInv, TypeOK, Binding, Initializing, Unbinding, Memory, At
  <1>3. IInv => BelowBound
    BY <1>1, <1>2 DEF BelowBound
  <1>4. IInv => SleepsQuietly
    BY DEF IInv, Requests, Sending, SleepsQuietly, At
  <1>5. IInv => RequestsSettled
    BY <1>3, <1>4 DEF IInv, Requests, RequestsSettled
  <1> QED
    BY <1>5, Invariant, PTL

\* PtStatus, MPProcessSetPowerOid: the protocols above know the last media status,
\* unless it is one of those the property excepts.
THEOREM StatusAlwaysTold == Spec => []StatusTold
  <1>1. IInv => StatusTold
    BY DEF IInv, Media, StatusTold
  <1> QED
    BY <1>1, Invariant, PTL

-----------------------------------------------------------------------------
(* PassthruRecv: packets that are received while the miniport is halted.   *)

LEMMA RecvFinite == IsFiniteSet(Frames) /\ PoolSize \in Nat
  BY PartsAssumption DEF Recv!RecvAssumption, Recv!IsFiniteSet, IsFiniteSet

LEMMA RecvCounting == \A S : Recv!Cardinality(S) = Cardinality(S)
  BY DEF Recv!Cardinality, Cardinality

\* The packets that have one of the pool.
Taken(m, a) == {p \in Frames : m[p] /\ a[p] \in {"packed", "going", "above", "back", "kept"}}

\* What is out of the pool is with somebody, and those who have a packet of the
\* pool without an indication have it as their own.
RecvInv ==
    /\ FramesSafe /\ pool \in Nat
    /\ RecvHandle <=> halt = "out"
    /\ \A p \in Frames : frames[p] \in {"packed", "going"} => mine[p]
    /\ \A p \in Frames : frames[p] = "going" => RecvHandle \/ p \in late
    /\ \A p \in Frames : frames[p] = "kept" => mine[p] /\ keepable[p]

LEMMA TakenFinite == IsFiniteSet(Taken(mine, frames))
  BY RecvFinite, FS_Subset DEF Taken

\* Who is where; the pool's count apart.
RecvPlaces ==
    /\ RecvHandle \in BOOLEAN
    /\ halt \in {"out", "close", "free", "done"}
    /\ frames \in [Frames -> {"below", "looked", "packed", "going", "above", "back", "kept"}]
    /\ keepable \in [Frames -> BOOLEAN] /\ mine \in [Frames -> BOOLEAN]
    /\ late \subseteq Frames
    /\ RecvHandle <=> halt = "out"
    /\ \A p \in Frames : frames[p] \in {"packed", "going"} => mine[p]
    /\ \A p \in Frames : frames[p] = "going" => RecvHandle \/ p \in late
    /\ \A p \in Frames : frames[p] = "kept" => mine[p] /\ keepable[p]
    /\ Recv!IndicatedToMiniport /\ Recv!PoolOutlivesCalls

PoolCounted == pool \in Nat /\ pool + Cardinality(Taken(mine, frames)) = PoolSize

LEMMA RecvParts == RecvInv <=> RecvPlaces /\ PoolCounted
  BY RecvCounting DEF RecvInv, RecvPlaces, PoolCounted, FramesSafe, Recv!FramesSafe, Recv!TypeOK, Taken

LEMMA RecvPlacesStep ==
  ASSUME RecvPlaces, [Recv!Next]_(Recv!vars)
  PROVE  RecvPlaces'
  <1> USE DEF RecvPlaces, Recv!IndicatedToMiniport, Recv!PoolOutlivesCalls, Recv!Move, Recv!Still
  <1>1. ASSUME NEW p \in Frames, Recv!Receives(p) PROVE RecvPlaces'
    BY <1>1 DEF Recv!Receives
  <1>2. ASSUME NEW p \in Frames, Recv!IndicatesSame(p) PROVE RecvPlaces'
    BY <1>2 DEF Recv!IndicatesSame
  <1>3. ASSUME NEW p \in Frames, Recv!Allocates(p) PROVE RecvPlaces'
    BY <1>3 DEF Recv!Allocates
  <1>4. ASSUME NEW p \in Frames, Recv!Drops(p) PROVE RecvPlaces'
    BY <1>4 DEF Recv!Drops
  <1>5. ASSUME NEW p \in Frames, Recv!IndicatesMine(p) PROVE RecvPlaces'
    BY <1>5 DEF Recv!IndicatesMine
  <1>6. ASSUME NEW p \in Frames, Recv!Reclaims(p) PROVE RecvPlaces'
    BY <1>6 DEF Recv!Reclaims
  <1>7. ASSUME NEW p \in Frames, Recv!MPReturnPacket(p) PROVE RecvPlaces'
    BY <1>7 DEF Recv!MPReturnPacket
  <1>8. ASSUME NEW p \in Frames, Recv!TestsMiniport(p) PROVE RecvPlaces'
    BY <1>8 DEF Recv!TestsMiniport
  <1>9. CASE Recv!HaltBegins
    BY <1>9 DEF Recv!HaltBegins
  <1>10. CASE Recv!HaltCloses
    BY <1>10 DEF Recv!HaltCloses
  <1>11. CASE Recv!HaltFrees
    BY <1>11 DEF Recv!HaltFrees
  <1>12. CASE UNCHANGED Recv!vars
    BY <1>12 DEF Recv!vars
  <1> QED
    BY <1>1, <1>2, <1>3, <1>4, <1>5, <1>6, <1>7, <1>8, <1>9, <1>10, <1>11, <1>12 DEF Recv!Next

LEMMA PoolCountedStep ==
  ASSUME RecvPlaces, PoolCounted, [Recv!Next]_(Recv!vars)
  PROVE  PoolCounted'
  <1> USE RecvFinite DEF Recv!Move, Recv!Still
  <1> DEFINE before == Cardinality(Taken(mine, frames))
             after == Cardinality(Taken(mine', frames'))
  <1>0. before \in Nat
    BY TakenFinite, FS_CardinalityType
  <1>1. ASSUME NEW p \in Frames, Recv!Receives(p) PROVE PoolCounted'
    <2>1. Taken(mine, frames) \ {p} = Taken(mine', frames') \ {p}
      BY <1>1 DEF Recv!Receives, RecvPlaces, Taken
    <2>2. p \in Taken(mine, frames) <=> p \in Taken(mine', frames')
      BY <1>1 DEF Recv!Receives, RecvPlaces, Taken
    <2>3. after = before
      BY <2>1, <2>2, TakenFinite, CountChange
    <2> QED
      BY <1>1, <2>3 DEF PoolCounted, Recv!Receives
  <1>2. ASSUME NEW p \in Frames, Recv!IndicatesSame(p) PROVE PoolCounted'
    <2>1. Taken(mine, frames) \ {p} = Taken(mine', frames') \ {p}
      BY <1>2 DEF Recv!IndicatesSame, RecvPlaces, Taken
    <2>2. p \in Taken(mine, frames) <=> p \in Taken(mine', frames')
      BY <1>2 DEF Recv!IndicatesSame, RecvPlaces, Taken
    <2>3. after = before
      BY <2>1, <2>2, TakenFinite, CountChange
    <2> QED
      BY <1>2, <2>3 DEF PoolCounted, Recv!IndicatesSame
  <1>3. ASSUME NEW p \in Frames, Recv!Allocates(p) PROVE PoolCounted'
    <2>1. Taken(mine, frames) \ {p} = Taken(mine', frames') \ {p}
      BY <1>3 DEF Recv!Allocates, RecvPlaces, Taken
    <2>2. p \notin Taken(mine, frames) /\ p \in Taken(mine', frames')
      BY <1>3 DEF Recv!Allocates, RecvPlaces, Taken
    <2>3. pool > 0 /\ pool' = pool - 1
      BY <1>3 DEF Recv!Allocates
    <2>4. after = before + 1
      BY <2>1, <2>2, TakenFinite, CountChange
    <2> QED
      BY <1>0, <2>3, <2>4 DEF PoolCounted
  <1>4. ASSUME NEW p \in Frames, Recv!Drops(p) PROVE PoolCounted'
    <2>1. Taken(mine, frames) \ {p} = Taken(mine', frames') \ {p}
      BY <1>4 DEF Recv!Drops, RecvPlaces, Taken
    <2>2. p \in Taken(mine, frames) <=> p \in Taken(mine', frames')
      BY <1>4 DEF Recv!Drops, RecvPlaces, Taken
    <2>3. after = before
      BY <2>1, <2>2, TakenFinite, CountChange
    <2> QED
      BY <1>4, <2>3 DEF PoolCounted, Recv!Drops
  <1>5. ASSUME NEW p \in Frames, Recv!IndicatesMine(p) PROVE PoolCounted'
    <2>1. Taken(mine, frames) \ {p} = Taken(mine', frames') \ {p}
      BY <1>5 DEF Recv!IndicatesMine, RecvPlaces, Taken
    <2>2. p \in Taken(mine, frames) <=> p \in Taken(mine', frames')
      BY <1>5 DEF Recv!IndicatesMine, RecvPlaces, Taken
    <2>3. after = before
      BY <2>1, <2>2, TakenFinite, CountChange
    <2> QED
      BY <1>5, <2>3 DEF PoolCounted, Recv!IndicatesMine
  <1>6. ASSUME NEW p \in Frames, Recv!Reclaims(p) PROVE PoolCounted'
    <2>1. Taken(mine, frames) \ {p} = Taken(mine', frames') \ {p}
      BY <1>6 DEF Recv!Reclaims, RecvPlaces, Taken
    <2>2. p \in Taken(mine, frames) <=> mine[p]
      BY <1>6 DEF Recv!Reclaims, Taken
    <2>3. p \notin Taken(mine', frames')
      BY <1>6 DEF Recv!Reclaims, RecvPlaces, Taken
    <2>4. CASE mine[p]
      <3>1. after = before - 1
        BY <2>1, <2>2, <2>3, <2>4, TakenFinite, CountChange
      <3>2. pool' = pool + 1
        BY <1>6, <2>4 DEF Recv!Reclaims
      <3> QED
        BY <1>0, <3>1, <3>2 DEF PoolCounted
    <2>5. CASE ~mine[p]
      <3>1. after = before
        BY <2>1, <2>2, <2>3, <2>5, TakenFinite, CountChange
      <3>2. pool' = pool
        BY <1>6, <2>5 DEF Recv!Reclaims
      <3> QED
        BY <3>1, <3>2 DEF PoolCounted
    <2> QED
      BY <2>4, <2>5
  <1>7. ASSUME NEW p \in Frames, Recv!MPReturnPacket(p) PROVE PoolCounted'
    <2>1. Taken(mine, frames) \ {p} = Taken(mine', frames') \ {p}
      BY <1>7 DEF Recv!MPReturnPacket, RecvPlaces, Taken
    <2>2. p \in Taken(mine, frames) <=> mine[p]
      BY <1>7 DEF Recv!MPReturnPacket, Taken
    <2>3. p \notin Taken(mine', frames')
      BY <1>7 DEF Recv!MPReturnPacket, RecvPlaces, Taken
    <2>4. CASE mine[p]
      <3>1. after = before - 1
        BY <2>1, <2>2, <2>3, <2>4, TakenFinite, CountChange
      <3>2. pool' = pool + 1
        BY <1>7, <2>4 DEF Recv!MPReturnPacket
      <3> QED
        BY <1>0, <3>1, <3>2 DEF PoolCounted
    <2>5. CASE ~mine[p]
      <3>1. after = before
        BY <2>1, <2>2, <2>3, <2>5, TakenFinite, CountChange
      <3>2. pool' = pool
        BY <1>7, <2>5 DEF Recv!MPReturnPacket
      <3> QED
        BY <3>1, <3>2 DEF PoolCounted
    <2> QED
      BY <2>4, <2>5
  <1>8. ASSUME NEW p \in Frames, Recv!TestsMiniport(p) PROVE PoolCounted'
    <2>1. Taken(mine, frames) \ {p} = Taken(mine', frames') \ {p}
      BY <1>8 DEF Recv!TestsMiniport, RecvPlaces, Taken
    <2>2. p \in Taken(mine, frames) <=> p \in Taken(mine', frames')
      BY <1>8 DEF Recv!TestsMiniport, RecvPlaces, Taken
    <2>3. after = before
      BY <2>1, <2>2, TakenFinite, CountChange
    <2> QED
      BY <1>8, <2>3 DEF PoolCounted, Recv!TestsMiniport
  <1>9. CASE Recv!HaltBegins \/ Recv!HaltCloses \/ Recv!HaltFrees \/ UNCHANGED Recv!vars
    BY <1>9 DEF PoolCounted, Recv!vars, Recv!HaltBegins, Recv!HaltCloses, Recv!HaltFrees
  <1> QED
    BY <1>1, <1>2, <1>3, <1>4, <1>5, <1>6, <1>7, <1>8, <1>9 DEF Recv!Next

LEMMA RecvInit ==
  ASSUME Recv!Init PROVE RecvPlaces /\ PoolCounted
  <1> USE RecvFinite DEF Recv!Init
  <1>1. RecvPlaces
    BY DEF RecvPlaces, Recv!IndicatedToMiniport, Recv!PoolOutlivesCalls
  <1>2. Taken(mine, frames) = {}
    BY DEF Taken
  <1>3. Cardinality({}) = 0
    BY FS_EmptySet
  <1>4. pool = PoolSize /\ pool \in Nat
    OBVIOUS
  <1>5. PoolCounted
    <2> HIDE DEF Recv!Init
    <2>1. Cardinality(Taken(mine, frames)) = 0
      BY <1>2, <1>3, Zenon
    <2> QED
      BY <1>4, <2>1 DEF PoolCounted
  <1> QED
    BY <1>1, <1>5

\* A halt takes the pool from under no packet that is received or indicated, and
\* the miniport from none of the pool's that had not passed the test of its handle;
\* the pool and what is out of it are the whole pool (protocol.c: PtReceivePacket,
\* miniport.c: MPHalt).
THEOREM FramesAlwaysSafe == Recv!Spec => []FramesSafe
  <1>1. Recv!Init => RecvInv
    BY RecvInit, RecvParts
  <1>2. RecvInv /\ [Recv!Next]_(Recv!vars) => RecvInv'
    <2> SUFFICES ASSUME RecvInv, [Recv!Next]_(Recv!vars) PROVE RecvInv'
      OBVIOUS
    <2>1. RecvPlaces /\ PoolCounted
      BY RecvParts
    <2>2. RecvPlaces' /\ PoolCounted'
      BY <2>1, RecvPlacesStep, PoolCountedStep
    <2> QED
      BY <2>2, RecvCounting DEF RecvInv, RecvPlaces, PoolCounted, FramesSafe, Recv!FramesSafe, Recv!TypeOK, Taken
  <1>3. RecvInv => FramesSafe
    BY DEF RecvInv
  <1> QED
    BY <1>1, <1>2, <1>3, PTL DEF Recv!Spec

-----------------------------------------------------------------------------
(* PassthruDevice: the control device.                                     *)

LEMMA DeviceFinite == IsFiniteSet(Miniports)
  BY PartsAssumption DEF Device!DeviceAssumption, Device!IsFiniteSet, IsFiniteSet

LEMMA DeviceCounting == \A S : Device!Cardinality(S) = Cardinality(S)
  BY DEF Device!Cardinality, Cardinality

Registered == Device!Where({"wait", "create", "created", "in"})
Making     == {"create", "created"}
Deleting   == {"delete", "deleted"}

\* One thread waits or makes the device, one deletes it.  Whoever is served while
\* it is deleted came behind one who waits.
DevicePlaces ==
    /\ ControlDeviceState \in {"READY", "CREATING", "DELETING"}
    /\ NdisDeviceHandle \in BOOLEAN /\ refused \in BOOLEAN
    /\ threads \in [Miniports -> {"out", "wait", "create", "created", "in", "delete", "deleted"}]
    /\ \A m, n \in Miniports :
          /\ threads[m] \in Making \cup {"wait"} /\ threads[n] \in Making \cup {"wait"} => m = n
          /\ threads[m] \in Deleting /\ threads[n] \in Deleting => m = n
          /\ threads[m] \in Deleting => threads[n] \notin Making
          /\ threads[m] \in Deleting /\ threads[n] = "in" => \E w \in Miniports : threads[w] = "wait"
    /\ ControlDeviceState = "CREATING" <=> \E m \in Miniports : threads[m] \in Making
    /\ ControlDeviceState = "DELETING" <=> \E m \in Miniports : threads[m] \in Deleting

\* What each of them finds.
DeviceFound ==
    /\ \A m \in Miniports :
          /\ threads[m] \in {"create", "deleted"} => ~NdisDeviceHandle
          /\ threads[m] = "created" => NdisDeviceHandle # refused
    /\ ControlDeviceState = "READY" =>
          /\ (\A m \in Miniports : threads[m] # "in") => ~NdisDeviceHandle
          /\ (\E m \in Miniports : threads[m] = "wait") => ~NdisDeviceHandle
          /\ (\E m \in Miniports : threads[m] = "in") /\ (\A m \in Miniports : threads[m] # "wait")
                => NdisDeviceHandle # refused

DeviceCounted == MiniportCount = Cardinality(Registered)

LEMMA RegisteredCount ==
  ASSUME DeviceCounted
  PROVE  /\ IsFiniteSet(Registered) /\ MiniportCount \in Nat
         /\ MiniportCount = 0 <=> \A m \in Miniports : threads[m] \notin Making \cup {"wait", "in"}
         /\ \A m \in Miniports : threads[m] \in Making \cup {"wait", "in"} =>
               (MiniportCount = 1 <=> \A n \in Miniports : threads[n] \in Making \cup {"wait", "in"} => n = m)
  <1>1. IsFiniteSet(Registered)
    BY DeviceFinite, FS_Subset DEF Registered, Device!Where
  <1>2. MiniportCount \in Nat
    BY <1>1, FS_CardinalityType DEF DeviceCounted
  <1>3. \A m \in Miniports : m \in Registered <=> threads[m] \in Making \cup {"wait", "in"}
    BY DEF Registered, Device!Where, Making
  <1>4. MiniportCount = 0 <=> Registered = {}
    BY <1>1, FS_EmptySet DEF DeviceCounted
  <1>5. Registered \subseteq Miniports
    BY DEF Registered, Device!Where
  <1>6. MiniportCount = 0 <=> \A m \in Miniports : threads[m] \notin Making \cup {"wait", "in"}
    BY <1>3, <1>4, <1>5
  <1>7. ASSUME NEW m \in Miniports, threads[m] \in Making \cup {"wait", "in"}
        PROVE  MiniportCount = 1 <=> \A n \in Miniports : threads[n] \in Making \cup {"wait", "in"} => n = m
    <2>1. m \in Registered
      BY <1>3, <1>7
    <2>2. (\A n \in Miniports : threads[n] \in Making \cup {"wait", "in"} => n = m) <=> Registered \ {m} = {}
      BY <1>3, <1>5
    <2>3. IsFiniteSet(Registered \ {m}) /\ Cardinality(Registered \ {m}) = Cardinality(Registered) - 1
      BY <1>1, <2>1, FS_RemoveElement
    <2>4. Registered \ {m} = {} <=> Cardinality(Registered \ {m}) = 0
      BY <2>3, FS_EmptySet
    <2> QED
      BY <1>2, <2>2, <2>3, <2>4 DEF DeviceCounted
  <1> QED
    BY <1>1, <1>2, <1>6, <1>7

LEMMA DevicePlacesStep ==
  ASSUME DevicePlaces, DeviceCounted, [Device!Next]_(Device!vars)
  PROVE  DevicePlaces'
  <1> USE DEF DevicePlaces, Making, Deleting, Device!Move
  <1>1. ASSUME NEW m \in Miniports, Device!Registers(m) PROVE DevicePlaces'
    BY <1>1, RegisteredCount DEF Device!Registers
  <1>2. ASSUME NEW m \in Miniports, Device!RegisterWaits(m) PROVE DevicePlaces'
    BY <1>2 DEF Device!RegisterWaits
  <1>3. ASSUME NEW m \in Miniports, Device!RegisterCreates(m) PROVE DevicePlaces'
    BY <1>3 DEF Device!RegisterCreates
  <1>4. ASSUME NEW m \in Miniports, Device!RegisterEnds(m) PROVE DevicePlaces'
    BY <1>4 DEF Device!RegisterEnds
  <1>5. ASSUME NEW m \in Miniports, Device!Deregisters(m) PROVE DevicePlaces'
    BY <1>5, RegisteredCount DEF Device!Deregisters
  <1>6. ASSUME NEW m \in Miniports, Device!DeregisterDeletes(m) PROVE DevicePlaces'
    BY <1>6 DEF Device!DeregisterDeletes
  <1>7. ASSUME NEW m \in Miniports, Device!DeregisterEnds(m) PROVE DevicePlaces'
    BY <1>7 DEF Device!DeregisterEnds
  <1>8. CASE UNCHANGED Device!vars
    BY <1>8 DEF Device!vars
  <1> QED
    BY <1>1, <1>2, <1>3, <1>4, <1>5, <1>6, <1>7, <1>8 DEF Device!Next, Device!Steps

LEMMA DeviceFoundStep ==
  ASSUME DevicePlaces, DeviceFound, DeviceCounted, [Device!Next]_(Device!vars)
  PROVE  DeviceFound'
  <1> USE DEF DevicePlaces, DeviceFound, Making, Deleting, Device!Move
  <1>1. ASSUME NEW m \in Miniports, Device!Registers(m) PROVE DeviceFound'
    BY <1>1, RegisteredCount DEF Device!Registers
  <1>2. ASSUME NEW m \in Miniports, Device!RegisterWaits(m) PROVE DeviceFound'
    BY <1>2 DEF Device!RegisterWaits
  <1>3. ASSUME NEW m \in Miniports, Device!RegisterCreates(m) PROVE DeviceFound'
    BY <1>3 DEF Device!RegisterCreates
  <1>4. ASSUME NEW m \in Miniports, Device!RegisterEnds(m) PROVE DeviceFound'
    BY <1>4 DEF Device!RegisterEnds
  <1>5. ASSUME NEW m \in Miniports, Device!Deregisters(m) PROVE DeviceFound'
    BY <1>5, RegisteredCount DEF Device!Deregisters
  <1>6. ASSUME NEW m \in Miniports, Device!DeregisterDeletes(m) PROVE DeviceFound'
    BY <1>6 DEF Device!DeregisterDeletes
  <1>7. ASSUME NEW m \in Miniports, Device!DeregisterEnds(m) PROVE DeviceFound'
    BY <1>7 DEF Device!DeregisterEnds
  <1>8. CASE UNCHANGED Device!vars
    BY <1>8 DEF Device!vars
  <1> QED
    BY <1>1, <1>2, <1>3, <1>4, <1>5, <1>6, <1>7, <1>8 DEF Device!Next, Device!Steps

LEMMA DeviceCountedStep ==
  ASSUME DevicePlaces, DeviceCounted, [Device!Next]_(Device!vars)
  PROVE  DeviceCounted'
  <1> USE DEF Device!Move
  <1>1. ASSUME NEW m \in Miniports, Device!Registers(m) PROVE DeviceCounted'
    <2>1. Registered \ {m} = Registered' \ {m}
      BY <1>1 DEF Device!Registers, Registered, Device!Where, DevicePlaces
    <2>2. m \notin Registered /\ m \in Registered' /\ MiniportCount' = MiniportCount + 1
      BY <1>1 DEF Device!Registers, Registered, Device!Where, DevicePlaces
    <2> QED
      BY <2>1, <2>2, RegisteredCount, CountChange DEF DeviceCounted
  <1>2. ASSUME NEW m \in Miniports, Device!RegisterWaits(m) PROVE DeviceCounted'
    <2>1. Registered \ {m} = Registered' \ {m}
      BY <1>2 DEF Device!RegisterWaits, Registered, Device!Where, DevicePlaces
    <2>2. (m \in Registered <=> m \in Registered') /\ MiniportCount' = MiniportCount
      BY <1>2 DEF Device!RegisterWaits, Registered, Device!Where, DevicePlaces
    <2> QED
      BY <2>1, <2>2, RegisteredCount, CountChange DEF DeviceCounted
  <1>3. ASSUME NEW m \in Miniports, Device!RegisterCreates(m) PROVE DeviceCounted'
    <2>1. Registered \ {m} = Registered' \ {m}
      BY <1>3 DEF Device!RegisterCreates, Registered, Device!Where, DevicePlaces
    <2>2. (m \in Registered <=> m \in Registered') /\ MiniportCount' = MiniportCount
      BY <1>3 DEF Device!RegisterCreates, Registered, Device!Where, DevicePlaces
    <2> QED
      BY <2>1, <2>2, RegisteredCount, CountChange DEF DeviceCounted
  <1>4. ASSUME NEW m \in Miniports, Device!RegisterEnds(m) PROVE DeviceCounted'
    <2>1. Registered \ {m} = Registered' \ {m}
      BY <1>4 DEF Device!RegisterEnds, Registered, Device!Where, DevicePlaces
    <2>2. (m \in Registered <=> m \in Registered') /\ MiniportCount' = MiniportCount
      BY <1>4 DEF Device!RegisterEnds, Registered, Device!Where, DevicePlaces
    <2> QED
      BY <2>1, <2>2, RegisteredCount, CountChange DEF DeviceCounted
  <1>5. ASSUME NEW m \in Miniports, Device!Deregisters(m) PROVE DeviceCounted'
    <2>1. Registered \ {m} = Registered' \ {m}
      BY <1>5 DEF Device!Deregisters, Registered, Device!Where, DevicePlaces
    <2>2. m \in Registered /\ m \notin Registered' /\ MiniportCount' = MiniportCount - 1
      BY <1>5 DEF Device!Deregisters, Registered, Device!Where, DevicePlaces
    <2> QED
      BY <2>1, <2>2, RegisteredCount, CountChange DEF DeviceCounted
  <1>6. ASSUME NEW m \in Miniports, Device!DeregisterDeletes(m) PROVE DeviceCounted'
    <2>1. Registered \ {m} = Registered' \ {m}
      BY <1>6 DEF Device!DeregisterDeletes, Registered, Device!Where, DevicePlaces
    <2>2. (m \in Registered <=> m \in Registered') /\ MiniportCount' = MiniportCount
      BY <1>6 DEF Device!DeregisterDeletes, Registered, Device!Where, DevicePlaces
    <2> QED
      BY <2>1, <2>2, RegisteredCount, CountChange DEF DeviceCounted
  <1>7. ASSUME NEW m \in Miniports, Device!DeregisterEnds(m) PROVE DeviceCounted'
    <2>1. Registered \ {m} = Registered' \ {m}
      BY <1>7 DEF Device!DeregisterEnds, Registered, Device!Where, DevicePlaces
    <2>2. (m \in Registered <=> m \in Registered') /\ MiniportCount' = MiniportCount
      BY <1>7 DEF Device!DeregisterEnds, Registered, Device!Where, DevicePlaces
    <2> QED
      BY <2>1, <2>2, RegisteredCount, CountChange DEF DeviceCounted
  <1>8. CASE UNCHANGED Device!vars
    BY <1>8 DEF Device!vars, DeviceCounted, Registered, Device!Where
  <1> QED
    BY <1>1, <1>2, <1>3, <1>4, <1>5, <1>6, <1>7, <1>8 DEF Device!Next, Device!Steps

LEMMA OneCounted ==
  ASSUME NEW S, IsFiniteSet(S), \A x, y \in S : x = y
  PROVE  Cardinality(S) <= 1
  <1>1. CASE S = {}
    BY <1>1, FS_EmptySet
  <1>2. ASSUME NEW x \in S PROVE Cardinality(S) <= 1
    <2>1. S = {x}
      OBVIOUS
    <2>2. Cardinality({x}) = 1
      BY FS_Singleton
    <2> QED
      BY <2>1, <2>2
  <1> QED
    BY <1>1, <1>2

LEMMA DeviceParts ==
  ASSUME DevicePlaces, DeviceFound, DeviceCounted
  PROVE  DeviceSafe
  <1> DEFINE Busy == Device!Where({"create", "created", "delete", "deleted"})
  <1>1. Device!TypeOK
    BY DeviceCounting DEF Device!TypeOK, DevicePlaces, DeviceCounted, Registered
  <1>2. Cardinality(Busy) <= 1
    <2>1. IsFiniteSet(Busy)
      BY DeviceFinite, FS_Subset DEF Device!Where
    <2>2. \A m, n \in Busy : m = n
      BY DEF Device!Where, DevicePlaces, Making, Deleting
    <2> HIDE DEF Busy
    <2> QED
      BY <2>1, <2>2, OneCounted
  <1>3. Device!OneAtATime
    BY <1>2, RegisteredCount, DeviceCounting DEF Device!OneAtATime, Device!Where, DevicePlaces, Making, Deleting
  <1>4. Device!DeviceForMiniports
    BY DEF Device!DeviceForMiniports, Device!Where, DevicePlaces, DeviceFound
  <1> QED
    BY <1>1, <1>3, <1>4 DEF DeviceSafe, Device!DeviceSafe

LEMMA DeviceInit ==
  ASSUME Device!Init PROVE DevicePlaces /\ DeviceFound /\ DeviceCounted
  <1>1. Registered = {}
    BY DEF Device!Init, Registered, Device!Where
  <1>2. Cardinality({}) = 0
    BY FS_EmptySet
  <1>3. DeviceCounted
    BY <1>1, <1>2 DEF Device!Init, DeviceCounted
  <1> QED
    BY <1>3 DEF Device!Init, DevicePlaces, DeviceFound, Making, Deleting

DeviceInv == DevicePlaces /\ DeviceFound /\ DeviceCounted

\* One thread at a time makes or deletes the control device, the two ASSERTs on
\* its state hold, and there is a device exactly while there are miniports
\* (passthru.c: PtRegisterDevice, PtDeregisterDevice).
THEOREM DeviceAlwaysSafe == Device!Spec => []DeviceSafe
  <1>1. Device!Init => DeviceInv
    BY DeviceInit DEF DeviceInv
  <1>2. DeviceInv /\ [Device!Next]_(Device!vars) => DeviceInv'
    BY DevicePlacesStep, DeviceFoundStep, DeviceCountedStep DEF DeviceInv
  <1>3. DeviceInv => DeviceSafe
    BY DeviceParts DEF DeviceInv
  <1> QED
    BY <1>1, <1>2, <1>3, PTL DEF Device!Spec

==============================================================================
