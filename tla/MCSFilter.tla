----------------------------- MODULE MCSFilter -----------------------------
(***************************************************************************)
(* A behaviour has one of a few worlds: the file systems that register,    *)
(* the volumes that are mounted and the requests that are made in it.      *)
(***************************************************************************)
EXTENDS SFilter, TLC

CONSTANTS Worlds, f1, r1, v1, v2, s1, i1

VARIABLE world

MCFsOf == [v \in Volumes |-> f1]
MCWorlds == 
    {{f1, v1, v2}, {f1, v1, i1}, {f1, v2, i1}, {f1, s1, i1}, {f1, r1, i1}}

MCInit ==
    /\ Init /\ world \in Worlds
    /\ \A f \in Fs : fs[f] => f \in world
    /\ \A v \in Volumes : vol[v] = "mounted" => v \in world

MCNext ==
    /\ Next /\ UNCHANGED world
    /\ \A f \in Fs : fs'[f] => f \in world
    /\ \A v \in Volumes : mount'[v].pc # "idle" => v \in world
    /\ \A i \in Requests : req'[i].pc # "idle" => i \in world

mcvars == <<vars, world>>
MCSpec == MCInit /\ [][MCNext]_mcvars

Symmetry == Permutations(Devices) \cup Permutations({v1, v2})

=============================================================================
