--------------------------- MODULE VolumeContract ---------------------------
(***************************************************************************)
(* What a volume promises the issuers of its IRPs, whoever serves them:    *)
(* each sector is a regular register.  A read that succeeds returns the    *)
(* acknowledged contents of every sector that no write has touched since   *)
(* the read was issued; elsewhere it may return anything.  A write makes   *)
(* the sectors it covers undetermined until it is acknowledged; a write    *)
(* that fails, or has met another write, leaves them so.                   *)
(***************************************************************************)
CONSTANTS Irps, Sectors, Values, Unknown

VARIABLES
    phase,      \* of each IRP: "idle", "pending" or "done"
    req,        \* its operation, sectors and value
    ok, data,   \* its result
    expect,     \* the acknowledged contents of each sector, or Unknown
    solo,       \* the sectors on which a pending write has met no other write
    snap        \* what a pending read must return, Unknown where it is free

vars == <<phase, req, ok, data, expect, solo, snap>>

Contents == [Sectors -> Values \cup {Unknown}]

Mask(f, S)  == [s \in Sectors |-> IF s \in S THEN Unknown ELSE f[s]]
Keep(f, S)  == [s \in Sectors |-> IF s \in S THEN f[s] ELSE Unknown]

Writing(s) == \E q \in Irps : phase[q] = "pending" /\ req[q].op = "write" /\ s \in req[q].ext

IssueRead(r) ==
    /\ phase[r] = "idle"
    /\ phase' = [phase EXCEPT ![r] = "pending"]
    /\ req'[r].op = "read"
    /\ snap' = [snap EXCEPT ![r] = Keep(expect, req'[r].ext)]
    /\ solo' = [solo EXCEPT ![r] = {}]
    /\ UNCHANGED <<ok, data, expect>>

IssueWrite(r) ==
    /\ phase[r] = "idle"
    /\ phase' = [phase EXCEPT ![r] = "pending"]
    /\ req'[r].op = "write"
    /\ LET e == req'[r].ext IN
       /\ expect' = Mask(expect, e)
       /\ snap' = [q \in Irps |-> Mask(IF q = r THEN [s \in Sectors |-> Unknown]
                                       ELSE snap[q], e)]
       /\ solo' = [q \in Irps |-> IF q = r THEN {s \in e : ~Writing(s)} ELSE solo[q] \ e]
    /\ UNCHANGED <<ok, data>>

Issue(r) ==
    /\ \A q \in Irps \ {r} : req'[q] = req[q]
    /\ IssueRead(r) \/ IssueWrite(r)

Succeed(r) ==
    /\ phase[r] = "pending"
    /\ phase' = [phase EXCEPT ![r] = "done"]
    /\ ok' = [ok EXCEPT ![r] = TRUE]
    /\ data' \in [Irps -> Contents]
    /\ \A q \in Irps \ {r} : data'[q] = data[q]
    /\ \/ /\ req[r].op = "read"
          /\ \A s \in req[r].ext : snap[r][s] # Unknown => data'[r][s] = snap[r][s]
          /\ UNCHANGED expect
       \/ /\ req[r].op = "write"
          /\ expect' = [s \in Sectors |-> IF s \in solo[r] THEN req[r].val ELSE expect[s]]
    /\ UNCHANGED <<req, solo, snap>>

Fail(r) ==
    /\ phase[r] = "pending"
    /\ phase' = [phase EXCEPT ![r] = "done"]
    /\ ok' = [ok EXCEPT ![r] = FALSE]
    /\ data' \in [Irps -> Contents]
    /\ \A q \in Irps \ {r} : data'[q] = data[q]
    /\ UNCHANGED <<req, expect, solo, snap>>

\* The lower device fills the buffer of a read that is not done yet.
Transfer(r) ==
    /\ phase[r] = "pending"
    /\ data' \in [Irps -> Contents]
    /\ \A q \in Irps \ {r} : data'[q] = data[q]
    /\ UNCHANGED <<phase, req, ok, expect, solo, snap>>

Retire(r) ==
    /\ phase[r] = "done"
    /\ phase' = [phase EXCEPT ![r] = "idle"]
    /\ \A q \in Irps \ {r} : /\ req'[q] = req[q] /\ ok'[q] = ok[q] /\ data'[q] = data[q]
                             /\ solo'[q] = solo[q] /\ snap'[q] = snap[q]
    /\ UNCHANGED expect

Init ==
    /\ phase = [r \in Irps |-> "idle"]
    /\ expect \in [Sectors -> Values]
    /\ solo = [r \in Irps |-> {}]
    /\ snap = [r \in Irps |-> [s \in Sectors |-> Unknown]]

Next == \E r \in Irps : Issue(r) \/ Succeed(r) \/ Fail(r) \/ Transfer(r) \/ Retire(r)

Spec == Init /\ [][Next]_vars
=============================================================================
