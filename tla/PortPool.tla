------------------------------ MODULE PortPool ------------------------------
(***************************************************************************)
(* What the XOR/DMA engines promise their callers: a user gets a port for   *)
(* itself, one transfer runs on it, and the user gives it back after that   *)
(* transfer has ended.  No two memory inits run on the two ports of one     *)
(* engine.  Nothing is said of how ports are chosen, waited for or woken.    *)
(***************************************************************************)
CONSTANTS Users, Ports, Partner(_), None

VARIABLES
  uses,     \* the port each user has, or None
  what,     \* what for: "other", "meminit", or "none"
  phase     \* "none", "got", "running" or "ended"

Init ==
  /\ uses = [u \in Users |-> None]
  /\ what = [u \in Users |-> "none"]
  /\ phase = [u \in Users |-> "none"]

Get(u, p, k) ==
  /\ uses[u] = None
  /\ \A r \in Users : uses[r] # p
  /\ k = "meminit" => \A r \in Users : uses[r] = Partner(p) => what[r] # "meminit"
  /\ uses' = [uses EXCEPT ![u] = p]
  /\ what' = [what EXCEPT ![u] = k]
  /\ phase' = [phase EXCEPT ![u] = "got"]

Run(u) ==
  /\ phase[u] = "got"
  /\ phase' = [phase EXCEPT ![u] = "running"]
  /\ UNCHANGED <<uses, what>>

End(u) ==
  /\ phase[u] = "running"
  /\ phase' = [phase EXCEPT ![u] = "ended"]
  /\ UNCHANGED <<uses, what>>

Put(u) ==
  /\ phase[u] = "ended"
  /\ uses' = [uses EXCEPT ![u] = None]
  /\ what' = [what EXCEPT ![u] = "none"]
  /\ phase' = [phase EXCEPT ![u] = "none"]

Next ==
  \E u \in Users :
    \/ \E p \in Ports, k \in {"other", "meminit"} : Get(u, p, k)
    \/ Run(u) \/ End(u) \/ Put(u)

Spec == Init /\ [][Next]_<<uses, what, phase>>

=============================================================================
