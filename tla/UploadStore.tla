----------------------------- MODULE UploadStore -----------------------------
(***************************************************************************)
(* What uploading to a server means, without tables, temporary files and   *)
(* system calls: an upload is open from its init to its commit, its abort  *)
(* or a restart; while it is open it gathers bytes, up to the number that  *)
(* was declared; and the paths hold whole uploads only.  A commit starts   *)
(* on a complete upload that is open and then, in one step, puts all of it *)
(* at the path; an overwriting one may vacate the path before.  An abort   *)
(* that comes after its start does not stop it for certain.                *)
(***************************************************************************)
EXTENDS Naturals, Sequences

CONSTANTS
    Uploads, Targets,
    Plans,          \* what an init declares: target, expected, overwrite
    NoPlan,
    Chunks,
    Vacant,
    Initially       \* what the paths hold at first

VARIABLES
    file,           \* path -> bytes or Vacant
    plan,           \* upload -> its plan, NoPlan before its init
    open,           \* the uploads that are open
    gathered,       \* upload -> the bytes acknowledged
    committing      \* the uploads whose commit has started

store == <<file, plan, open, gathered, committing>>

Init ==
    /\ file = Initially
    /\ plan = [u \in Uploads |-> NoPlan]
    /\ open = {}
    /\ gathered = [u \in Uploads |-> <<>>]
    /\ committing = {}

Begin(u) ==
    /\ plan[u] = NoPlan
    /\ plan'[u] \in Plans
    /\ plan' = [plan EXCEPT ![u] = plan'[u]]
    /\ open' = open \cup {u}
    /\ UNCHANGED <<file, gathered, committing>>

Gather(u) ==
    /\ u \in open
    /\ \E chunk \in Chunks : gathered' = [gathered EXCEPT ![u] = @ \o chunk]
    /\ Len(gathered'[u]) <= plan[u].expected
    /\ UNCHANGED <<file, plan, open, committing>>

Start(u) ==
    /\ u \in open
    /\ Len(gathered[u]) = plan[u].expected
    /\ committing' = committing \cup {u}
    /\ UNCHANGED <<file, plan, open, gathered>>

Vacate(u) ==
    /\ u \in committing /\ plan[u].overwrite
    /\ file' = [file EXCEPT ![plan[u].target] = Vacant]
    /\ UNCHANGED <<plan, open, gathered, committing>>

Install(u) ==
    /\ u \in committing
    /\ file' = [file EXCEPT ![plan[u].target] = gathered[u]]
    /\ committing' = committing \ {u}
    /\ UNCHANGED <<plan, open, gathered>>

GiveUp(u) ==
    /\ committing' = committing \ {u}
    /\ UNCHANGED <<file, plan, open, gathered>>

Close(u) ==
    /\ open' = open \ {u}
    /\ UNCHANGED <<file, plan, gathered, committing>>

Restart ==
    /\ open' = {} /\ committing' = {}
    /\ UNCHANGED <<file, plan, gathered>>

Next ==
    \/ \E u \in Uploads :
           \/ Begin(u) \/ Gather(u) \/ Close(u)
           \/ Start(u) \/ Vacate(u) \/ Install(u) \/ GiveUp(u)
    \/ Restart

Spec == Init /\ [][Next]_store

=============================================================================
