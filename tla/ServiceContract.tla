--------------------------- MODULE ServiceContract ---------------------------
(***************************************************************************)
(* What the lifecycle of core/lifecycle/manager.js promises its callers:   *)
(* each service goes through init, start and stop one at a time, begun     *)
(* and ended by one caller, and only from the states in which the          *)
(* operation makes sense.                                                  *)
(***************************************************************************)
CONSTANTS Objects, Tasks, Nobody

VARIABLES st,     \* state of each service
          owner   \* the task that operates on it, Nobody when none does

Init ==
  /\ st = [o \in Objects |-> "created"]
  /\ owner = [o \in Objects |-> Nobody]

From == [initializing |-> {"created"},
         starting     |-> {"ready", "stopped", "error"},
         stopping     |-> {"running"}]

To == [initializing |-> "ready", starting |-> "running", stopping |-> "stopped"]

(* t takes o for an operation that awaits the service's hook. *)
Begin(o, t, during) ==
  /\ owner[o] = Nobody
  /\ st[o] \in From[during]
  /\ st' = [st EXCEPT ![o] = during]
  /\ owner' = [owner EXCEPT ![o] = t]

(* The operation ends, well or in an error. *)
End(o, t, during) ==
  /\ owner[o] = t
  /\ st[o] = during
  /\ st' \in {[st EXCEPT ![o] = To[during]], [st EXCEPT ![o] = "error"]}
  /\ owner' = [owner EXCEPT ![o] = Nobody]

(* An operation with no hook begins and ends at once. *)
AtOnce(o, during) ==
  /\ owner[o] = Nobody
  /\ st[o] \in From[during]
  /\ st' = [st EXCEPT ![o] = To[during]]
  /\ UNCHANGED owner

(* restart() makes a service that stopped or failed startable, even if     *)
(* nothing then starts it.                                                 *)
Next ==
  \E o \in Objects, during \in DOMAIN From :
    \/ AtOnce(o, during)
    \/ \E t \in Tasks : Begin(o, t, during) \/ End(o, t, during)

Spec == Init /\ [][Next]_<<st, owner>>
=============================================================================
