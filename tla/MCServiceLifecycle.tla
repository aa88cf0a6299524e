------------------------- MODULE MCServiceLifecycle -------------------------
(* Instances of ServiceLifecycle: an HTTP service over a store, and the     *)
(* same two with a cache between them, beside a service whose dependencies  *)
(* form a cycle.                                                            *)
EXTENDS ServiceLifecycle, TLC

CONSTANTS web, store, cache, loop, t1, t2

PairDeps == (web :> <<store>>) @@ (store :> <<>>)
PairRegistry == <<web, store>>
PairHooks == (web :> {"start"}) @@ (store :> {"start", "stop"})
PairGen == [n \in {web, store} |-> 1]

ChainDeps == (web :> <<cache, store>>) @@ (cache :> <<store>>) @@ (store :> <<>>)
             @@ (loop :> <<loop>>)
ChainRegistry == <<web, store, cache, loop>>
ChainHooks == (web :> {"stop"}) @@ (cache :> {"init", "stop"}) @@ (store :> {"start"})
              @@ (loop :> {})
ChainGen == (web :> 2) @@ (store :> 1) @@ (cache :> 1) @@ (loop :> 1)

ManagerOps == AllOps \cup {"start", "stop", "restart", "unregister"}
PairOps == [t \in {t1, t2} |-> ManagerOps]
ChainOps == (t1 :> ManagerOps) @@ (t2 :> {"crash"})
=============================================================================
