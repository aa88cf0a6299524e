------------------------------- MODULE Plugins -------------------------------
(* The plugin loader (core/plugins/loader.js): it loads, starts, stops and   *)
(* unloads plugins by their id, one by one and all together; its calls await *)
(* files and the methods of the plugins, and overlap there.  A plugin is an  *)
(* instance with a number; loading its id again makes another.  The loader   *)
(* calls setState() of a plugin, which the class Plugin (core/plugins/api.js)*)
(* does not have: starting and stopping a plugin throws at once, unless its  *)
(* own class defines it.                                                     *)
EXTENDS Integers, FiniteSets

CONSTANTS Dirs,          \* the directories of plugins, which are their ids
          Stateful,      \* those whose class defines setState()
          Calls,         \* calls in progress (bound)
          MaxLoads       \* instances of a run (bound)

VARIABLES plugins,       \* of each id: the instance that the loader has, or 0
          state,         \* of each instance
          live,          \* those that have started, and have not stopped (history)
          calls,         \* the calls in progress
          failed,        \* those of which a start or a stop failed (history)
          excused        \* those lost to an overlap or a failure (history)

vars == <<plugins, state, live, calls, failed, excused>>

Instances == 1 .. MaxLoads
NoCall == [op |-> "none", phase |-> "idle", id |-> "none", inst |-> 0, visited |-> {}, alone |-> TRUE]

Init == /\ plugins = [d \in Dirs |-> 0]
        /\ state = [i \in Instances |-> "unloaded"]
        /\ live = {} /\ failed = {} /\ excused = {}
        /\ calls = [k \in Calls |-> NoCall]

Busy(k) == \E j \in Calls \ {k} : calls[j] # NoCall
Begin(k, op, phase, id) ==
    /\ calls[k] = NoCall
    /\ calls' = [j \in Calls |->
           IF j = k
           THEN [op |-> op, phase |-> phase, id |-> id, inst |-> IF id \in Dirs THEN plugins[id] ELSE 0,
                 visited |-> {}, alone |-> ~Busy(k)]
           ELSE [calls[j] EXCEPT !.alone = calls[j] = NoCall]]

End(k) == calls' = [calls EXCEPT ![k] = NoCall]

\* The plugins that a call removes; it answers for those that it met alone.
Lost(k, removed) ==
    excused' = excused \cup {i \in removed : ~calls[k].alone \/ Busy(k) \/ i \in failed}

-----------------------------------------------------------------------------
\* loadPlugin(), loadAll() and reloadAll(), which await the files of each id.
loadPlugin(k, id) ==
    /\ Begin(k, "load", "load", id)
    /\ UNCHANGED <<plugins, state, live, failed, excused>>

loadAll(k) ==
    /\ \E id \in Dirs : Begin(k, "loadAll", "load", id)
    /\ UNCHANGED <<plugins, state, live, failed, excused>>

LoadNext(k, visited) ==
    \E id \in Dirs \ visited :
        calls' = [calls EXCEPT ![k] = [@ EXCEPT !.visited = visited, !.id = id, !.phase = "load"]]

\* A plugin that is there already is replaced as it is; a failure ends the call.
LoadEnds(k) ==
    LET id == calls[k].id
    IN /\ calls[k].phase = "load"
       /\ \/ End(k) /\ UNCHANGED <<plugins, state, excused>>
          \/ \E i \in Instances :
                 /\ state[i] = "unloaded" /\ \A j \in Instances : j < i => state[j] # "unloaded"
                 /\ plugins' = [plugins EXCEPT ![id] = i]
                 /\ state' = [state EXCEPT ![i] = "loaded"]
                 /\ excused' = excused \cup ({plugins[id]} \ {0})
                 /\ IF calls[k].op = "load" \/ calls[k].visited \cup {id} = Dirs
                    THEN End(k) ELSE LoadNext(k, calls[k].visited \cup {id})
       /\ UNCHANGED <<live, failed>>

-----------------------------------------------------------------------------
startPlugin(k, id) ==
    /\ plugins[id] # 0 /\ id \in Stateful
    /\ Begin(k, "start", "start", id)
    /\ state' = [state EXCEPT ![plugins[id]] = "starting"]
    /\ UNCHANGED <<plugins, live, failed, excused>>

StartEnds(k) ==
    LET i == calls[k].inst
    IN /\ calls[k].phase = "start" /\ End(k)
       /\ \/ /\ state' = [state EXCEPT ![i] = "running"]
             /\ live' = live \cup {i} /\ UNCHANGED failed
          \/ /\ state' = [state EXCEPT ![i] = "error"]
             /\ failed' = failed \cup {i} /\ UNCHANGED live
       /\ UNCHANGED <<plugins, excused>>

stopPlugin(k, id) ==
    /\ plugins[id] # 0 /\ id \in Stateful
    /\ Begin(k, "stop", "stop", id)
    /\ state' = [state EXCEPT ![plugins[id]] = "stopping"]
    /\ UNCHANGED <<plugins, live, failed, excused>>

\* Faulty variant: a plugin is removed as it is.
MustStopNot(id) == FALSE
MustStop(id) == state[plugins[id]] = "running" /\ id \in Stateful

\* unloadPlugin(): one that runs is stopped first; the id is removed after that,
\* whichever plugin has it by then.
unloadPlugin(k, id) ==
    /\ plugins[id] # 0
    /\ \/ /\ MustStop(id)
          /\ Begin(k, "unload", "stop", id)
          /\ state' = [state EXCEPT ![plugins[id]] = "stopping"]
          /\ UNCHANGED <<plugins, excused>>
       \/ /\ ~MustStop(id) /\ calls[k] = NoCall
          /\ plugins' = [plugins EXCEPT ![id] = 0]
          /\ Lost(k, {plugins[id]})
          /\ UNCHANGED <<calls, state>>
    /\ UNCHANGED <<live, failed>>

-----------------------------------------------------------------------------
reloadAll(k) == Begin(k, "reload", "visit", "none") /\ UNCHANGED <<plugins, state, live, failed, excused>>
shutdown(k) == Begin(k, "shutdown", "visit", "none") /\ UNCHANGED <<plugins, state, live, failed, excused>>

Unvisited(k) == {id \in Dirs \ calls[k].visited : plugins[id] # 0}

\* The next plugin is stopped, whatever its state is; one that throws ends a
\* reload, and not a shutdown.
StopNext(k) ==
    /\ calls[k].phase = "visit"
    /\ \E id \in Unvisited(k) :
          \/ /\ id \in Stateful
             /\ calls' = [calls EXCEPT ![k] = [@ EXCEPT !.phase = "stop", !.id = id, !.inst = plugins[id]]]
             /\ state' = [state EXCEPT ![plugins[id]] = "stopping"]
          \/ /\ id \notin Stateful /\ calls[k].op = "reload"
             /\ End(k) /\ UNCHANGED state
          \/ /\ id \notin Stateful /\ calls[k].op = "shutdown"
             /\ calls' = [calls EXCEPT ![k] = [calls[k] EXCEPT !.visited = @ \cup {id}]] /\ UNCHANGED state
    /\ UNCHANGED <<plugins, live, failed, excused>>

\* Faulty variant: the plugins are removed before they are stopped.
ClearsAtOnce(k) == calls[k].phase = "visit"
Clears(k) == calls[k].phase = "visit" /\ Unvisited(k) = {}

Clear(k) ==
    /\ Clears(k)
    /\ Lost(k, {plugins[id] : id \in Dirs})
    /\ plugins' = [id \in Dirs |-> 0]
    /\ \/ calls[k].op = "shutdown" /\ End(k)
       \/ calls[k].op = "reload" /\ LoadNext(k, {})
    /\ UNCHANGED <<state, live, failed>>

StopEnds(k) ==
    LET c == calls[k]
        Go == calls' = [calls EXCEPT ![k] = [c EXCEPT !.phase = "visit", !.visited = @ \cup {c.id}]]
    IN /\ c.phase = "stop"
       /\ \/ /\ state' = [state EXCEPT ![c.inst] = "stopped"]
             /\ live' = live \ {c.inst} /\ UNCHANGED failed
             /\ \/ c.op = "stop" /\ End(k) /\ UNCHANGED <<plugins, excused>>
                \/ /\ c.op = "unload" /\ End(k)
                   /\ plugins' = [plugins EXCEPT ![c.id] = 0] /\ Lost(k, {plugins[c.id]})
                \/ c.op \in {"reload", "shutdown"} /\ Go /\ UNCHANGED <<plugins, excused>>
          \/ /\ failed' = failed \cup {c.inst}
             /\ IF c.op = "shutdown" THEN Go ELSE End(k)
             /\ UNCHANGED <<plugins, state, live, excused>>

Next == \E k \in Calls :
    \/ \E id \in Dirs : loadPlugin(k, id) \/ startPlugin(k, id) \/ stopPlugin(k, id) \/ unloadPlugin(k, id)
    \/ loadAll(k) \/ reloadAll(k) \/ shutdown(k)
    \/ LoadEnds(k) \/ StartEnds(k) \/ StopEnds(k) \/ StopNext(k) \/ Clear(k)

-----------------------------------------------------------------------------
States == {"unloaded", "loaded", "starting", "running", "stopping", "stopped", "error"}

TypeOK ==
    /\ plugins \in [Dirs -> 0 .. MaxLoads]
    /\ state \in [Instances -> States]
    /\ live \subseteq Instances /\ failed \subseteq Instances /\ excused \subseteq 0 .. MaxLoads
    /\ \A k \in Calls : calls[k].inst \in 0 .. MaxLoads /\ calls[k].visited \subseteq Dirs

\* A plugin that has started and not stopped is one that the loader has, and
\* can stop, unless its id was loaded again over it, another call was in
\* progress as it was removed, or a start or a stop of it had failed.
LiveIsListed ==
    \A i \in live : i \in excused \/ \E id \in Dirs : plugins[id] = i

=============================================================================
