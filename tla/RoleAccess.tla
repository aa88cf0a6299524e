----------------------------- MODULE RoleAccess -----------------------------
(* Role-based access control (core/auth/rbac.js): roles, users and policies  *)
(* in memory, with a storage that is written by calls nobody awaits, except  *)
(* in save() and load().  The storage applies calls in the order they were   *)
(* made.  Restart constructs the manager again, which writes the built-in  *)
(* roles, and its application awaits load() before it goes on.               *)
EXTENDS Integers, FiniteSets, Sequences, Functions

CONSTANTS Permissions,
          RoleNames, BuiltIn,   \* with the permissions of each built-in role
          UserIds,
          Policies,             \* [effect, users, perms, when] of each policy
          MaxCalls              \* storage calls under way (bound of the model)

VARIABLES held,                 \* the three maps, by the name of the entry
          order,                \* names of the policies as their Map orders them
          store,                \* the storage
          calls,                \* storage calls under way
          task                  \* [kind, todo, waits]: a save() or load() running

vars == <<held, order, store, calls, task>>

NoTask == [kind |-> "none", todo |-> {}]
Names == RoleNames \cup UserIds \cup DOMAIN Policies
Roles == DOMAIN BuiltIn \cup RoleNames

NewRole(perms, inherits) == [perms |-> perms, inherits |-> inherits]
NewUser(roles) == [roles |-> roles, perms |-> {}, denied |-> {}]

SetCall(n, value) == [op |-> "set", name |-> n, value |-> value]
DeleteCall(n) == [op |-> "delete", name |-> n]

\* _initializeBuiltInRoles(), with the calls to the storage.
BuiltInRoles == [r \in DOMAIN BuiltIn |-> NewRole(BuiltIn[r], {})]
BuiltInCalls ==
    LET n == Cardinality(DOMAIN BuiltIn)
        names == CHOOSE f \in Bijection(1..n, DOMAIN BuiltIn) : TRUE
    IN [i \in 1..n |-> SetCall(names[i], BuiltInRoles[names[i]])]

Init ==
    /\ held = BuiltInRoles
    /\ order = <<>>
    /\ store = <<>>
    /\ calls = BuiltInCalls
    /\ task = NoTask

-----------------------------------------------------------------------------
With(map, n, value) == [m \in DOMAIN map \cup {n} |-> IF m = n THEN value ELSE map[m]]
Entry(n, value) == With(held, n, value)
Has(n) == n \in DOMAIN held
Ready == task.kind \in {"none", "save"} /\ Len(calls) < MaxCalls

\* createRole(), createUser() and createPolicy() take the place of an entry.
Create(n, value) ==
    /\ Ready
    /\ held' = Entry(n, value)
    /\ calls' = Append(calls, SetCall(n, value))
    /\ order' = IF n \in DOMAIN Policies /\ ~Has(n) THEN Append(order, n) ELSE order
    /\ UNCHANGED <<store, task>>

\* deleteRole() refuses a built-in role; the users of a role keep its name.
Delete(n) ==
    /\ Ready /\ Has(n) /\ n \notin DOMAIN BuiltIn
    /\ held' = Restrict(held, DOMAIN held \ {n})
    /\ calls' = Append(calls, DeleteCall(n))
    /\ order' = SelectSeq(order, LAMBDA m : m # n)
    /\ UNCHANGED <<store, task>>

\* Role and User objects change in memory only.
Change(n, value) ==
    /\ Ready /\ Has(n)
    /\ held' = Entry(n, value)
    /\ UNCHANGED <<order, store, calls, task>>

addPermission(r, p) == Change(r, [held[r] EXCEPT !.perms = @ \cup {p}])
removePermission(r, p) == Change(r, [held[r] EXCEPT !.perms = @ \ {p}])
assignRole(u, r) == Change(u, [held[u] EXCEPT !.roles = @ \cup {r}])
removeRole(u, r) == Change(u, [held[u] EXCEPT !.roles = @ \ {r}])
grantPermission(u, p) ==
    Change(u, [held[u] EXCEPT !.perms = @ \cup {p}, !.denied = @ \ {p}])
\* Faulty variant: a permission granted before stays.
denyKeepsGrant(u, p) == Change(u, [held[u] EXCEPT !.denied = @ \cup {p}])

denyPermission(u, p) ==
    Change(u, [held[u] EXCEPT !.denied = @ \cup {p}, !.perms = @ \ {p}])

-----------------------------------------------------------------------------
(* What a user may do *)

hasPermission(u, p) ==
    /\ p \notin held[u].denied
    /\ \/ p \in held[u].perms
       \/ \E r \in held[u].roles \cap DOMAIN held : p \in held[r].perms

\* Faulty variant: the role's own permissions are left out.
InheritedPermissions(r) ==
    UNION {held[i].perms : i \in held[r].inherits \cap DOMAIN held}

\* Role.getAllPermissions(): inherited roles count here, one level deep.
RolePermissions(r) ==
    held[r].perms \cup UNION {held[i].perms : i \in held[r].inherits \cap DOMAIN held}

getAllPermissions(u) ==
    (held[u].perms \cup UNION {RolePermissions(r) : r \in held[u].roles \cap DOMAIN held})
        \ held[u].denied

appliesTo(policy, u, p, context) ==
    /\ u \in policy.users /\ p \in policy.perms
    /\ policy.when => context

\* The first policy that applies decides, otherwise the permissions do.
authorize(u, p, context) ==
    LET applying == {i \in DOMAIN order : appliesTo(held[order[i]], u, p, context)}
    IN IF applying = {} THEN hasPermission(u, p)
       ELSE \E i \in applying : (\A j \in applying : i <= j) /\ held[order[i]].effect = "allow"

-----------------------------------------------------------------------------
(* Storage *)

Apply ==
    /\ calls # <<>>
    /\ LET c == Head(calls)
       IN store' = IF c.op = "delete" THEN Restrict(store, DOMAIN store \ {c.name})
                   ELSE With(store, c.name, c.value)
    /\ calls' = Tail(calls)
    /\ UNCHANGED <<held, order, task>>

Kind(n) == IF n \in Roles THEN 1 ELSE IF n \in UserIds THEN 2 ELSE 3

\* Entries the task visits next: the roles, then the users, then the policies.
Earliest(names) == {n \in names : \A m \in names : Kind(n) <= Kind(m)}

\* Faulty variant: the entries are those of the beginning.
PendingAll == task.todo

\* save() writes what the maps hold when their turn comes, and awaits it.
Pending == {n \in task.todo : Has(n)}

BeginSave ==
    /\ Ready /\ task = NoTask
    /\ task' = [kind |-> "save", todo |-> DOMAIN held]
    /\ UNCHANGED <<held, order, store, calls>>

\* A value of an entry that is gone is the last one there was.
Saved(n) == IF Has(n) THEN held[n] ELSE IF n \in DOMAIN store THEN store[n] ELSE NewUser({})

SaveNext ==
    /\ task.kind = "save"
    /\ \A i \in DOMAIN calls : calls[i].op # "save"
    /\ Len(calls) < MaxCalls
    /\ IF Pending = {} THEN task' = NoTask /\ UNCHANGED calls
       ELSE \E n \in Earliest(Pending) :
              /\ calls' = Append(calls, [SetCall(n, Saved(n)) EXCEPT !.op = "save"])
              /\ task' = [task EXCEPT !.todo = @ \ {n}]
    /\ UNCHANGED <<held, order, store>>

\* load(): what the storage lists enters the maps, over what is there.
BeginLoad ==
    /\ task.kind = "start" /\ calls = <<>>
    /\ task' = [kind |-> "load", todo |-> DOMAIN store]
    /\ UNCHANGED <<held, order, store, calls>>

LoadNext ==
    /\ task.kind = "load"
    /\ IF task.todo = {} THEN task' = NoTask /\ UNCHANGED <<held, order>>
       ELSE \E n \in Earliest(task.todo) :
              /\ held' = Entry(n, store[n])
              /\ order' = IF n \in DOMAIN Policies /\ ~Has(n) THEN Append(order, n) ELSE order
              /\ task' = [task EXCEPT !.todo = @ \ {n}]
    /\ UNCHANGED <<store, calls>>

\* Calls that are under way when the process ends are lost.
Restart ==
    /\ held' = BuiltInRoles /\ order' = <<>> /\ calls' = BuiltInCalls
    /\ task' = [kind |-> "start", todo |-> {}]
    /\ UNCHANGED store
Next ==
    \/ \E r \in RoleNames, inherits \in {DOMAIN BuiltIn} : Create(r, NewRole({}, inherits))
    \/ \E u \in UserIds : Create(u, NewUser({}))
    \/ \E n \in DOMAIN Policies : Create(n, Policies[n])
    \/ \E n \in Names : Delete(n)
    \/ \E r \in Roles, p \in Permissions : addPermission(r, p) \/ removePermission(r, p)
    \/ \E u \in UserIds : \/ \E r \in Roles : assignRole(u, r) \/ removeRole(u, r)
                          \/ \E p \in Permissions : grantPermission(u, p) \/ denyPermission(u, p)
    \/ Apply \/ BeginSave \/ SaveNext \/ BeginLoad \/ LoadNext \/ Restart

Spec == Init /\ [][Next]_vars

-----------------------------------------------------------------------------
TypeOK ==
    /\ DOMAIN BuiltIn \subseteq DOMAIN held /\ DOMAIN held \subseteq Names \cup Roles
    /\ DOMAIN store \subseteq Names \cup Roles
    /\ Range(order) = DOMAIN held \cap DOMAIN Policies /\ IsInjective(order)

\* The three answers about a user agree, whatever was granted, denied, deleted,
\* saved and loaded in whatever order: what may be used is listed, what is
\* denied is neither listed nor granted, and authorize() allows nothing more
\* than the policies and the list.
AnswersAgree ==
    \A u \in UserIds \cap DOMAIN held, p \in Permissions :
      /\ hasPermission(u, p) => p \in getAllPermissions(u)
      /\ p \in held[u].denied => p \notin held[u].perms
      /\ \A context \in BOOLEAN : authorize(u, p, context) =>
           \/ p \in getAllPermissions(u)
           \/ \E n \in Range(order) : held[n].effect = "allow" /\ u \in held[n].users

\* When the calls are done, the storage has the entries of the maps and no
\* others, so that a restart does not bring back what was deleted, also if
\* save() was under way.
DeletedStaysDeleted ==
    (task = NoTask /\ calls = <<>>) => DOMAIN store = DOMAIN held

=============================================================================
