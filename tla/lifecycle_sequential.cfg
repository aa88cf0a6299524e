\* One caller of the manager over a chain of services and one that depends on
\* itself, and a detector that may report one crash of any of them.
SPECIFICATION Spec
CONSTANTS
  web = web
  store = store
  cache = cache
  loop = loop
  t1 = t1
  t2 = t2
  NoTask = NoTask
  NoObject = NoObject
  Services = {web, cache, store, loop}
  Tasks = {t1, t2}
  InitialRegistry <- ChainRegistry
  MaxGen <- ChainGen
  Deps <- ChainDeps
  Hooks <- ChainHooks
  HealthChecked = {store, web}
  RestartOnCrash = {store}
  MaxRestarts = 1
  MaxCrashes = 1
  AutoStartDependencies = TRUE
  MaxStack = 3
  Ops <- ChainOps
INVARIANTS  Monitored Topological
PROPERTIES StopAllInOrder
CHECK_DEADLOCK FALSE
