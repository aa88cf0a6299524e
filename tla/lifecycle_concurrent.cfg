\* Two callers of the manager, every operation but crash(): interleavings of
\* calls, re-registration of a name, hooks that fail or time out.
SPECIFICATION FairSpec
CONSTANTS
  web = web
  store = store
  cache = cache
  loop = loop
  t1 = t1
  t2 = t2
  NoTask = NoTask
  NoObject = NoObject
  Services = {web, store}
  Tasks = {t1, t2}
  InitialRegistry <- PairRegistry
  MaxGen <- PairGen
  Deps <- PairDeps
  Hooks <- PairHooks
  HealthChecked = {store}
  RestartOnCrash = {store}
  MaxRestarts = 1
  MaxCrashes = 1
  AutoStartDependencies = TRUE
  MaxStack = 3
  Ops <- PairOps
INVARIANTS TypesOK
PROPERTIES StartsAfterDependencies KeepsContract CallsReturn
CHECK_DEADLOCK FALSE
