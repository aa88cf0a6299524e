---------------------------- MODULE SecureStore ----------------------------
(* The encrypted key-value store (core/storage/secure.js): set() writes a    *)
(* temporary file and renames it, get() fills a cache after its read, and    *)
(* delete() removes the file and then the cached value.  Calls interleave at *)
(* every await, and the process may end between any two steps.  Encryption   *)
(* is left out, except that a torn file does not decrypt.  writeFile(),      *)
(* readFile() and deleteFile() are the same calls on another directory.      *)
EXTENDS Integers, FiniteSets, Sequences, Functions

CONSTANTS Keys, Values,
          Calls,            \* concurrent calls (bound of the model)
          cacheMaxSize

VARIABLES disk,             \* the file of each key
          tmp,              \* its temporary file
          cache,            \* keys and values, in the order the Map keeps
          call,             \* the calls in progress
          agreed,           \* the value a key must have (history): that of the
                            \* last call that ended
          mixed             \* keys that two calls used at a time (history)

vars == <<disk, tmp, cache, call, agreed, mixed>>

NoValue == "none"
Torn == "torn"
Contents == Values \cup {NoValue, Torn}
NoCall == [op |-> "none"]

Init ==
    /\ disk = [k \in Keys |-> NoValue]
    /\ tmp = [k \in Keys |-> NoValue]
    /\ cache = <<>>
    /\ call = [c \in Calls |-> NoCall]
    /\ agreed = [k \in Keys |-> {NoValue}]
    /\ mixed = {}

-----------------------------------------------------------------------------
Cached(k) == {i \in DOMAIN cache : cache[i].key = k}

\* _cacheSet(): a full cache first loses the older half of its size; a key
\* that is left keeps its place.
CacheSet(k, v) ==
    LET kept == IF Len(cache) >= cacheMaxSize
                THEN SubSeq(cache, cacheMaxSize \div 2 + 1, Len(cache)) ELSE cache
        at == {i \in DOMAIN kept : kept[i].key = k}
        entry == [key |-> k, value |-> v]
    IN IF at # {} THEN [kept EXCEPT ![CHOOSE i \in at : TRUE] = entry] ELSE Append(kept, entry)

\* Faulty variant: the cached value stays.
CacheDeleteNone(k) == cache

CacheDelete(k) ==
    LET at == CHOOSE i \in Cached(k) : TRUE
    IN IF Cached(k) = {} THEN cache
       ELSE SubSeq(cache, 1, at - 1) \o SubSeq(cache, at + 1, Len(cache))

Busy(k) == \E c \in Calls : call[c] # NoCall /\ call[c].key = k

Begin(c, k, r) ==
    /\ call[c] = NoCall
    /\ call' = [call EXCEPT ![c] = r]
    /\ mixed' = IF Busy(k) THEN mixed \cup {k} ELSE mixed
    /\ UNCHANGED <<disk, tmp, cache, agreed>>

Goes(c, r) == call' = [call EXCEPT ![c] = r] /\ UNCHANGED <<mixed>>

-----------------------------------------------------------------------------
(* set(): open and truncate, write, rename, cache *)

Set(c, k, v) == Begin(c, k, [op |-> "set", key |-> k, value |-> v, at |-> "open"])

\* The attempt counts from the moment the final file may have changed.
SetNext(c) ==
    LET r == call[c] IN
    /\ r.op = "set"
    /\ CASE r.at = "open" ->
              /\ tmp' = [tmp EXCEPT ![r.key] = Torn]
              /\ Goes(c, [r EXCEPT !.at = "write"]) /\ UNCHANGED <<disk, cache, agreed>>
         [] r.at = "write" ->
              /\ tmp' = [tmp EXCEPT ![r.key] = r.value]
              /\ Goes(c, [r EXCEPT !.at = "rename"]) /\ UNCHANGED <<disk, cache, agreed>>
         [] r.at = "rename" /\ tmp[r.key] # NoValue ->
              /\ disk' = [disk EXCEPT ![r.key] = tmp[r.key]]
              /\ tmp' = [tmp EXCEPT ![r.key] = NoValue]
              /\ agreed' = [agreed EXCEPT ![r.key] = @ \cup {r.value}]
              /\ Goes(c, [r EXCEPT !.at = "cache"]) /\ UNCHANGED cache
         [] r.at = "rename" /\ tmp[r.key] = NoValue ->          \* another set() took it
              Goes(c, NoCall) /\ UNCHANGED <<disk, tmp, cache, agreed>>
         [] r.at = "cache" ->
              /\ cache' = CacheSet(r.key, r.value)
              /\ agreed' = [agreed EXCEPT ![r.key] = {r.value}]
              /\ Goes(c, NoCall) /\ UNCHANGED <<disk, tmp>>

\* The disk refuses: a temporary file is left, and the call throws.
SetFails(c) ==
    /\ call[c].op = "set" /\ call[c].at \in {"open", "write"}
    /\ Goes(c, NoCall)
    /\ UNCHANGED <<disk, tmp, cache, agreed>>

-----------------------------------------------------------------------------
Delete(c, k) == Begin(c, k, [op |-> "delete", key |-> k, at |-> "unlink"])

\* Without a file delete() succeeds and leaves the cache alone.
DeleteNext(c) ==
    LET r == call[c] IN
    /\ r.op = "delete"
    /\ IF r.at = "unlink"
       THEN /\ disk' = [disk EXCEPT ![r.key] = NoValue]
            /\ agreed' = [agreed EXCEPT ![r.key] = @ \cup {NoValue}]
            /\ Goes(c, IF disk[r.key] = NoValue THEN NoCall ELSE [r EXCEPT !.at = "cache"])
            /\ UNCHANGED cache
       ELSE /\ cache' = CacheDelete(r.key)
            /\ agreed' = [agreed EXCEPT ![r.key] = {NoValue}]
            /\ Goes(c, NoCall) /\ UNCHANGED disk
    /\ UNCHANGED <<tmp>>

\* get(): what is cached is returned at once and changes nothing.
Get(c, k) ==
    /\ Cached(k) = {}
    /\ Begin(c, k, [op |-> "get", key |-> k, at |-> "read", value |-> NoValue])

\* A torn or missing file fills nothing.
GetNext(c) ==
    LET r == call[c] IN
    /\ r.op = "get"
    /\ IF r.at = "read"
       THEN Goes(c, IF disk[r.key] \in {NoValue, Torn} THEN NoCall
                    ELSE [r EXCEPT !.at = "cache", !.value = disk[r.key]]) /\ UNCHANGED cache
       ELSE Goes(c, NoCall) /\ cache' = CacheSet(r.key, r.value)
    /\ UNCHANGED <<disk, tmp, agreed>>

ClearCache ==
    /\ cache # <<>> /\ cache' = <<>>
    /\ UNCHANGED <<disk, tmp, call, agreed, mixed>>

\* The process ends and begins again: the files stay.
Crash ==
    /\ cache' = <<>>
    /\ call' = [c \in Calls |-> NoCall]
    /\ UNCHANGED <<disk, tmp, agreed, mixed>>

Next ==
    \/ \E c \in Calls : \/ \E k \in Keys : \/ Delete(c, k) \/ Get(c, k)
                                           \/ \E v \in Values : Set(c, k, v)
                        \/ SetNext(c) \/ SetFails(c) \/ DeleteNext(c) \/ GetNext(c)
    \/ ClearCache \/ Crash

Spec == Init /\ [][Next]_vars

-----------------------------------------------------------------------------
TypeOK ==
    /\ disk \in [Keys -> Contents] /\ tmp \in [Keys -> Contents]
    /\ \A i \in DOMAIN cache : cache[i].key \in Keys /\ cache[i].value \in Values
    /\ \A k \in Keys : Cardinality(Cached(k)) <= 1

\* A key that is used by one call at a time never has a torn file, wherever the
\* process ends; it has the value of the last call that ended, or one of a call
\* that a crash cut short; and what is cached is what the file has.
Durable ==
    \A k \in Keys \ mixed :
      /\ disk[k] # Torn /\ disk[k] \in agreed[k]
      /\ ~Busy(k) => \A i \in Cached(k) : cache[i].value = disk[k]

=============================================================================
