------------------------------- MODULE Backup -------------------------------
(* Backups of the environment (core/observability/backup.js), with one file  *)
(* in the environment, a logical clock, and backups, deletions and cleanups  *)
(* that await the disk and may overlap.  A backup is its metadata, its file, *)
(* and what it recorded of the environment's file.                           *)
EXTENDS Integers, FiniteSets, Sequences, Functions

CONSTANTS MaxBackups,     \* backups made (bound of the model)
          Tasks,          \* calls in progress at a time (bound)
          maxBackups,
          MaxTime         \* the clock, and the contents of the file (bound)

VARIABLES now,
          env,            \* [content, mtime] of the file; contents are numbered
          backups,        \* _metadata.backups: [id, status] in the array's order
          made,           \* what each backup recorded, its id being its place
          lastFull,       \* _metadata.lastFullBackup
          files,          \* backup files on the disk
          saved,          \* metadata.json
          task,           \* the calls in progress
          overlapped      \* whether calls overlapped, or were cut short (history)

vars == <<now, env, backups, made, lastFull, files, saved, task, overlapped>>

Never == -1
Nothing == 0
Idle == [op |-> "none"]

\* A backup records in `got' the content of the file, or Nothing if it skips
\* it; `seen' is the content at that moment, and `base' the full backup that the
\* skipping relies on (history).
Ids == DOMAIN made

Init ==
    /\ now = 0
    /\ env = [content |-> 1, mtime |-> 0]
    /\ backups = <<>> /\ made = <<>>
    /\ lastFull = Never
    /\ files = {}
    /\ saved = [list |-> <<>>, lastFull |-> Never]
    /\ task = [t \in Tasks |-> Idle]
    /\ overlapped = FALSE

-----------------------------------------------------------------------------
Tick == /\ now < MaxTime /\ now' = now + 1
        /\ UNCHANGED <<env, backups, made, lastFull, files, saved, task, overlapped>>

Modify ==
    /\ env.content < MaxTime + 1
    /\ env' = [content |-> env.content + 1, mtime |-> now]
    /\ UNCHANGED <<now, backups, made, lastFull, files, saved, task, overlapped>>

Free(t) == task[t] = Idle /\ \A u \in Tasks : task[u] = Idle => t <= u
Others(t) == \E u \in Tasks \ {t} : task[u] # Idle

Listed(b) == {i \in DOMAIN backups : backups[i].id = b}
HasStatus(b, status) == \E i \in Listed(b) : backups[i].status \in status

Saving(list, last, cleans, rest) ==
    [op |-> "save", data |-> [list |-> list, lastFull |-> last], cleans |-> cleans, rest |-> rest]
GoesOn(rest) == IF rest = <<>> THEN Idle ELSE [op |-> "cleanup", rest |-> rest]

\* createBackup(): the time it is named by is the time it begins; which files
\* an incremental one skips is decided by the last full backup of that moment.
CreateBackup(t, full) ==
    /\ Free(t) /\ Len(made) < MaxBackups
    /\ LET since == IF full THEN Never ELSE lastFull
           bases == {a \in Ids : /\ made[a].full /\ made[a].createdAt = since
                                 /\ made[a].got # Nothing}
           base == IF bases = {} THEN Nothing ELSE CHOOSE a \in bases : TRUE
       IN /\ made' = Append(made, [full |-> full, createdAt |-> now, base |-> base,
                                   got |-> Nothing, seen |-> Nothing])
          /\ task' = [task EXCEPT ![t] = [op |-> "backup", id |-> Len(made'), at |-> "collect",
                                          since |-> since]]
    /\ overlapped' = (overlapped \/ Others(t))
    /\ UNCHANGED <<now, env, backups, lastFull, files, saved>>

Skips(since) == since # Never /\ env.mtime < since

\* _collectFiles(): stat() and readFile().
Collect(t) ==
    LET r == task[t] IN
    /\ r.op = "backup" /\ r.at = "collect"
    /\ made' = [made EXCEPT ![r.id].seen = env.content,
                            ![r.id].got = IF Skips(r.since) THEN Nothing ELSE env.content]
    /\ task' = [task EXCEPT ![t].at = "write"]
    /\ UNCHANGED <<now, env, backups, lastFull, files, saved, overlapped>>

\* Faulty variant: the full backup is dated by its end.
FullDateEnd(b) == now

\* What lastFullBackup becomes.
FullDate(b) == made[b].createdAt

\* After its file is written a backup enters the metadata, or, if the write
\* failed, enters them as failed.  The metadata is written in a step of its own.
WriteBackup(t, ok) ==
    LET r == task[t]
        last == IF ok /\ made[r.id].full THEN FullDate(r.id) ELSE lastFull
    IN /\ r.op = "backup" /\ r.at = "write"
       /\ files' = IF ok THEN files \cup {r.id} ELSE files
       /\ backups' = Append(backups, [id |-> r.id, status |-> IF ok THEN "completed" ELSE "failed"])
       /\ lastFull' = last
       /\ task' = [task EXCEPT ![t] = Saving(backups', last, ok, <<>>)]
       /\ UNCHANGED <<now, env, made, saved, overlapped>>

\* _saveMetadata() is done; a backup goes on to _cleanupOldBackups(), which
\* sorts the array, newest first, and deletes one after the other.
Newer(x, y) == \/ made[x.id].createdAt > made[y.id].createdAt
               \/ made[x.id].createdAt = made[y.id].createdAt /\ x.id > y.id

\* How many the array has that come before its i-th.
Rank(i) == Cardinality({j \in DOMAIN backups : Newer(backups[j], backups[i])})

Sorted == [k \in 1..Len(backups) |->
             backups[CHOOSE i \in DOMAIN backups : Rank(i) = k - 1]]

Save(t) ==
    LET r == task[t] IN
    /\ r.op = "save"
    /\ saved' = r.data
    /\ IF r.cleans /\ Len(backups) > maxBackups
       THEN /\ backups' = Sorted
            /\ task' = [task EXCEPT ![t] = GoesOn(SubSeq(Sorted, maxBackups + 1, Len(Sorted)))]
       ELSE task' = [task EXCEPT ![t] = GoesOn(r.rest)] /\ UNCHANGED backups
    /\ UNCHANGED <<now, env, made, lastFull, files, overlapped>>

\* deleteBackup(): the index is looked up before the file is removed, and used
\* afterwards.  `rest' is what a cleanup has still to delete.
Lookup(t, b, rest) ==
    task' = [task EXCEPT ![t] =
               IF Listed(b) = {} THEN GoesOn(rest)
               ELSE [op |-> "delete", id |-> b, rest |-> rest, index |-> CHOOSE i \in Listed(b) : TRUE]]

DeleteBackup(t, b) ==
    /\ Free(t) /\ Listed(b) # {}
    /\ Lookup(t, b, <<>>)
    /\ overlapped' = (overlapped \/ Others(t))
    /\ UNCHANGED <<now, env, backups, made, lastFull, files, saved>>

Cleanup(t) ==
    /\ task[t].op = "cleanup"
    /\ Lookup(t, Head(task[t].rest).id, Tail(task[t].rest))
    /\ UNCHANGED <<now, env, backups, made, lastFull, files, saved, overlapped>>

\* Faulty variant: the metadata of a backup whose file is gone stays.
WithoutNone(list, i) == list

\* splice()
Without(list, i) ==
    IF i <= Len(list) THEN SubSeq(list, 1, i - 1) \o SubSeq(list, i + 1, Len(list)) ELSE list

\* unlink() fails for a backup that failed and has no file: its metadata stays.
Unlinked(t) ==
    LET r == task[t]
        list == Without(backups, r.index)
    IN /\ r.op = "delete"
       /\ IF r.id \in files
          THEN /\ files' = files \ {r.id}
               /\ backups' = list
               /\ task' = [task EXCEPT ![t] = Saving(list, lastFull, FALSE, r.rest)]
          ELSE task' = [task EXCEPT ![t] = GoesOn(r.rest)] /\ UNCHANGED <<files, backups>>
       /\ UNCHANGED <<now, env, made, lastFull, saved, overlapped>>

-----------------------------------------------------------------------------
\* verifyBackup(): gunzip refuses an archive of less than 1024 bytes, which was
\* not compressed; the status then stays.
VerifyBackup(t, b, large) ==
    /\ Free(t) /\ Listed(b) # {}
    /\ backups' = IF b \in files /\ large
                  THEN [i \in DOMAIN backups |-> IF i \in Listed(b)
                          THEN [backups[i] EXCEPT !.status = "verified"] ELSE backups[i]]
                  ELSE backups
    /\ task' = [task EXCEPT ![t] = Saving(backups', lastFull, FALSE, <<>>)]
    /\ overlapped' = (overlapped \/ Others(t))
    /\ UNCHANGED <<now, env, made, lastFull, files, saved>>

\* restoreBackup(): not one that was verified.
RestoreBackup(b) ==
    /\ HasStatus(b, {"completed"}) /\ b \in files
    /\ made[b].got # Nothing
    /\ env' = [content |-> made[b].got, mtime |-> now]
    /\ UNCHANGED <<now, backups, made, lastFull, files, saved, task, overlapped>>

\* The process ends; init() reads the metadata again.
Crash ==
    /\ backups' = saved.list /\ lastFull' = saved.lastFull
    /\ task' = [t \in Tasks |-> Idle]
    /\ overlapped' = (overlapped \/ \E t \in Tasks : task[t] # Idle)
    /\ UNCHANGED <<now, env, made, files, saved>>

Next ==
    \/ Tick \/ Modify \/ Crash
    \/ \E t \in Tasks :
         \/ Collect(t) \/ Save(t) \/ Cleanup(t) \/ Unlinked(t)
         \/ \E x \in BOOLEAN : CreateBackup(t, x) \/ WriteBackup(t, x)
         \/ \E b \in Ids : DeleteBackup(t, b) \/ \E large \in BOOLEAN : VerifyBackup(t, b, large)
    \/ \E b \in Ids : RestoreBackup(b)

Spec == Init /\ [][Next]_vars

-----------------------------------------------------------------------------
TypeOK ==
    /\ \A i \in DOMAIN backups : /\ backups[i].id \in Ids
                                 /\ backups[i].status \in {"completed", "failed", "verified"}
    /\ files \subseteq Ids
    /\ lastFull \in {Never} \cup 0..MaxTime

\* An incremental backup that skips the file was made while the file had just
\* the content that the full backup before it has, so that the two together
\* restore what there was, whatever was written while either was collected.
IncrementalIsComplete ==
    \A b \in Ids :
      (made[b].seen # Nothing /\ made[b].got = Nothing) =>
        made[b].base # Nothing /\ made[made[b].base].got = made[b].seen

\* When nothing is in progress, and no two calls overlapped, the metadata lists
\* exactly the backups that have files, and those that failed, on the disk too.
MetadataMatchesFiles ==
    (~overlapped /\ \A t \in Tasks : task[t] = Idle) =>
      /\ {b \in Ids : HasStatus(b, {"completed", "verified"})} = files
      /\ Range(saved.list) = Range(backups) /\ saved.lastFull = lastFull

=============================================================================
