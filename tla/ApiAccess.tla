------------------------------ MODULE ApiAccess ------------------------------
(* Who may speak to a node: the login of the HTTP API (core/api/http.js) with *)
(* the manager behind it (core/crypto/auth.js), each with a limit of its own, *)
(* for one address; and the connections of the IPC server (core/api/ipc.js),  *)
(* which share one limit.  Requests overlap wherever they await.  Tokens and  *)
(* passwords are right or wrong.                                              *)
EXTENDS Integers, FiniteSets, Sequences

CONSTANTS Logins,        \* requests to log in that are in progress (bound)
          MaxAttempts,   \* of the three limits
          Lockout,       \* how long they lock
          MaxTime,       \* of the clock (bound)
          Conns,         \* connections to the IPC server
          Chunks         \* what arrives on them at a time: the commands in it

VARIABLES clock,
          http,          \* loginAttempts of the HTTP API
          mgr,           \* loginAttempts of the manager
          logins,        \* requests in progress
          ipc,           \* authAttempts of the IPC server
          tried,         \* wrong tokens compared since those were cleared (history)
          conns          \* the connections: their rights, their handlers' commands

loginVars == <<http, mgr, logins>>
ipcVars == <<ipc, tried, conns>>
vars == <<clock, loginVars, ipcVars>>

None == [count |-> 0, first |-> 0, until |-> 0]
NoConn == [authenticated |-> FALSE, running |-> <<>>, waiting |-> <<>>]

Init == /\ clock = 1
        /\ http = None /\ mgr = None
        /\ logins = [l \in Logins |-> "none"]
        /\ ipc = None /\ tried = 0
        /\ conns = [c \in Conns |-> NoConn]

Tick == clock < MaxTime /\ clock' = clock + 1 /\ UNCHANGED <<loginVars, ipcVars>>

-----------------------------------------------------------------------------
\* Faulty variant: the limit does not lock.
CheckedOnly(a) == IF a.until <= clock /\ clock - a.first > Lockout THEN None ELSE a

\* checkLoginRateLimit(), which changes the entry as it looks at it; a limit
\* that has been reached locks at the next attempt.
Checked(a) ==
    IF a.count = 0 \/ a.until > clock THEN a
    ELSE IF clock - a.first > Lockout THEN None
    ELSE IF a.count >= MaxAttempts THEN [a EXCEPT !.until = clock + Lockout]
    ELSE a
Denied(a) == Checked(a).until > clock

\* recordFailedLogin(); above the limit the count is not followed.
Recorded(a) ==
    [a EXCEPT !.count = IF @ < MaxAttempts THEN @ + 1 ELSE @, !.first = clock]

\* What handleLogin() does with a failure: it records it, and the audit log, which
\* throws for every event that has details, makes it record it again as it leaves
\* by its catch - where a second entry of that log throws, so that no request to
\* log in is ever answered.
Audited(a) == Recorded(Recorded(a))

\* Faulty variant: the entry survives its lock.
UnlockedKept(a) == a

\* _checkLockout() of the manager.
Locked(a) == a.until > clock
Unlocked(a) == IF a.until # 0 /\ ~Locked(a) THEN None ELSE a

\* _recordFailedLogin() of the manager: it locks as it reaches the limit.
Failed(a) ==
    LET n == a.count + 1
    IN [count |-> n, first |-> IF a.count = 0 THEN clock ELSE a.first,
        until |-> IF n >= MaxAttempts THEN clock + Lockout ELSE a.until]

Ends(l) == logins' = [logins EXCEPT ![l] = "none"]

\* handleLogin() up to the body of the request.
BeginLogin(l) ==
    /\ logins[l] = "none"
    /\ IF Denied(http)
       THEN http' = Audited(Checked(http)) /\ UNCHANGED logins
       ELSE http' = Checked(http) /\ logins' = [logins EXCEPT ![l] = "body"]
    /\ UNCHANGED <<clock, mgr, ipcVars>>

\* The body is no password, or not even JSON: a failure that the manager does not
\* hear of.
BadBody(l) ==
    /\ logins[l] = "body" /\ Ends(l)
    /\ http' \in {Audited(http), Recorded(http)}
    /\ UNCHANGED <<clock, mgr, ipcVars>>

\* login() of the manager, up to the files it reads.
Login(l) ==
    /\ logins[l] = "body"
    /\ mgr' = Unlocked(mgr)
    /\ IF Locked(mgr) THEN Ends(l) /\ http' = Audited(http)
                      ELSE logins' = [logins EXCEPT ![l] = "verify"] /\ UNCHANGED http
    /\ UNCHANGED <<clock, ipcVars>>

\* verifyPassword(): right, wrong, or no salt on the disk, which throws.  The
\* entry is cleared by a right one, and then has the failure of the audit log.
Verified(l) ==
    /\ logins[l] = "verify" /\ Ends(l)
    /\ \/ mgr' = None /\ http' = Recorded(None)
       \/ mgr' = Failed(mgr) /\ http' = Audited(http)
       \/ http' = Recorded(http) /\ UNCHANGED mgr
    /\ UNCHANGED <<clock, ipcVars>>

\* cleanup() of the manager: an old entry goes, be it locked or not.
Cleanup ==
    /\ mgr.count > 0
    /\ \/ mgr.until # 0 /\ mgr.until < clock
       \/ clock - mgr.first > 2 * Lockout
    /\ mgr' = None
    /\ UNCHANGED <<clock, http, logins, ipcVars>>

-----------------------------------------------------------------------------
\* Between two events a handler goes on to its next await.
Quiet == \A c \in Conns : conns[c].running = <<>>

\* `data' on a connection: its commands are handled one after another, beside
\* those of an earlier event that await router.send().
Data(c) ==
    /\ Quiet
    /\ \E chunk \in Chunks : conns' = [conns EXCEPT ![c].running = chunk]
    /\ UNCHANGED <<clock, loginVars, ipc, tried>>

\* validateIpcToken()
Matches(command) == command = "right"

Goes(c, rights) ==
    conns' = [conns EXCEPT ![c].running = Tail(@), ![c].authenticated = @ \/ rights]

At(c, commands) == conns[c].running # <<>> /\ Head(conns[c].running) \in commands

\* AUTH: only tokens of the right length are compared.
AuthCommand(c) ==
    /\ At(c, {"right", "wrong", "short"})
    /\ LET cmd == Head(conns[c].running)
           checked == Checked(ipc)
           cleared == IF checked = None THEN 0 ELSE tried
       IN \/ /\ Denied(ipc)
             /\ ipc' = Recorded(checked) /\ tried' = cleared /\ Goes(c, FALSE)
          \/ /\ ~Denied(ipc) /\ Matches(cmd)
             /\ ipc' = None /\ tried' = 0 /\ Goes(c, TRUE)
          \/ /\ ~Denied(ipc) /\ ~Matches(cmd)
             /\ ipc' = Recorded(checked) /\ Goes(c, FALSE)
             /\ tried' = IF cmd = "wrong" THEN cleared + 1 ELSE cleared
    /\ UNCHANGED <<clock, loginVars>>

\* A command that is refused, or answered at once.
Answered(c) ==
    /\ \/ At(c, {"state"})
       \/ At(c, {"send", "LOGOUT"}) /\ ~conns[c].authenticated
    /\ Goes(c, FALSE)
    /\ UNCHANGED <<clock, loginVars, ipc, tried>>

\* router:send and router:ping: the handler awaits, and others go on.
SendCommand(c) ==
    /\ At(c, {"send"}) /\ conns[c].authenticated /\ conns[c].waiting = <<>>
    /\ conns' = [conns EXCEPT ![c].waiting = @ \o conns[c].running, ![c].running = <<>>]
    /\ UNCHANGED <<clock, loginVars, ipc, tried>>

SendEnds(c) ==
    /\ Quiet /\ conns[c].waiting # <<>>
    /\ conns' = [conns EXCEPT ![c].running = Tail(conns[c].waiting), ![c].waiting = <<>>]
    /\ UNCHANGED <<clock, loginVars, ipc, tried>>

\* LOGOUT ends the writing side, and drops the rest of its own event only.
Logout(c) ==
    /\ At(c, {"LOGOUT"}) /\ conns[c].authenticated
    /\ conns' = [conns EXCEPT ![c].running = <<>>]
    /\ UNCHANGED <<clock, loginVars, ipc, tried>>

CloseConn(c) ==
    /\ Quiet /\ conns[c] # NoConn
    /\ conns' = [conns EXCEPT ![c] = NoConn]
    /\ UNCHANGED <<clock, loginVars, ipc, tried>>

LoginNext ==
    Tick \/ Cleanup \/ \E l \in Logins : BeginLogin(l) \/ BadBody(l) \/ Login(l) \/ Verified(l)
IpcNext ==
    Tick \/ \E c \in Conns : \/ Data(c) \/ AuthCommand(c) \/ Answered(c) \/ SendCommand(c)
                             \/ SendEnds(c) \/ Logout(c) \/ CloseConn(c)

Spec == Init /\ [][LoginNext \/ IpcNext]_vars

-----------------------------------------------------------------------------
Entries == [count : Nat, first : Nat, until : Nat]

TypeOK ==
    /\ clock \in 1 .. MaxTime
    /\ {http, mgr, ipc} \subseteq Entries /\ tried \in Nat
    /\ logins \in [Logins -> {"none", "body", "verify"}]
    /\ \A c \in Conns : conns[c].authenticated \in BOOLEAN

\* Between two clearings of its entry an address has at most so many wrong
\* passwords verified: one less than the limit, and one for each request that
\* had passed the check as the last of them failed.  All connections of the IPC
\* server together have at most MaxAttempts wrong tokens compared.
GuessesBounded ==
    /\ mgr.count <= MaxAttempts - 1 + Cardinality(Logins)
    /\ tried <= MaxAttempts

=============================================================================
