--------------------------- MODULE Authentication ---------------------------
(* The authentication manager (core/auth/manager.js): logins that await the  *)
(* password check, tokens and the list of revoked ones, and API keys that    *)
(* are saved to a file after every change.  Signatures always hold here: a   *)
(* token is one the manager made.                                            *)
EXTENDS Integers, FiniteSets, Sequences, Functions

CONSTANTS Ips, Keys,
          MaxAttempts,     \* MAX_LOGIN_ATTEMPTS
          maxBlacklist,    \* 10000 in the code
          Logins,          \* concurrent logins (bound of the model)
          MaxTokens,       \* tokens made (bound)
          Saves            \* concurrent saves (bound)

VARIABLES attempts,        \* loginAttempts: [count, locked] of each address
          login,           \* the address each login() in progress is for
          tokens,          \* tokens made: [type, expired]
          blacklist,       \* blacklistedTokens, in the order they came
          dropped,         \* tokens _cleanupBlacklist() forgot (history)
          revoked,         \* tokens logout() was called with (history)
          apiKeys,
          saving,          \* what each save in progress will write, and where it is
          file,            \* api-keys.json
          overlapped       \* whether two saves ran at a time (history)

vars == <<attempts, login, tokens, blacklist, dropped, revoked, apiKeys, saving, file,
          overlapped>>
LoginVars == <<attempts, login>>
TokenVars == <<tokens, blacklist, dropped, revoked>>
KeyVars == <<apiKeys, saving, file, overlapped>>

Nobody == "nobody"

Init ==
    /\ attempts = [a \in Ips |-> [count |-> 0, locked |-> FALSE]]
    /\ login = [l \in Logins |-> Nobody]
    /\ tokens = <<>> /\ blacklist = <<>> /\ dropped = {} /\ revoked = {}
    /\ apiKeys = {} /\ file = {}
    /\ saving = [s \in Saves |-> [phase |-> "none", keys |-> {}]]
    /\ overlapped = FALSE

-----------------------------------------------------------------------------
(* login(): the lock is asked for before the password is checked, the count  *)
(* is kept afterwards.                                                       *)

Login(l, ip) ==
    /\ login[l] = Nobody
    /\ ~attempts[ip].locked
    /\ login' = [login EXCEPT ![l] = ip]
    /\ UNCHANGED <<attempts, TokenVars, KeyVars>>

\* Faulty variant: a lockout does not begin a new count.
FailedUncleared(a) == IF a.count + 1 > MaxAttempts THEN [count |-> 0, locked |-> TRUE]
                      ELSE [a EXCEPT !.count = @ + 1]

\* _recordFailedLogin(): the fifth failure locks and counts anew.
Failed(a) == IF a.count + 1 >= MaxAttempts THEN [count |-> 0, locked |-> TRUE]
             ELSE [a EXCEPT !.count = @ + 1]

NewToken(type) == [type |-> type, expired |-> FALSE]

PasswordChecked(l, valid) ==
    /\ login[l] # Nobody
    /\ login' = [login EXCEPT ![l] = Nobody]
    /\ IF valid
       THEN /\ attempts' = [attempts EXCEPT ![login[l]] = [count |-> 0, locked |-> FALSE]]
            /\ Len(tokens) + 2 <= MaxTokens
            /\ tokens' = tokens \o <<NewToken("access"), NewToken("refresh")>>
       ELSE attempts' = [attempts EXCEPT ![login[l]] = Failed(@)] /\ UNCHANGED tokens
    /\ UNCHANGED <<blacklist, dropped, revoked, KeyVars>>

\* The lockout ends by the clock; the entry stays.
LockoutEnds(ip) ==
    /\ attempts[ip].locked
    /\ attempts' = [attempts EXCEPT ![ip].locked = FALSE]
    /\ UNCHANGED <<login, TokenVars, KeyVars>>

-----------------------------------------------------------------------------
(* Tokens *)

verifyToken(t) == ~tokens[t].expired

\* Any type of token passes here.
validateToken(t) == t \notin Range(blacklist) /\ verifyToken(t)

mayRefresh(t) == verifyToken(t) /\ tokens[t].type = "refresh" /\ t \notin Range(blacklist)

refreshToken(t) ==
    /\ mayRefresh(t)
    /\ Len(tokens) < MaxTokens
    /\ tokens' = Append(tokens, NewToken("access"))
    /\ UNCHANGED <<LoginVars, blacklist, dropped, revoked, KeyVars>>

\* Faulty variant: the newer half goes.
CleanedNewest(list) == IF Len(list) > maxBlacklist
                       THEN SubSeq(list, 1, Len(list) \div 2) ELSE list

\* _cleanupBlacklist(): above its limit the list loses its older half.
Cleaned(list) == IF Len(list) > maxBlacklist
                 THEN SubSeq(list, (Len(list) + 1) \div 2 + 1, Len(list)) ELSE list

logout(t) ==
    LET list == IF t \in Range(blacklist) THEN blacklist ELSE Append(blacklist, t)
    IN /\ blacklist' = Cleaned(list)
       /\ dropped' = dropped \cup (Range(SubSeq(list, 1, Len(list) - Len(blacklist'))))
       /\ revoked' = revoked \cup {t}
       /\ UNCHANGED <<LoginVars, tokens, KeyVars>>

Expire(t) ==
    /\ ~tokens[t].expired
    /\ tokens' = [tokens EXCEPT ![t].expired = TRUE]
    /\ UNCHANGED <<LoginVars, blacklist, dropped, revoked, KeyVars>>

-----------------------------------------------------------------------------
(* API keys: _saveApiKeys() takes the keys, awaits mkdir(), and writes.      *)

Save(s, keys) ==
    /\ saving[s].phase = "none"
    /\ apiKeys' = keys
    /\ saving' = [saving EXCEPT ![s] = [phase |-> "mkdir", keys |-> keys]]
    /\ overlapped' = (overlapped \/ \E t \in Saves : saving[t].phase # "none")
    /\ UNCHANGED <<LoginVars, TokenVars, file>>

generateApiKey(s, k) == k \notin apiKeys /\ Save(s, apiKeys \cup {k})

\* Faulty variant: the keys are saved before the key is removed.
revokeAfterSave(s, k) ==
    /\ k \in apiKeys /\ saving[s].phase = "none"
    /\ apiKeys' = apiKeys \ {k}
    /\ saving' = [saving EXCEPT ![s] = [phase |-> "mkdir", keys |-> apiKeys]]
    /\ overlapped' = (overlapped \/ \E t \in Saves : saving[t].phase # "none")
    /\ UNCHANGED <<LoginVars, TokenVars, file>>

revokeApiKey(s, k) == k \in apiKeys /\ Save(s, apiKeys \ {k})

Write(s) ==
    /\ saving[s].phase = "mkdir"
    /\ file' = saving[s].keys
    /\ saving' = [saving EXCEPT ![s].phase = "none", ![s].keys = {}]
    /\ UNCHANGED <<LoginVars, TokenVars, apiKeys, overlapped>>

\* The process ends, tokens live on by their signature, and init() loads the
\* keys of the file.  A save that did not get to its write is lost.
Restart ==
    /\ attempts' = [a \in Ips |-> [count |-> 0, locked |-> FALSE]]
    /\ login' = [l \in Logins |-> Nobody]
    /\ blacklist' = <<>> /\ dropped' = dropped \cup revoked
    /\ apiKeys' = file
    /\ saving' = [s \in Saves |-> [phase |-> "none", keys |-> {}]]
    /\ UNCHANGED <<tokens, revoked, file, overlapped>>

LoginNext ==
    \/ Restart
    \/ \E l \in Logins : \/ \E ip \in Ips : Login(l, ip)
                         \/ \E valid \in BOOLEAN : PasswordChecked(l, valid)
    \/ \E ip \in Ips : LockoutEnds(ip)
    \/ \E t \in DOMAIN tokens : refreshToken(t) \/ logout(t) \/ Expire(t)
KeyNext ==
    \/ \E s \in Saves : Write(s) \/ \E k \in Keys : generateApiKey(s, k) \/ revokeApiKey(s, k)
    \/ Restart

\* Tokens and keys share no state: a run may explore them apart.
Next == LoginNext \/ KeyNext

Spec == Init /\ [][Next]_vars

-----------------------------------------------------------------------------
TypeOK ==
    /\ \A a \in Ips : attempts[a].count \in 0..(MaxAttempts - 1)
    /\ \A t \in DOMAIN tokens : tokens[t].type \in {"access", "refresh"}
    /\ IsInjective(blacklist) /\ Range(blacklist) \subseteq revoked
    /\ apiKeys \subseteq Keys /\ file \subseteq Keys

\* A token somebody logged out of is refused, except for those the list lost
\* at its limit or with the process; and the list keeps within its limit.
RevokedIsRefused ==
    /\ \A t \in revoked \ dropped : ~validateToken(t) /\ ~mayRefresh(t)
    /\ Len(blacklist) <= maxBlacklist

\* When the saves are done, and never two ran at once, the file has exactly the
\* keys in use, so that a restart neither loses a key nor brings one back.
KeysAreSaved ==
    (~overlapped /\ \A s \in Saves : saving[s].phase = "none") => file = apiKeys

=============================================================================
