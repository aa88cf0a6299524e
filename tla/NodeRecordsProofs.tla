--------------------------- MODULE NodeRecordsProofs ---------------------------
(* Proofs about the parts of NodeServices that say who may do what - logins  *)
(* of the APIs, tokens and API keys, roles - and about what a node has on    *)
(* the disk: the files of a start, the store, the backups.  As in            *)
(* NodeServicesProofs an invariant is kept when the steps of the part that   *)
(* it is about keep it.                                                      *)
EXTENDS NodeServices, FiniteSetTheorems, FunctionTheorems, SequenceTheorems,
        WellFoundedInduction, TLAPS

-----------------------------------------------------------------------------
(* A step of a behaviour is one of the part that the behaviour explores.     *)

LEMMA StepOfAccess ==
  ASSUME [Next]_vars
  PROVE  /\ part' = part
         /\ part = "http" => Access!LoginNext \/ UNCHANGED accessVars
         /\ part = "ipc" => Access!IpcNext \/ UNCHANGED accessVars
         /\ part = "logins" => Auth!LoginNext \/ UNCHANGED authVars
         /\ part = "keys" => Auth!KeyNext \/ UNCHANGED authVars
         /\ part = "roles" => Roles!Next \/ UNCHANGED roleVars
<1>1. CASE UNCHANGED vars
  BY <1>1, Zenon DEF vars
<1>2. ASSUME NEW p, Only(p) PROVE part' = part /\ part = p
  BY <1>2 DEF Only
<1> QED
  BY <1>1, <1>2 DEF Next

-----------------------------------------------------------------------------
(* Logins at the APIs.  The bound on guesses is not inductive: that a request *)
(* verifies a password at all means that the manager's entry was below its    *)
(* limit as it began, so the failures to come are counted with those there    *)
(* were (ManagerInv); and the wrong tokens compared are among the failures of *)
(* the IPC server, which are followed up to the limit (IpcInv).               *)

Verifying == {l \in ApiLogins : logins[l] = "verify"}

EntriesOK ==
    /\ clock \in Nat \ {0}
    /\ mgr \in Access!Entries /\ ipc \in Access!Entries /\ tried \in Nat
    /\ logins \in [ApiLogins -> {"none", "body", "verify"}]

ManagerInv ==
    /\ mgr.until = 0 => mgr.count < MaxGuesses
    /\ mgr.count + Cardinality(Verifying) <= MaxGuesses - 1 + Cardinality(ApiLogins)

IpcInv == tried <= ipc.count /\ ipc.count <= MaxGuesses

AccessInv == EntriesOK /\ ManagerInv /\ IpcInv

\* An entry of an address stays one, through each of the operations on it.
LEMMA EntriesStay ==
    ASSUME NEW a \in Access!Entries, clock \in Nat \ {0}
    PROVE  /\ Access!None \in Access!Entries /\ Access!Checked(a) \in Access!Entries
           /\ Access!Recorded(a) \in Access!Entries /\ Access!Unlocked(a) \in Access!Entries /\ Access!Failed(a) \in Access!Entries
<1>1. a = [count |-> a.count, first |-> a.first, until |-> a.until]
      /\ a.count \in Nat /\ a.first \in Nat /\ a.until \in Nat
  BY DEF Access!Entries
<1>2. Access!None \in Access!Entries
  BY DEF Access!None, Access!Entries
<1>3. Access!Checked(a) \in Access!Entries
  <2>1. clock + Lockout \in Nat
    BY GuessesFit
  <2>2. [a EXCEPT !.until = clock + Lockout] \in Access!Entries
    BY <1>1, <2>1 DEF Access!Entries
  <2>3. QED
    BY <1>2, <2>2 DEF Access!Checked
<1>4. Access!Recorded(a) \in Access!Entries
  <2>1. (IF a.count < MaxGuesses THEN a.count + 1 ELSE a.count) \in Nat
    BY <1>1
  <2>2. QED
    BY <1>1, <2>1 DEF Access!Recorded, Access!Entries
<1>5. Access!Unlocked(a) \in Access!Entries
  BY <1>2 DEF Access!Unlocked
<1>6. Access!Failed(a) \in Access!Entries
  <2>1. a.count + 1 \in Nat /\ clock + Lockout \in Nat
    BY <1>1, GuessesFit
  <2>2. QED
    BY <1>1, <2>1 DEF Access!Failed, Access!Entries
<1>7. QED
  BY <1>2, <1>3, <1>4, <1>5, <1>6

\* Those that verify are some of the requests, and lose one that ends.
LEMMA VerifyingIsFinite ==
           /\ Cardinality(ApiLogins) \in Nat
           /\ IsFiniteSet(Verifying) /\ Cardinality(Verifying) \in Nat
           /\ Cardinality(Verifying) <= Cardinality(ApiLogins)
<1>1. Verifying \subseteq ApiLogins
  BY DEF Verifying
<1>2. QED
  BY <1>1, FS_Subset, FS_CardinalityType, GuessesFit

LEMMA VerifyingLosesOne ==
    ASSUME EntriesOK, NEW l \in ApiLogins, logins[l] = "verify", Access!Ends(l)
    PROVE  Cardinality(Verifying') = Cardinality(Verifying) - 1
<1>1. Verifying' = Verifying \ {l} /\ l \in Verifying
  BY DEF Verifying, Access!Ends, EntriesOK
<1>2. QED
  BY <1>1, VerifyingIsFinite, FS_RemoveElement

\* The steps of the requests to log in.
LEMMA LoginKeeps ==
    ASSUME AccessInv, NEW l \in ApiLogins,
           Access!BeginLogin(l) \/ Access!BadBody(l) \/ Access!Login(l) \/ Access!Verified(l)
    PROVE  AccessInv'
<1>0. /\ mgr \in Access!Entries /\ mgr.count \in Nat /\ mgr.until \in Nat
      /\ MaxGuesses \in Nat \ {0} /\ clock \in Nat \ {0} /\ Lockout \in Nat \ {0}
  BY GuessesFit DEF AccessInv, EntriesOK, Access!Entries
<1>1. IpcInv' /\ ipc' \in Access!Entries /\ tried' \in Nat /\ clock' \in Nat \ {0}
  BY DEF AccessInv, IpcInv, EntriesOK, Access!BeginLogin, Access!BadBody,
         Access!Login, Access!Verified, Access!ipcVars
<1>2. logins' \in [ApiLogins -> {"none", "body", "verify"}]
  BY DEF AccessInv, EntriesOK, Access!BeginLogin, Access!BadBody, Access!Login,
         Access!Verified, Access!Ends
<1>3. mgr' \in Access!Entries
  BY <1>0, EntriesStay
     DEF Access!BeginLogin, Access!BadBody, Access!Login, Access!Verified
<1>4. CASE (Access!BeginLogin(l) \/ Access!BadBody(l))
  <2>1. Verifying' = Verifying /\ mgr' = mgr
    BY <1>4
       DEF Access!BeginLogin, Access!BadBody, Access!Ends, Verifying, AccessInv,
           EntriesOK
  <2>2. QED
    BY <1>1, <1>2, <1>3, <2>1 DEF AccessInv, ManagerInv, EntriesOK
<1>5. CASE Access!Login(l)
  <2>1. CASE Access!Locked(mgr)
    <3>1. Verifying' = Verifying /\ mgr' = mgr
      BY <1>5, <2>1
         DEF Access!Login, Access!Unlocked, Access!Ends, Verifying, AccessInv,
             EntriesOK
    <3>2. QED
      BY <1>1, <1>2, <1>3, <3>1 DEF AccessInv, ManagerInv, EntriesOK
  <2>2. CASE ~Access!Locked(mgr)
    <3>1. mgr'.count < MaxGuesses /\ mgr'.count \in Nat
      BY <1>0, <1>5, <2>2
         DEF Access!Login, Access!Unlocked, Access!None, AccessInv, ManagerInv
    <3>2. /\ Cardinality(Verifying') <= Cardinality(ApiLogins)
          /\ Cardinality(Verifying') \in Nat /\ Cardinality(ApiLogins) \in Nat
      <4>1. Verifying' \subseteq ApiLogins
        BY DEF Verifying
      <4>2. QED
        BY <4>1, FS_Subset, FS_CardinalityType, GuessesFit
    <3>3. ManagerInv'
      BY <1>0, <3>1, <3>2 DEF ManagerInv
    <3>4. QED
      BY <1>1, <1>2, <1>3, <3>3 DEF AccessInv, EntriesOK
  <2>3. QED
    BY <2>1, <2>2
<1>6. CASE Access!Verified(l)
  <2>1. Cardinality(Verifying') = Cardinality(Verifying) - 1
    BY <1>6, VerifyingLosesOne DEF Access!Verified, AccessInv
  <2>2. Cardinality(Verifying) \in Nat /\ Cardinality(ApiLogins) \in Nat
    BY VerifyingIsFinite
  <2>3. Cardinality(Verifying') \in Nat /\ Cardinality(Verifying') <= Cardinality(ApiLogins)
    <3>1. Verifying' \subseteq ApiLogins
      BY DEF Verifying
    <3>2. QED
      BY <3>1, FS_Subset, FS_CardinalityType, GuessesFit
  <2>4. CASE mgr' = Access!None
    <3>1. mgr'.count = 0 /\ mgr'.until = 0
      BY <2>4 DEF Access!None
    <3>2. ManagerInv'
      BY <1>0, <2>2, <2>3, <3>1 DEF ManagerInv
    <3>3. QED
      BY <1>1, <1>2, <1>3, <3>2 DEF AccessInv, EntriesOK
  <2>5. CASE mgr' = Access!Failed(mgr)
    <3>1. /\ mgr'.count = mgr.count + 1
          /\ mgr'.until = 0 => mgr'.count < MaxGuesses
      BY <1>0, <2>5 DEF Access!Failed
    <3>2. mgr.count + Cardinality(Verifying) <= MaxGuesses - 1 + Cardinality(ApiLogins)
      BY DEF AccessInv, ManagerInv
    <3>3. ManagerInv'
      BY <1>0, <2>1, <2>2, <3>1, <3>2 DEF ManagerInv
    <3>4. QED
      BY <1>1, <1>2, <1>3, <3>3 DEF AccessInv, EntriesOK
  <2>6. CASE mgr' = mgr
    <3>1. ManagerInv'
      BY <1>0, <2>1, <2>2, <2>6 DEF ManagerInv, AccessInv
    <3>2. QED
      BY <1>1, <1>2, <1>3, <3>1 DEF AccessInv, EntriesOK
  <2>7. QED
    BY <1>6, <2>4, <2>5, <2>6 DEF Access!Verified
<1>7. QED
  BY <1>4, <1>5, <1>6

\* The clock and the cleanup of the manager.
LEMMA ClockKeeps ==
    ASSUME AccessInv, Access!Tick \/ Access!Cleanup
    PROVE  AccessInv'
<1>0. clock \in Nat \ {0} /\ clock' \in Nat \ {0}
  BY DEF AccessInv, EntriesOK, Access!Tick, Access!Cleanup
<1>1. Verifying' = Verifying
  BY DEF Verifying, Access!Tick, Access!Cleanup, Access!loginVars
<1>2. Cardinality(Verifying) \in Nat /\ Cardinality(ApiLogins) \in Nat
      /\ Cardinality(Verifying) <= Cardinality(ApiLogins) /\ MaxGuesses \in Nat \ {0}
  BY VerifyingIsFinite, GuessesFit
<1>3. IpcInv' /\ ipc' \in Access!Entries /\ tried' \in Nat
      /\ logins' \in [ApiLogins -> {"none", "body", "verify"}]
  BY DEF AccessInv, EntriesOK, IpcInv, Access!Tick, Access!Cleanup, Access!loginVars,
         Access!ipcVars
<1>4. mgr' = mgr \/ mgr' = Access!None
  BY DEF Access!Tick, Access!Cleanup, Access!loginVars
<1>5. ManagerInv' /\ mgr' \in Access!Entries
  <2>1. CASE mgr' = mgr
    BY <1>1, <2>1 DEF AccessInv, ManagerInv, EntriesOK
  <2>2. CASE mgr' = Access!None
    <3>1. mgr'.count = 0 /\ mgr' \in Access!Entries
      BY <2>2 DEF Access!None, Access!Entries
    <3>2. QED
      BY <1>1, <1>2, <3>1 DEF ManagerInv
  <2>3. QED
    BY <1>4, <2>1, <2>2
<1>6. QED
  BY <1>0, <1>3, <1>5 DEF AccessInv, EntriesOK

\* The connections of the IPC server: only AUTH has to do with its entry.
LEMMA AuthKeeps ==
    ASSUME EntriesOK, IpcInv, NEW c \in Conns, Access!AuthCommand(c)
    PROVE  IpcInv' /\ ipc' \in Access!Entries /\ tried' \in Nat
<1> DEFINE checked == Access!Checked(ipc)
           cleared == IF checked = Access!None THEN 0 ELSE tried
<1>0. /\ ipc \in Access!Entries /\ ipc.count \in Nat /\ ipc.until \in Nat /\ ipc.first \in Nat
      /\ MaxGuesses \in Nat \ {0} /\ Lockout \in Nat \ {0} /\ clock \in Nat \ {0}
      /\ tried \in Nat /\ tried <= ipc.count /\ ipc.count <= MaxGuesses
  BY GuessesFit DEF EntriesOK, IpcInv, Access!Entries
<1>1. /\ checked \in Access!Entries /\ checked.count \in Nat
      /\ Access!Recorded(checked) \in Access!Entries /\ Access!None \in Access!Entries
  <2>1. checked \in Access!Entries /\ Access!None \in Access!Entries
    BY <1>0, EntriesStay
  <2>2. QED
    BY <1>0, <2>1, EntriesStay DEF Access!Entries
<1>2. checked = Access!None \/ checked.count = ipc.count
  <2>1. ipc = [count |-> ipc.count, first |-> ipc.first, until |-> ipc.until]
    BY <1>0 DEF Access!Entries
  <2>2. [ipc EXCEPT !.until = clock + Lockout].count = ipc.count
    BY <2>1
  <2>3. QED
    BY <2>2 DEF Access!Checked
<1>3. cleared \in Nat /\ cleared <= checked.count /\ checked.count <= MaxGuesses
  <2>1. Access!None.count = 0
    BY DEF Access!None
  <2>2. QED
    BY <1>0, <1>1, <1>2, <2>1
<1>4. /\ Access!Recorded(checked).count \in Nat
      /\ Access!Recorded(checked).count = IF checked.count < MaxGuesses THEN checked.count + 1
                                                                  ELSE checked.count
  <2>1. checked = [count |-> checked.count, first |-> checked.first, until |-> checked.until]
    BY <1>1 DEF Access!Entries
  <2>2. QED
    BY <1>0, <1>1, <2>1 DEF Access!Recorded
<1>5. ~Access!Denied(ipc) => checked.count < MaxGuesses
  <2>1. SUFFICES ASSUME ~(checked.until > clock) PROVE checked.count < MaxGuesses
    BY DEF Access!Denied
  <2>2. CASE ipc.count = 0 \/ ipc.until > clock
    BY <1>0, <2>1, <2>2 DEF Access!Checked
  <2>3. CASE ~(ipc.count = 0 \/ ipc.until > clock) /\ clock - ipc.first > Lockout
    BY <1>0, <2>3 DEF Access!Checked, Access!None
  <2>4. CASE /\ ~(ipc.count = 0 \/ ipc.until > clock) /\ ~(clock - ipc.first > Lockout)
             /\ ipc.count >= MaxGuesses
    <3>1. checked = [ipc EXCEPT !.until = clock + Lockout]
      BY <2>4 DEF Access!Checked
    <3>2. checked.until = clock + Lockout
      <4>1. ipc = [count |-> ipc.count, first |-> ipc.first, until |-> ipc.until]
        BY <1>0 DEF Access!Entries
      <4>2. QED
        BY <3>1, <4>1
    <3>3. QED
      BY <1>0, <2>1, <3>2
  <2>5. CASE /\ ~(ipc.count = 0 \/ ipc.until > clock) /\ ~(clock - ipc.first > Lockout)
             /\ ~(ipc.count >= MaxGuesses)
    BY <1>0, <2>5 DEF Access!Checked
  <2>6. QED
    BY <2>2, <2>3, <2>4, <2>5
<1>6. \/ ipc' = Access!Recorded(checked) /\ tried' = cleared
      \/ ipc' = Access!None /\ tried' = 0
      \/ ~Access!Denied(ipc) /\ ipc' = Access!Recorded(checked) /\ tried' \in {cleared, cleared + 1}
  BY DEF Access!AuthCommand
<1> HIDE DEF checked, cleared
<1>7. CASE ipc' = Access!None /\ tried' = 0
  BY <1>0, <1>1, <1>7 DEF IpcInv, Access!None
<1>8. CASE ipc' = Access!Recorded(checked) /\ tried' = cleared
  BY <1>0, <1>1, <1>3, <1>4, <1>8 DEF IpcInv
<1>9. CASE ~Access!Denied(ipc) /\ ipc' = Access!Recorded(checked) /\ tried' \in {cleared, cleared + 1}
  BY <1>0, <1>1, <1>3, <1>4, <1>5, <1>9 DEF IpcInv
<1>10. QED
  BY <1>6, <1>7, <1>8, <1>9

LEMMA IpcKeeps ==
    ASSUME AccessInv, NEW c \in Conns,
           \/ Access!Data(c) \/ Access!AuthCommand(c) \/ Access!Answered(c) \/ Access!SendCommand(c)
           \/ Access!SendEnds(c) \/ Access!Logout(c) \/ Access!CloseConn(c)
    PROVE  AccessInv'
<1>1. ManagerInv' /\ clock' \in Nat \ {0} /\ mgr' \in Access!Entries
      /\ logins' \in [ApiLogins -> {"none", "body", "verify"}]
  <2>1. UNCHANGED <<clock, mgr, logins>>
    BY DEF Access!Data, Access!AuthCommand, Access!Answered, Access!SendCommand,
           Access!SendEnds, Access!Logout, Access!CloseConn, Access!loginVars
  <2>2. Verifying' = Verifying
    BY <2>1 DEF Verifying
  <2>3. QED
    BY <2>1, <2>2 DEF AccessInv, ManagerInv, EntriesOK
<1>2. IpcInv' /\ ipc' \in Access!Entries /\ tried' \in Nat
  <2>1. CASE Access!AuthCommand(c)
    BY <2>1, AuthKeeps DEF AccessInv
  <2>2. CASE UNCHANGED <<ipc, tried>>
    BY <2>2 DEF AccessInv, IpcInv, EntriesOK
  <2>3. QED
    BY <2>1, <2>2
       DEF Access!Data, Access!Answered, Access!SendCommand, Access!SendEnds,
           Access!Logout, Access!CloseConn
<1>3. QED
  BY <1>1, <1>2 DEF AccessInv, EntriesOK

LEMMA AccessInvInit == ASSUME Access!Init PROVE AccessInv
<1>1. Verifying = {} /\ mgr = Access!None /\ ipc = Access!None /\ tried = 0 /\ clock = 1
  BY DEF Access!Init, Verifying
<1>2. Cardinality(Verifying) = 0 /\ Cardinality(ApiLogins) \in Nat
  BY <1>1, FS_EmptySet, FS_CardinalityType, GuessesFit
<1>3. QED
  BY <1>1, <1>2, GuessesFit
     DEF AccessInv, EntriesOK, ManagerInv, IpcInv, Access!None, Access!Entries,
         Access!Init

LEMMA AccessInvNext ==
    ASSUME AccessInv, [Access!LoginNext \/ Access!IpcNext]_(Access!vars)
    PROVE  AccessInv'
<1>1. CASE UNCHANGED Access!vars
  BY <1>1
     DEF Access!vars, Access!loginVars, Access!ipcVars, AccessInv, EntriesOK,
         ManagerInv, IpcInv, Verifying
<1>2. CASE Access!LoginNext \/ Access!IpcNext
  BY <1>2, ClockKeeps, LoginKeeps, IpcKeeps DEF Access!LoginNext, Access!IpcNext
<1>3. QED
  BY <1>1, <1>2

LEMMA AccessCardinality ==
  ASSUME NEW S
  PROVE  Access!Cardinality(S) = Cardinality(S)
BY Zenon DEF Access!Cardinality, Cardinality

LEMMA AccessInvBounds == ASSUME AccessInv PROVE Access!GuessesBounded
<1>1. Cardinality(Verifying) \in Nat /\ Cardinality(ApiLogins) \in Nat
  BY VerifyingIsFinite
<1>2. mgr.count \in Nat /\ ipc.count \in Nat /\ tried \in Nat /\ MaxGuesses \in Nat
  BY GuessesFit DEF AccessInv, EntriesOK, Access!Entries
<1>3. QED
  BY <1>1, <1>2, AccessCardinality
     DEF AccessInv, ManagerInv, IpcInv, Access!GuessesBounded

-----------------------------------------------------------------------------
(* Tokens and API keys                                                       *)

Listed(list) == {list[i] : i \in 1..Len(list)}

\* A token that was revoked and not dropped is still on the list.
Token == [type : {"access", "refresh"}, expired : BOOLEAN]

TokensInv ==
    /\ blacklist \in Seq(Nat)
    /\ Len(blacklist) <= maxBlacklist
    /\ revoked \ dropped \subseteq Listed(blacklist)
    /\ tokens \in Seq(Token)

LEMMA LogoutKeepsTokens ==
  ASSUME TokensInv, NEW t \in DOMAIN tokens, Auth!logout(t)
  PROVE  TokensInv'
<1> DEFINE list == IF t \in Auth!Range(blacklist) THEN blacklist ELSE Append(blacklist, t)
           L == Len(list)
           half == (L + 1) \div 2
<1>1. /\ blacklist' = Auth!Cleaned(list)
      /\ dropped' = dropped \cup Auth!Range(SubSeq(list, 1, L - Len(blacklist')))
      /\ revoked' = revoked \cup {t}
      /\ tokens' = tokens
  BY Zenon DEF Auth!logout
<1>2. t \in Nat
  BY DEF TokensInv
<1>3. /\ list \in Seq(Nat) /\ L \in Nat /\ L <= maxBlacklist + 1
      /\ Listed(blacklist) \cup {t} \subseteq Listed(list)
  <2>1. CASE t \in Auth!Range(blacklist)
    <3>1. list = blacklist /\ t \in Listed(blacklist)
      BY <2>1 DEF Auth!Range, Listed
    <3> QED
      BY <3>1, ListFits DEF TokensInv
  <2>2. CASE t \notin Auth!Range(blacklist)
    <3>1. list = Append(blacklist, t)
      BY <2>2
    <3> HIDE DEF list
    <3>2. /\ list \in Seq(Nat) /\ Len(list) = Len(blacklist) + 1
          /\ \A i \in 1..Len(blacklist) : list[i] = blacklist[i]
          /\ list[Len(blacklist) + 1] = t
      BY <1>2, <3>1 DEF TokensInv
    <3>3. Len(blacklist) \in Nat
      BY DEF TokensInv
    <3>4. Listed(blacklist) \cup {t} \subseteq Listed(list)
      BY <3>2, <3>3 DEF Listed
    <3> QED
      BY <3>2, <3>3, <3>4, ListFits DEF TokensInv
  <2> QED
    BY <2>1, <2>2
<1> HIDE DEF list
<1>4. revoked' \ dropped' \subseteq Listed(list)
  BY <1>1, <1>3 DEF TokensInv
<1>5. CASE L <= maxBlacklist
  <2>1. blacklist' = list
    BY <1>1, <1>3, <1>5, ListFits DEF Auth!Cleaned
  <2> QED
    BY <1>1, <1>3, <1>4, <1>5, <2>1 DEF TokensInv
<1>6. CASE L > maxBlacklist
  <2>1. blacklist' = SubSeq(list, half + 1, L)
    BY <1>1, <1>6 DEF Auth!Cleaned
  <2>2. half \in Nat /\ half <= L /\ L - half <= maxBlacklist
    BY <1>3, <1>6, ListFits
  <2> HIDE DEF half
  <2>3. /\ blacklist' \in Seq(Nat) /\ Len(blacklist') = L - half
        /\ \A i \in 1..(L - half) : blacklist'[i] = list[half + i]
    BY <1>3, <2>1, <2>2
  <2>4. dropped' = dropped \cup Auth!Range(SubSeq(list, 1, half))
    BY <1>1, <1>3, <2>2, <2>3
  <2>5. ASSUME NEW x \in Listed(list), x \notin dropped'
        PROVE  x \in Listed(blacklist')
    <3>1. PICK i \in 1..L : x = list[i]
      BY DEF Listed
    <3>2. CASE i <= half
      <4>1. /\ SubSeq(list, 1, half) \in Seq(Nat) /\ Len(SubSeq(list, 1, half)) = half
            /\ SubSeq(list, 1, half)[i] = list[i]
        BY <1>3, <2>2, <3>2
      <4>2. DOMAIN SubSeq(list, 1, half) = 1..half /\ i \in 1..half
        BY <1>3, <2>2, <3>2, <4>1
      <4>3. list[i] \in Auth!Range(SubSeq(list, 1, half))
        BY <4>1, <4>2, Zenon DEF Auth!Range
      <4> QED
        BY <2>4, <2>5, <3>1, <4>3
    <3>3. CASE i > half
      <4>1. i - half \in 1..(L - half) /\ half + (i - half) = i
        BY <1>3, <2>2, <3>3
      <4>2. blacklist'[i - half] = x
        BY <2>3, <3>1, <4>1
      <4> QED
        BY <2>3, <4>1, <4>2 DEF Listed
    <3> QED
      BY <1>3, <2>2, <3>2, <3>3
  <2> QED
    BY <1>1, <1>4, <2>2, <2>3, <2>5 DEF TokensInv
<1> QED
  BY <1>3, <1>5, <1>6, ListFits

LEMMA LoginKeepsTokens ==
  ASSUME TokensInv, Auth!LoginNext
  PROVE  TokensInv'
<1>1. CASE Auth!Restart
  <2>1. blacklist' = <<>> /\ dropped' = dropped \cup revoked /\ UNCHANGED <<tokens, revoked>>
    BY <1>1 DEF Auth!Restart
  <2> QED
    BY <2>1, ListFits DEF TokensInv
<1>2. ASSUME UNCHANGED <<blacklist, dropped, revoked>>, tokens' \in Seq(Token)
      PROVE  TokensInv'
  BY <1>2 DEF TokensInv
<1>3. ASSUME NEW l \in Logins, NEW ip \in Ips, Auth!Login(l, ip)
      PROVE  TokensInv'
  BY <1>2, <1>3 DEF Auth!Login, Auth!TokenVars, TokensInv
<1>4. ASSUME NEW ip \in Ips, Auth!LockoutEnds(ip)
      PROVE  TokensInv'
  BY <1>2, <1>4 DEF Auth!LockoutEnds, Auth!TokenVars, TokensInv
<1>5. ASSUME NEW l \in Logins, NEW valid \in BOOLEAN, Auth!PasswordChecked(l, valid)
      PROVE  TokensInv'
  <2> DEFINE new == <<Auth!NewToken("access"), Auth!NewToken("refresh")>>
  <2>1. new \in Seq(Token)
    BY DEF Auth!NewToken, Token
  <2>2. (tokens' = tokens \/ tokens' = tokens \o new) /\ UNCHANGED <<blacklist, dropped, revoked>>
    BY <1>5, Zenon DEF Auth!PasswordChecked
  <2> HIDE DEF new
  <2>3. tokens \o new \in Seq(Token)
    BY <2>1, ConcatProperties, Zenon DEF TokensInv
  <2>4. tokens' \in Seq(Token)
    BY <2>2, <2>3, Zenon DEF TokensInv
  <2> QED
    BY <1>2, <2>2, <2>4
<1>6. ASSUME NEW t \in DOMAIN tokens, Auth!refreshToken(t)
      PROVE  TokensInv'
  <2>1. Auth!NewToken("access") \in Token
    BY DEF Auth!NewToken, Token
  <2> QED
    BY <1>2, <1>6, <2>1 DEF Auth!refreshToken, TokensInv
<1>7. ASSUME NEW t \in DOMAIN tokens, Auth!Expire(t)
      PROVE  TokensInv'
  <2> DEFINE expired == [tokens[t] EXCEPT !.expired = TRUE]
  <2>1. tokens[t] \in Token /\ tokens \in Seq(Token)
    BY DEF TokensInv
  <2>2. expired \in Token
    BY <2>1 DEF Token
  <2>3. tokens' = [tokens EXCEPT ![t] = expired] /\ UNCHANGED <<blacklist, dropped, revoked>>
    BY <1>7, Zenon DEF Auth!Expire
  <2> HIDE DEF expired
  <2> QED
    BY <1>2, <2>1, <2>2, <2>3
<1> QED
  BY <1>1, <1>3, <1>4, <1>5, <1>6, <1>7, LogoutKeepsTokens DEF Auth!LoginNext

\* As long as no two saves ran at a time, a save in progress writes the keys in
\* use, and without one they are in the file.
KeysInv ==
    /\ saving \in [Saves -> [phase : {"none", "mkdir"}, keys : SUBSET ApiKeyIds]]
    /\ apiKeys \in SUBSET ApiKeyIds /\ file \in SUBSET ApiKeyIds
    /\ overlapped \in BOOLEAN
    /\ overlapped = FALSE =>
         /\ \A s, t \in Saves : saving[s].phase # "none" /\ saving[t].phase # "none" => s = t
         /\ \A s \in Saves : saving[s].phase # "none" => saving[s].keys = apiKeys
         /\ (\A s \in Saves : saving[s].phase = "none") => file = apiKeys

LEMMA KeysKept ==
  ASSUME KeysInv, Auth!KeyNext
  PROVE  KeysInv'
<1> DEFINE Save == [phase : {"none", "mkdir"}, keys : SUBSET ApiKeyIds]
<1>0. overlapped = TRUE \/ overlapped = FALSE
  BY DEF KeysInv
<1>1. ASSUME NEW s \in Saves, NEW keys \in SUBSET ApiKeyIds, Auth!Save(s, keys)
      PROVE  KeysInv'
  <2> DEFINE new == [phase |-> "mkdir", keys |-> keys]
             busy == \E t \in Saves : saving[t].phase # "none"
  <2>1. /\ apiKeys' = keys /\ file' = file
        /\ saving' = [saving EXCEPT ![s] = new]
        /\ overlapped' = (overlapped \/ busy)
        /\ saving[s].phase = "none"
    BY <1>1, Zenon DEF Auth!Save
  <2>2. new \in Save /\ new.phase = "mkdir" /\ new.keys = keys
    OBVIOUS
  <2>3. overlapped' \in BOOLEAN
    BY <2>1
  <2>4. overlapped' = FALSE => overlapped = FALSE /\ ~busy
    BY <1>0, <2>1, <2>3
  <2> HIDE DEF new
  <2>5. saving' \in [Saves -> Save] /\ apiKeys' \in SUBSET ApiKeyIds /\ file' \in SUBSET ApiKeyIds
    BY <2>1, <2>2 DEF KeysInv
  <2>6. \A t \in Saves : saving'[t] = IF t = s THEN new ELSE saving[t]
    BY <2>1 DEF KeysInv
  <2> QED
    BY <2>1, <2>2, <2>3, <2>4, <2>5, <2>6 DEF KeysInv
<1>2. ASSUME NEW s \in Saves, Auth!Write(s)
      PROVE  KeysInv'
  <2> DEFINE done == [saving[s] EXCEPT !.phase = "none", !.keys = {}]
  <2>1. /\ saving[s].phase = "mkdir" /\ file' = saving[s].keys
        /\ saving' = [saving EXCEPT ![s] = done]
        /\ apiKeys' = apiKeys /\ overlapped' = overlapped
    BY <1>2 DEF Auth!Write, KeysInv
  <2>2. saving[s] \in Save
    BY DEF KeysInv
  <2>3. done \in Save /\ done.phase = "none"
    BY <2>2
  <2> HIDE DEF done
  <2>4. saving' \in [Saves -> Save] /\ file' \in SUBSET ApiKeyIds
    BY <2>1, <2>2, <2>3 DEF KeysInv
  <2>5. \A t \in Saves : saving'[t] = IF t = s THEN done ELSE saving[t]
    BY <2>1 DEF KeysInv
  <2> QED
    BY <2>1, <2>3, <2>4, <2>5 DEF KeysInv
<1>3. CASE Auth!Restart
  <2> DEFINE none == [phase |-> "none", keys |-> {}]
  <2>1. /\ apiKeys' = file /\ file' = file /\ overlapped' = overlapped
        /\ saving' = [s \in Saves |-> none]
    BY <1>3, Zenon DEF Auth!Restart
  <2>2. none \in Save /\ none.phase = "none"
    OBVIOUS
  <2> HIDE DEF none
  <2> QED
    BY <2>1, <2>2 DEF KeysInv
<1>4. ASSUME NEW k \in ApiKeyIds
      PROVE  apiKeys \cup {k} \in SUBSET ApiKeyIds /\ apiKeys \ {k} \in SUBSET ApiKeyIds
  BY <1>4 DEF KeysInv
<1> QED
  BY <1>1, <1>2, <1>3, <1>4 DEF Auth!KeyNext, Auth!generateApiKey, Auth!revokeApiKey

-----------------------------------------------------------------------------
(* Roles                                                                     *)

RoleValue == [perms : SUBSET Permissions, inherits : SUBSET (DOMAIN BuiltIn)]
UserValue == {v \in [roles : SUBSET Roles!Roles, perms : SUBSET Permissions,
                     denied : SUBSET Permissions] : v.denied \cap v.perms = {}}

\* What an entry of a name may be: what is denied to a user is not granted.
EntryOf(n) == IF n \in Roles!Roles THEN RoleValue
              ELSE IF n \in UserIds THEN UserValue
              ELSE {Policies[n]}
AllNames == Roles!Names \cup Roles!Roles
Fits(f) == DOMAIN f \subseteq AllNames /\ \A n \in DOMAIN f : f[n] \in EntryOf(n)

EntryValue == RoleValue \cup UserValue \cup {Policies[n] : n \in DOMAIN Policies}
StorageCall == [op : {"set", "save"}, name : AllNames, value : EntryValue]
               \cup [op : {"delete"}, name : AllNames]

CallFits(c) ==
    /\ c.name \in AllNames
    /\ c.op \in {"set", "save", "delete"}
    /\ c.op # "delete" => c.value \in EntryOf(c.name)

\* What the storage will have of a name when the calls are done.
LastSets(n) == \E i \in 1..Len(storageCalls) :
                 /\ storageCalls[i].name = n /\ storageCalls[i].op # "delete"
                 /\ \A j \in 1..Len(storageCalls) : j > i => storageCalls[j].name # n
Untouched(n) == \A i \in 1..Len(storageCalls) : storageCalls[i].name # n
Stays(n) == LastSets(n) \/ (Untouched(n) /\ n \in DOMAIN store)

CallsFit ==
    /\ storageCalls \in Seq(StorageCall)
    /\ \A i \in 1..Len(storageCalls) : CallFits(storageCalls[i])

TaskFits ==
    /\ task \in [kind : {"none", "save", "start", "load"}, todo : SUBSET AllNames]
    /\ task.kind = "none" => task = Roles!NoTask
    /\ task.kind \in {"none", "save"} => \A n : Stays(n) <=> n \in DOMAIN held
    /\ task.kind = "start" => /\ DOMAIN held = DOMAIN BuiltIn
                              /\ \A n \in DOMAIN BuiltIn : Stays(n)
    /\ task.kind = "load" => /\ storageCalls = <<>>
                             /\ task.todo \subseteq DOMAIN store
                             /\ DOMAIN held \subseteq DOMAIN store
                             /\ DOMAIN store \subseteq DOMAIN held \cup task.todo

RolesInv == Fits(held) /\ Fits(store) /\ CallsFit /\ TaskFits

LEMMA NamesOfEntries ==
  ASSUME NEW n \in AllNames
  PROVE  EntryOf(n) \subseteq EntryValue
BY DEF EntryOf, EntryValue, AllNames, Roles!Names, Roles!Roles

\* An entry enters a map.
LEMMA WithFits ==
  ASSUME NEW f, Fits(f), NEW n \in AllNames, NEW v \in EntryOf(n)
  PROVE  /\ Fits(Roles!With(f, n, v))
         /\ DOMAIN Roles!With(f, n, v) = DOMAIN f \cup {n}
<1>1. /\ DOMAIN Roles!With(f, n, v) = DOMAIN f \cup {n}
      /\ \A m \in DOMAIN f \cup {n} :
           Roles!With(f, n, v)[m] = IF m = n THEN v ELSE f[m]
  BY DEF Roles!With
<1> QED
  BY <1>1 DEF Fits

LEMMA RestrictFits ==
  ASSUME NEW f, Fits(f), NEW n
  PROVE  /\ Fits(Roles!Restrict(f, DOMAIN f \ {n}))
         /\ DOMAIN Roles!Restrict(f, DOMAIN f \ {n}) = DOMAIN f \ {n}
BY DEF Fits, Roles!Restrict

\* A call is made: what it is about will be what the call says.
LEMMA CallMade ==
  ASSUME CallsFit, NEW c \in StorageCall, CallFits(c), store' = store,
         storageCalls' = Append(storageCalls, c)
  PROVE  /\ CallsFit'
         /\ \A n : n # c.name => (Stays(n)' <=> Stays(n))
         /\ Stays(c.name)' <=> c.op # "delete"
<1> DEFINE k == Len(storageCalls)
<1>1. /\ storageCalls' \in Seq(StorageCall) /\ k \in Nat /\ Len(storageCalls') = k + 1
      /\ \A i \in 1..k : storageCalls'[i] = storageCalls[i]
      /\ storageCalls'[k + 1] = c
  BY DEF CallsFit
<1> HIDE DEF k
<1>2. CallsFit'
  BY <1>1 DEF CallsFit, k, CallFits
<1>3. ASSUME NEW n, n # c.name
      PROVE  Stays(n)' <=> Stays(n)
  <2>1. LastSets(n)' <=> LastSets(n)
    BY <1>1, <1>3 DEF LastSets, k
  <2>2. Untouched(n)' <=> Untouched(n)
    BY <1>1, <1>3 DEF Untouched, k
  <2> QED
    BY <2>1, <2>2 DEF Stays
<1>4. Stays(c.name)' <=> c.op # "delete"
  <2>1. ~Untouched(c.name)'
    BY <1>1 DEF Untouched
  <2>2. LastSets(c.name)' <=> c.op # "delete"
    <3>1. ASSUME c.op # "delete"
          PROVE  LastSets(c.name)'
      BY <1>1, <3>1 DEF LastSets
    <3>2. ASSUME LastSets(c.name)'
          PROVE  c.op # "delete"
      BY <1>1, <3>2 DEF LastSets
    <3> QED
      BY <3>1, <3>2
  <2> QED
    BY <2>1, <2>2 DEF Stays
<1> QED
  BY <1>2, <1>3, <1>4

\* The first call is applied: what the storage will have stays the same.
LEMMA CallApplied ==
  ASSUME CallsFit, Fits(store), Roles!Apply
  PROVE  CallsFit' /\ Fits(store)' /\ \A n : Stays(n)' <=> Stays(n)
<1> DEFINE k == Len(storageCalls)
           c == storageCalls[1]
<1>1. /\ storageCalls # <<>> /\ storageCalls' = Tail(storageCalls)
      /\ store' = IF Head(storageCalls).op = "delete"
                  THEN Roles!Restrict(store, DOMAIN store \ {Head(storageCalls).name})
                  ELSE Roles!With(store, Head(storageCalls).name, Head(storageCalls).value)
  BY DEF Roles!Apply
<1>2. /\ k \in Nat /\ k >= 1 /\ Head(storageCalls) = c
      /\ storageCalls' \in Seq(StorageCall) /\ Len(storageCalls') = k - 1
      /\ \A i \in 1..(k - 1) : storageCalls'[i] = storageCalls[i + 1]
  BY <1>1 DEF CallsFit
<1>3. CallFits(c)
  BY <1>2 DEF CallsFit
<1>4. store' = IF c.op = "delete" THEN Roles!Restrict(store, DOMAIN store \ {c.name})
               ELSE Roles!With(store, c.name, c.value)
  BY <1>1, <1>2
<1> HIDE DEF k
<1>5. CallsFit'
  <2>1. ASSUME NEW i \in 1..(k - 1)
        PROVE  CallFits(storageCalls'[i])
    <3>1. i + 1 \in 1..k
      BY <1>2
    <3> QED
      BY <1>2, <3>1 DEF CallsFit, k
  <2>2. \A i \in 1..Len(storageCalls') : CallFits(storageCalls'[i])
    BY <1>2, <2>1
  <2> QED
    BY <1>2, <2>2 DEF CallsFit, CallFits
<1> HIDE DEF c
<1>6. /\ Fits(store') /\ DOMAIN store' = IF c.op = "delete" THEN DOMAIN store \ {c.name}
                                          ELSE DOMAIN store \cup {c.name}
  BY <1>3, <1>4, WithFits, RestrictFits DEF CallFits
<1>7. ASSUME NEW n
      PROVE  Stays(n)' <=> Stays(n)
  <2>1. \A i \in 1..k : i = 1 \/ i - 1 \in 1..(k - 1)
    BY <1>2
  <2>2. \A i \in 1..k : i # 1 => storageCalls[i] = storageCalls'[i - 1]
    BY <1>2, <2>1
  <2>3. CASE n # c.name
    <3>1. LastSets(n)' <=> LastSets(n)
      <4>1. ASSUME LastSets(n)
            PROVE  LastSets(n)'
        <5>1. PICK i \in 1..k : /\ storageCalls[i].name = n /\ storageCalls[i].op # "delete"
                                /\ \A j \in 1..k : j > i => storageCalls[j].name # n
          BY <4>1 DEF LastSets, k
        <5>2. i # 1
          BY <2>3, <5>1 DEF c
        <5>3. i - 1 \in 1..(k - 1) /\ storageCalls'[i - 1] = storageCalls[i]
          BY <2>1, <2>2, <5>2
        <5>4. ASSUME NEW j \in 1..(k - 1), j > i - 1
              PROVE  storageCalls'[j].name # n
          BY <1>2, <5>1, <5>4
        <5> QED
          BY <1>2, <5>1, <5>3, <5>4 DEF LastSets
      <4>2. ASSUME LastSets(n)'
            PROVE  LastSets(n)
        <5>1. PICK i \in 1..(k - 1) :
                /\ storageCalls'[i].name = n /\ storageCalls'[i].op # "delete"
                /\ \A j \in 1..(k - 1) : j > i => storageCalls'[j].name # n
          BY <1>2, <4>2 DEF LastSets
        <5>2. i + 1 \in 1..k /\ storageCalls[i + 1] = storageCalls'[i]
          BY <1>2
        <5>3. ASSUME NEW j \in 1..k, j > i + 1
              PROVE  storageCalls[j].name # n
          <6>1. j - 1 \in 1..(k - 1) /\ j - 1 > i /\ storageCalls'[j - 1] = storageCalls[j]
            BY <1>2, <2>1, <2>2, <5>3
          <6> QED
            BY <5>1, <6>1
        <5> QED
          BY <5>1, <5>2, <5>3 DEF LastSets, k
      <4> QED
        BY <4>1, <4>2
    <3>2. Untouched(n)' <=> Untouched(n)
      <4>1. ASSUME Untouched(n)
            PROVE  Untouched(n)'
        <5>1. ASSUME NEW i \in 1..(k - 1)
              PROVE  storageCalls'[i].name # n
          <6>1. i + 1 \in 1..k
            BY <1>2
          <6> QED
            BY <1>2, <4>1, <6>1 DEF Untouched, k
        <5> QED
          BY <1>2, <5>1 DEF Untouched
      <4>2. ASSUME Untouched(n)'
            PROVE  Untouched(n)
        <5>1. ASSUME NEW i \in 1..k
              PROVE  storageCalls[i].name # n
          BY <1>2, <2>1, <2>2, <2>3, <4>2 DEF Untouched, c
        <5> QED
          BY <5>1 DEF Untouched, k
      <4> QED
        BY <4>1, <4>2
    <3>3. n \in DOMAIN store' <=> n \in DOMAIN store
      BY <1>6, <2>3
    <3> QED
      BY <3>1, <3>2, <3>3 DEF Stays
  <2>4. CASE n = c.name
    <3>1. 1 \in 1..k
      BY <1>2
    <3>2. ~Untouched(n)
      BY <2>4, <3>1 DEF Untouched, c, k
    <3>3. CASE \E j \in 1..k : j > 1 /\ storageCalls[j].name = n
      <4>1. ~Untouched(n)'
        <5>1. PICK j \in 1..k : j > 1 /\ storageCalls[j].name = n
          BY <3>3
        <5>2. j - 1 \in 1..(k - 1) /\ storageCalls'[j - 1].name = n
          BY <1>2, <2>1, <2>2, <5>1
        <5> QED
          BY <1>2, <5>2 DEF Untouched
      <4>2. ASSUME LastSets(n)
            PROVE  LastSets(n)'
        <5>1. PICK i \in 1..k : /\ storageCalls[i].name = n /\ storageCalls[i].op # "delete"
                                /\ \A j \in 1..k : j > i => storageCalls[j].name # n
          BY <4>2 DEF LastSets, k
        <5>2. i # 1
          BY <3>3, <5>1
        <5>3. i - 1 \in 1..(k - 1) /\ storageCalls'[i - 1] = storageCalls[i]
          BY <2>1, <2>2, <5>2
        <5>4. ASSUME NEW j \in 1..(k - 1), j > i - 1
              PROVE  storageCalls'[j].name # n
          BY <1>2, <5>1, <5>4
        <5> QED
          BY <1>2, <5>1, <5>3, <5>4 DEF LastSets
      <4>3. ASSUME LastSets(n)'
            PROVE  LastSets(n)
        <5>1. PICK i \in 1..(k - 1) :
                /\ storageCalls'[i].name = n /\ storageCalls'[i].op # "delete"
                /\ \A j \in 1..(k - 1) : j > i => storageCalls'[j].name # n
          BY <1>2, <4>3 DEF LastSets
        <5>2. i + 1 \in 1..k /\ storageCalls[i + 1] = storageCalls'[i]
          BY <1>2
        <5>3. ASSUME NEW j \in 1..k, j > i + 1
              PROVE  storageCalls[j].name # n
          <6>1. j - 1 \in 1..(k - 1) /\ j - 1 > i /\ storageCalls'[j - 1] = storageCalls[j]
            BY <1>2, <2>1, <2>2, <5>3
          <6> QED
            BY <5>1, <6>1
        <5> QED
          BY <5>1, <5>2, <5>3 DEF LastSets, k
      <4> QED
        BY <3>2, <4>1, <4>2, <4>3 DEF Stays
    <3>4. CASE \A j \in 1..k : j > 1 => storageCalls[j].name # n
      <4>1. LastSets(n) <=> c.op # "delete"
        <5>1. ASSUME LastSets(n)
              PROVE  c.op # "delete"
          <6>1. PICK i \in 1..k : storageCalls[i].name = n /\ storageCalls[i].op # "delete"
            BY <5>1 DEF LastSets, k
          <6> QED
            BY <1>2, <3>4, <6>1 DEF c
        <5>2. ASSUME c.op # "delete"
              PROVE  LastSets(n)
          BY <2>4, <3>1, <3>4, <5>2 DEF LastSets, c, k
        <5> QED
          BY <5>1, <5>2
      <4>2. ASSUME NEW i \in 1..(k - 1)
            PROVE  storageCalls'[i].name # n
        <5>1. i + 1 \in 1..k /\ i + 1 > 1
          BY <1>2
        <5> QED
          BY <1>2, <3>4, <5>1
      <4>3. Untouched(n)' /\ ~LastSets(n)'
        BY <1>2, <4>2 DEF Untouched, LastSets
      <4>4. n \in DOMAIN store' <=> c.op # "delete"
        BY <1>6, <2>4
      <4> QED
        BY <3>2, <4>1, <4>3, <4>4 DEF Stays
    <3> QED
      BY <3>3, <3>4
  <2> QED
    BY <2>3, <2>4
<1> QED
  BY <1>5, <1>6, <1>7 DEF Fits

LEMMA RolesCardinality ==
  ASSUME NEW S
  PROVE  Roles!Cardinality(S) = Cardinality(S)
BY Zenon DEF Roles!Cardinality, Cardinality

\* The built-in roles in some order.
LEMMA BuiltInOrder ==
  LET B == DOMAIN BuiltIn
      s == CHOOSE f \in Roles!Bijection(1..Roles!Cardinality(B), B) : TRUE
      k == Cardinality(B)
  IN  /\ k \in Nat
      /\ s \in [1..k -> B]
      /\ \A r \in B : \E i \in 1..k : s[i] = r
      /\ \A i, j \in 1..k : s[i] = s[j] => i = j
<1> DEFINE B == DOMAIN BuiltIn
           s == CHOOSE f \in Roles!Bijection(1..Roles!Cardinality(B), B) : TRUE
           k == Cardinality(B)
<1>1. k \in Nat /\ ExistsBijection(1..k, B)
  BY NamesApart, FS_CardinalityType
<1>2. k = Roles!Cardinality(B)
  BY RolesCardinality
<1>3. Roles!Bijection(1..k, B) = Bijection(1..k, B)
  BY DEF Roles!Bijection, Roles!Injection, Roles!Surjection, Roles!IsInjective,
         Bijection, Injection, Surjection, IsInjective
<1> HIDE DEF k
<1>4. s \in Bijection(1..k, B)
  BY <1>1, <1>2, <1>3 DEF ExistsBijection
<1> HIDE DEF s, B
<1>5. s \in [1..k -> B] /\ \A r \in B : \E i \in 1..k : s[i] = r
  BY <1>4 DEF Bijection, Surjection
<1>6. \A i, j \in 1..k : s[i] = s[j] => i = j
  BY <1>4 DEF Bijection, Injection, IsInjective
<1> QED
  BY <1>1, <1>5, <1>6 DEF B, k, s

\* The manager just constructed: the storage will have the built-in roles.
JustMade == held = Roles!BuiltInRoles /\ storageCalls = Roles!BuiltInCalls
MadeFits ==
    /\ Fits(held) /\ CallsFit /\ DOMAIN held = DOMAIN BuiltIn
    /\ \A n : LastSets(n) <=> n \in DOMAIN BuiltIn
    /\ \A n : Untouched(n) <=> n \notin DOMAIN BuiltIn

LEMMA BuiltInsFit == JustMade => MadeFits
<1> DEFINE B == DOMAIN BuiltIn
           s == CHOOSE f \in Roles!Bijection(1..Roles!Cardinality(B), B) : TRUE
           k == Cardinality(B)
           h == Roles!BuiltInRoles
<1>1. SUFFICES ASSUME JustMade
               PROVE  MadeFits
  OBVIOUS
<1>2. /\ k \in Nat /\ s \in [1..k -> B]
      /\ \A r \in B : \E i \in 1..k : s[i] = r
      /\ \A i, j \in 1..k : s[i] = s[j] => i = j
  BY BuiltInOrder
<1>3. held = [r \in B |-> [perms |-> BuiltIn[r], inherits |-> {}]] /\ held = h
  BY <1>1 DEF JustMade, Roles!BuiltInRoles, Roles!NewRole
<1>4. storageCalls = [i \in 1..k |-> [op |-> "set", name |-> s[i], value |-> h[s[i]]]]
  BY <1>1, RolesCardinality, Zenon DEF JustMade, Roles!BuiltInCalls, Roles!SetCall
<1> HIDE DEF s, k
<1>5. \A r \in B : r \in AllNames /\ EntryOf(r) = RoleValue
  BY DEF AllNames, EntryOf, Roles!Roles
<1>6. \A r \in B : held[r] \in RoleValue
  BY <1>3, NamesApart DEF RoleValue
<1>7. Fits(held) /\ DOMAIN held = B
  BY <1>3, <1>5, <1>6 DEF Fits
<1> HIDE DEF h, B
<1>8. ASSUME NEW i \in 1..k
      PROVE  /\ storageCalls[i].op = "set" /\ storageCalls[i].name = s[i] /\ s[i] \in B
             /\ storageCalls[i].value = held[s[i]]
             /\ storageCalls[i] \in StorageCall
             /\ CallFits(storageCalls[i])
  <2>1. s[i] \in B
    BY <1>2
  <2>2. storageCalls[i] = [op |-> "set", name |-> s[i], value |-> held[s[i]]]
    BY <1>3, <1>4
  <2>3. held[s[i]] \in EntryValue /\ held[s[i]] \in EntryOf(s[i]) /\ s[i] \in AllNames
    BY <1>5, <1>6, <2>1 DEF EntryValue
  <2>4. CallFits(storageCalls[i])
    BY <2>2, <2>3 DEF CallFits
  <2>5. storageCalls[i] \in StorageCall
    BY <2>2, <2>3 DEF StorageCall
  <2> QED
    BY <2>1, <2>2, <2>4, <2>5
<1>9. storageCalls \in Seq(StorageCall) /\ Len(storageCalls) = k
  <2>1. DOMAIN storageCalls = 1..k
    BY <1>4
  <2>2. storageCalls \in [1..k -> StorageCall]
    BY <1>4, <1>8, <2>1
  <2> QED
    BY <1>2, <2>2
<1>10. CallsFit
  BY <1>8, <1>9 DEF CallsFit
<1>11. ASSUME NEW n
       PROVE  /\ LastSets(n) <=> n \in B
              /\ Untouched(n) <=> n \notin B
  <2>1. ASSUME n \in B
        PROVE  LastSets(n) /\ ~Untouched(n)
    <3>1. PICK i \in 1..k : s[i] = n
      BY <1>2, <2>1
    <3>2. \A j \in 1..k : j > i => storageCalls[j].name # n
      BY <1>2, <1>8, <3>1
    <3> QED
      BY <1>8, <1>9, <3>1, <3>2 DEF LastSets, Untouched
  <2>2. ASSUME n \notin B
        PROVE  ~LastSets(n) /\ Untouched(n)
    BY <1>8, <1>9, <2>2 DEF LastSets, Untouched
  <2> QED
    BY <2>1, <2>2
<1> QED
  BY <1>7, <1>10, <1>11 DEF MadeFits, B

LEMMA RolesInitially == Roles!Init => RolesInv
<1>1. SUFFICES ASSUME Roles!Init
               PROVE  RolesInv
  OBVIOUS
<1>2. MadeFits /\ store = <<>> /\ task = [kind |-> "none", todo |-> {}]
  BY <1>1, BuiltInsFit DEF Roles!Init, JustMade, Roles!NoTask
<1>3. DOMAIN store = {}
  BY <1>2
<1>4. Fits(store)
  BY <1>3 DEF Fits
<1>5. \A n : Stays(n) <=> n \in DOMAIN held
  BY <1>2, <1>3 DEF MadeFits, Stays
<1>6. TaskFits
  BY <1>2, <1>5 DEF TaskFits, Roles!NoTask
<1> QED
  BY <1>2, <1>4, <1>6 DEF RolesInv, MadeFits

-----------------------------------------------------------------------------
LEMMA CreateKeepsRoles ==
  ASSUME RolesInv, NEW n \in AllNames, NEW v \in EntryOf(n), Roles!Create(n, v)
  PROVE  RolesInv'
<1> DEFINE c == [op |-> "set", name |-> n, value |-> v]
<1>1. /\ task.kind \in {"none", "save"} /\ task' = task /\ store' = store
      /\ held' = Roles!With(held, n, v)
      /\ storageCalls' = Append(storageCalls, c)
  BY DEF Roles!Create, Roles!Ready, Roles!Entry, Roles!SetCall
<1>2. c \in StorageCall /\ CallFits(c) /\ c.name = n /\ c.op # "delete"
  BY NamesOfEntries DEF StorageCall, CallFits
<1> HIDE DEF c
<1>3. CallsFit' /\ (\A m : m # n => (Stays(m)' <=> Stays(m))) /\ Stays(n)'
  BY <1>1, <1>2, CallMade DEF RolesInv
<1>4. Fits(held)' /\ DOMAIN held' = DOMAIN held \cup {n}
  BY <1>1, WithFits DEF RolesInv, Fits
<1>5. \A m : Stays(m)' <=> m \in DOMAIN held'
  BY <1>1, <1>3, <1>4 DEF RolesInv, TaskFits
<1>6. TaskFits'
  BY <1>1, <1>5 DEF RolesInv, TaskFits, Roles!NoTask
<1> QED
  BY <1>1, <1>3, <1>4, <1>6 DEF RolesInv, Fits

LEMMA DeleteKeepsRoles ==
  ASSUME RolesInv, NEW n \in AllNames, Roles!Delete(n)
  PROVE  RolesInv'
<1> DEFINE c == [op |-> "delete", name |-> n]
<1>1. /\ task.kind \in {"none", "save"} /\ task' = task /\ store' = store
      /\ held' = Roles!Restrict(held, DOMAIN held \ {n})
      /\ storageCalls' = Append(storageCalls, c)
  BY DEF Roles!Delete, Roles!Ready, Roles!DeleteCall
<1>2. c \in StorageCall /\ CallFits(c) /\ c.name = n /\ c.op = "delete"
  BY DEF StorageCall, CallFits
<1> HIDE DEF c
<1>3. CallsFit' /\ (\A m : m # n => (Stays(m)' <=> Stays(m))) /\ ~Stays(n)'
  BY <1>1, <1>2, CallMade DEF RolesInv
<1>4. Fits(held)' /\ DOMAIN held' = DOMAIN held \ {n}
  BY <1>1, RestrictFits DEF RolesInv, Fits
<1>5. \A m : Stays(m)' <=> m \in DOMAIN held'
  BY <1>1, <1>3, <1>4 DEF RolesInv, TaskFits
<1>6. TaskFits'
  BY <1>1, <1>5 DEF RolesInv, TaskFits, Roles!NoTask
<1> QED
  BY <1>1, <1>3, <1>4, <1>6 DEF RolesInv, Fits

LEMMA ChangeKeepsRoles ==
  ASSUME RolesInv, NEW n, NEW v, n \in DOMAIN held => v \in EntryOf(n), Roles!Change(n, v)
  PROVE  RolesInv'
<1>1. /\ n \in DOMAIN held /\ v \in EntryOf(n)
      /\ task.kind \in {"none", "save"}
      /\ held' = Roles!With(held, n, v) /\ UNCHANGED <<store, storageCalls, task>>
  BY DEF Roles!Change, Roles!Ready, Roles!Entry, Roles!Has
<1>2. n \in AllNames
  BY <1>1 DEF RolesInv, Fits
<1> DEFINE new == Roles!With(held, n, v)
<1>3. Fits(held') /\ DOMAIN held' = DOMAIN held
  <2>1. Fits(new) /\ DOMAIN new = DOMAIN held \cup {n}
    BY <1>1, <1>2, WithFits DEF RolesInv
  <2>2. held' = new
    BY <1>1
  <2> HIDE DEF new
  <2> QED
    BY <1>1, <2>1, <2>2
<1>4. CallsFit' /\ \A m : Stays(m)' <=> Stays(m)
  BY <1>1 DEF RolesInv, CallsFit, Stays, LastSets, Untouched, CallFits
<1>5. TaskFits'
  BY <1>1, <1>3, <1>4 DEF RolesInv, TaskFits, Roles!NoTask
<1> QED
  BY <1>1, <1>3, <1>4, <1>5 DEF RolesInv, Fits

\* Roles and users that change remain such.
LEMMA ChangedRole ==
  ASSUME RolesInv, NEW r \in Roles!Roles, NEW p \in Permissions, r \in DOMAIN held
  PROVE  /\ [held[r] EXCEPT !.perms = @ \cup {p}] \in EntryOf(r)
         /\ [held[r] EXCEPT !.perms = @ \ {p}] \in EntryOf(r)
<1>1. EntryOf(r) = RoleValue /\ held[r] \in RoleValue
  BY DEF RolesInv, Fits, EntryOf
<1> QED
  BY <1>1 DEF RoleValue

LEMMA ChangedUser ==
  ASSUME RolesInv, NEW u \in UserIds, u \in DOMAIN held
  PROVE  /\ \A r \in Roles!Roles :
              /\ [held[u] EXCEPT !.roles = @ \cup {r}] \in EntryOf(u)
              /\ [held[u] EXCEPT !.roles = @ \ {r}] \in EntryOf(u)
         /\ \A p \in Permissions :
              /\ [held[u] EXCEPT !.perms = @ \cup {p}, !.denied = @ \ {p}] \in EntryOf(u)
              /\ [held[u] EXCEPT !.denied = @ \cup {p}, !.perms = @ \ {p}] \in EntryOf(u)
<1>1. u \notin Roles!Roles
  BY NamesApart DEF Roles!Roles
<1>2. EntryOf(u) = UserValue /\ held[u] \in UserValue
  BY <1>1 DEF RolesInv, Fits, EntryOf
<1> DEFINE v == held[u]
           R == [roles : SUBSET Roles!Roles, perms : SUBSET Permissions,
                 denied : SUBSET Permissions]
<1>3. /\ v \in R
      /\ v = [roles |-> v.roles, perms |-> v.perms, denied |-> v.denied]
      /\ v.roles \subseteq Roles!Roles /\ v.perms \subseteq Permissions
      /\ v.denied \subseteq Permissions /\ v.denied \cap v.perms = {}
  BY <1>2 DEF UserValue
<1> HIDE DEF v
<1>4. ASSUME NEW r \in Roles!Roles
      PROVE  [v EXCEPT !.roles = @ \cup {r}] \in UserValue
             /\ [v EXCEPT !.roles = @ \ {r}] \in UserValue
  <2>1. [v EXCEPT !.roles = @ \cup {r}] = [roles |-> v.roles \cup {r}, perms |-> v.perms,
                                          denied |-> v.denied]
    BY <1>3
  <2>2. [v EXCEPT !.roles = @ \ {r}] = [roles |-> v.roles \ {r}, perms |-> v.perms,
                                       denied |-> v.denied]
    BY <1>3
  <2> QED
    BY <1>3, <2>1, <2>2 DEF UserValue
<1>5. ASSUME NEW p \in Permissions
      PROVE  [v EXCEPT !.perms = @ \cup {p}, !.denied = @ \ {p}] \in UserValue
             /\ [v EXCEPT !.denied = @ \cup {p}, !.perms = @ \ {p}] \in UserValue
  <2> DEFINE w == [v EXCEPT !.perms = @ \cup {p}, !.denied = @ \ {p}]
             x == [v EXCEPT !.denied = @ \cup {p}, !.perms = @ \ {p}]
  <2>1. w \in R /\ x \in R
    BY <1>3
  <2>2. w.perms = v.perms \cup {p} /\ w.denied = v.denied \ {p}
    BY <1>3
  <2>3. x.perms = v.perms \ {p} /\ x.denied = v.denied \cup {p}
    BY <1>3
  <2> HIDE DEF w, x
  <2>4. w \in UserValue /\ x \in UserValue
    BY <1>3, <2>1, <2>2, <2>3 DEF UserValue
  <2> QED
    BY <2>4 DEF w, x
<1> QED
  BY <1>2, <1>4, <1>5 DEF v

\* A step that leaves the storage and the calls alone.
LEMMA SameCalls ==
  ASSUME CallsFit, UNCHANGED <<store, storageCalls>>
  PROVE  CallsFit' /\ \A n : Stays(n)' <=> Stays(n)
BY DEF CallsFit, Stays, LastSets, Untouched, CallFits

LEMMA BeginSaveKeepsRoles ==
  ASSUME RolesInv, Roles!BeginSave
  PROVE  RolesInv'
<1>1. /\ task = [kind |-> "none", todo |-> {}]
      /\ task' = [kind |-> "save", todo |-> DOMAIN held]
      /\ UNCHANGED <<held, store, storageCalls>>
  BY DEF Roles!BeginSave, Roles!NoTask
<1>2. CallsFit' /\ \A n : Stays(n)' <=> Stays(n)
  BY <1>1, SameCalls DEF RolesInv
<1>3. DOMAIN held \subseteq AllNames
  BY DEF RolesInv, Fits
<1>4. task' \in [kind : {"none", "save", "start", "load"}, todo : SUBSET AllNames]
      /\ task'.kind = "save" /\ task.kind = "none"
  BY <1>1, <1>3
<1>5. TaskFits'
  BY <1>1, <1>2, <1>4 DEF RolesInv, TaskFits
<1> QED
  BY <1>1, <1>2, <1>5 DEF RolesInv, Fits

\* save() writes the entry in the map at its turn.
LEMMA SaveNextKeepsRoles ==
  ASSUME RolesInv, Roles!SaveNext
  PROVE  RolesInv'
<1>1. task.kind = "save" /\ UNCHANGED <<held, store>>
  BY DEF Roles!SaveNext
<1>2. CASE task' = Roles!NoTask /\ UNCHANGED storageCalls
  <2>1. CallsFit' /\ \A n : Stays(n)' <=> Stays(n)
    BY <1>1, <1>2, SameCalls DEF RolesInv
  <2>2. task' = [kind |-> "none", todo |-> {}]
    BY <1>2 DEF Roles!NoTask
  <2>3. TaskFits'
    BY <1>1, <2>1, <2>2 DEF RolesInv, TaskFits, Roles!NoTask
  <2> QED
    BY <1>1, <2>1, <2>3 DEF RolesInv, Fits
<1>3. ASSUME NEW n \in DOMAIN held,
             storageCalls' = Append(storageCalls, [Roles!SetCall(n, held[n]) EXCEPT !.op = "save"]),
             task' = [task EXCEPT !.todo = @ \ {n}]
      PROVE  RolesInv'
  <2> DEFINE c == [op |-> "save", name |-> n, value |-> held[n]]
  <2>1. [Roles!SetCall(n, held[n]) EXCEPT !.op = "save"] = c
    BY DEF Roles!SetCall
  <2>2. storageCalls' = Append(storageCalls, c)
    BY <1>3, <2>1
  <2>3. n \in AllNames /\ held[n] \in EntryOf(n)
    BY DEF RolesInv, Fits
  <2>4. held[n] \in EntryValue
    BY <2>3, NamesOfEntries
  <2>5. c \in StorageCall /\ CallFits(c) /\ c.name = n /\ c.op # "delete"
    BY <2>3, <2>4 DEF StorageCall, CallFits
  <2> HIDE DEF c
  <2>6. CallsFit' /\ (\A m : m # n => (Stays(m)' <=> Stays(m))) /\ Stays(n)'
    BY <1>1, <2>2, <2>5, CallMade DEF RolesInv
  <2>7. task' \in [kind : {"none", "save", "start", "load"}, todo : SUBSET AllNames]
        /\ task'.kind = "save"
    BY <1>1, <1>3 DEF RolesInv, TaskFits
  <2>8. \A m : Stays(m)' <=> m \in DOMAIN held'
    BY <1>1, <2>6 DEF RolesInv, TaskFits
  <2>9. TaskFits'
    BY <2>7, <2>8 DEF TaskFits
  <2> QED
    BY <1>1, <2>6, <2>9 DEF RolesInv, Fits
<1>4. ASSUME NEW n \in Roles!Earliest(Roles!Pending)
      PROVE  n \in DOMAIN held /\ Roles!Saved(n) = held[n]
  BY DEF Roles!Earliest, Roles!Pending, Roles!Has, Roles!Saved
<1>5. \/ task' = Roles!NoTask /\ UNCHANGED storageCalls
      \/ \E n \in Roles!Earliest(Roles!Pending) :
           /\ storageCalls' = Append(storageCalls,
                                     [Roles!SetCall(n, Roles!Saved(n)) EXCEPT !.op = "save"])
           /\ task' = [task EXCEPT !.todo = @ \ {n}]
  BY Zenon DEF Roles!SaveNext
<1> QED
  BY <1>2, <1>3, <1>4, <1>5

LEMMA LoadKeepsRoles ==
  ASSUME RolesInv, Roles!BeginLoad \/ Roles!LoadNext
  PROVE  RolesInv'
<1>1. CASE Roles!BeginLoad
  <2>1. /\ task.kind = "start" /\ storageCalls = <<>>
        /\ task' = [kind |-> "load", todo |-> DOMAIN store]
        /\ UNCHANGED <<held, store, storageCalls>>
    BY <1>1 DEF Roles!BeginLoad
  <2>2. CallsFit'
    BY <2>1, SameCalls DEF RolesInv
  <2>3. \A n : Stays(n) <=> n \in DOMAIN store
    BY <2>1 DEF Stays, LastSets, Untouched
  <2>4. DOMAIN held \subseteq DOMAIN store
    BY <2>1, <2>3 DEF RolesInv, TaskFits
  <2>5. DOMAIN store \subseteq AllNames
    BY DEF RolesInv, Fits
  <2>6. TaskFits'
    BY <2>1, <2>4, <2>5 DEF TaskFits
  <2> QED
    BY <2>1, <2>2, <2>6 DEF RolesInv, Fits
<1>2. CASE Roles!LoadNext
  <2>1. /\ task.kind = "load" /\ UNCHANGED <<store, storageCalls>>
        /\ storageCalls = <<>> /\ task.todo \subseteq DOMAIN store
        /\ DOMAIN held \subseteq DOMAIN store
        /\ DOMAIN store \subseteq DOMAIN held \cup task.todo
    BY <1>2 DEF Roles!LoadNext, RolesInv, TaskFits
  <2>2. CallsFit' /\ \A n : Stays(n)' <=> Stays(n)
    BY <2>1, SameCalls DEF RolesInv
  <2>3. CASE task.todo = {}
    <3>1. task' = [kind |-> "none", todo |-> {}] /\ held' = held
      BY <1>2, <2>3 DEF Roles!LoadNext, Roles!NoTask
    <3>2. \A n : Stays(n) <=> n \in DOMAIN store
      BY <2>1 DEF Stays, LastSets, Untouched
    <3>3. DOMAIN held' = DOMAIN store
      BY <2>1, <2>3, <3>1
    <3>4. TaskFits'
      BY <2>2, <3>1, <3>2, <3>3 DEF TaskFits, Roles!NoTask
    <3> QED
      BY <2>1, <2>2, <3>1, <3>4 DEF RolesInv, Fits
  <2>4. CASE task.todo # {}
    <3>1. PICK n \in Roles!Earliest(task.todo) :
            /\ held' = Roles!With(held, n, store[n])
            /\ task' = [task EXCEPT !.todo = @ \ {n}]
      BY <1>2, <2>4, Zenon DEF Roles!LoadNext, Roles!Entry
    <3>2. n \in task.todo /\ n \in DOMAIN store
      BY <2>1 DEF Roles!Earliest
    <3>3. n \in AllNames /\ store[n] \in EntryOf(n)
      BY <3>2 DEF RolesInv, Fits
    <3> DEFINE new == Roles!With(held, n, store[n])
    <3>4. Fits(new) /\ DOMAIN new = DOMAIN held \cup {n}
      BY <3>3, WithFits DEF RolesInv
    <3>5. held' = new
      BY <3>1
    <3> HIDE DEF new
    <3>6. Fits(held') /\ DOMAIN held' = DOMAIN held \cup {n}
      BY <3>4, <3>5
    <3>7. task' \in [kind : {"none", "save", "start", "load"}, todo : SUBSET AllNames]
          /\ task'.kind = "load" /\ task'.todo = task.todo \ {n}
      BY <2>1, <3>1 DEF RolesInv, TaskFits
    <3>8. TaskFits'
      BY <2>1, <3>2, <3>6, <3>7 DEF TaskFits
    <3> QED
      BY <2>1, <2>2, <3>6, <3>8 DEF RolesInv, Fits
  <2> QED
    BY <2>3, <2>4
<1> QED
  BY <1>1, <1>2

LEMMA RestartKeepsRoles ==
  ASSUME RolesInv, Roles!Restart
  PROVE  RolesInv'
<1>1. JustMade' /\ store' = store /\ task' = [kind |-> "start", todo |-> {}]
  BY DEF Roles!Restart, JustMade
<1>2. MadeFits'
  BY <1>1, BuiltInsFit, PTL
<1>3. \A n \in DOMAIN BuiltIn : Stays(n)'
  BY <1>2 DEF MadeFits, Stays
<1>4. TaskFits'
  BY <1>1, <1>2, <1>3 DEF TaskFits, MadeFits
<1> QED
  BY <1>1, <1>2, <1>4 DEF RolesInv, MadeFits, Fits

LEMMA ApplyKeepsRoles ==
  ASSUME RolesInv, Roles!Apply
  PROVE  RolesInv'
<1>1. storageCalls # <<>> /\ UNCHANGED <<held, task>>
  BY DEF Roles!Apply
<1>2. CallsFit' /\ Fits(store)' /\ \A n : Stays(n)' <=> Stays(n)
  BY CallApplied DEF RolesInv
<1>3. TaskFits'
  BY <1>1, <1>2 DEF RolesInv, TaskFits, Roles!NoTask
<1> QED
  BY <1>1, <1>2, <1>3 DEF RolesInv, Fits

LEMMA RolesKept ==
  ASSUME RolesInv, Roles!Next
  PROVE  RolesInv'
<1>1. ASSUME NEW r \in RoleNames, NEW inherits \in {DOMAIN BuiltIn},
             Roles!Create(r, Roles!NewRole({}, inherits))
      PROVE  RolesInv'
  <2>1. r \in AllNames /\ Roles!NewRole({}, inherits) \in EntryOf(r)
    BY DEF AllNames, EntryOf, Roles!Names, Roles!Roles, Roles!NewRole, RoleValue
  <2> QED
    BY <1>1, <2>1, CreateKeepsRoles
<1>2. ASSUME NEW u \in UserIds, Roles!Create(u, Roles!NewUser({}))
      PROVE  RolesInv'
  <2>1. u \in AllNames /\ EntryOf(u) = UserValue
    BY NamesApart DEF AllNames, EntryOf, Roles!Names, Roles!Roles
  <2>2. Roles!NewUser({}) \in UserValue
    BY DEF Roles!NewUser, UserValue
  <2> QED
    BY <1>2, <2>1, <2>2, CreateKeepsRoles
<1>3. ASSUME NEW n \in DOMAIN Policies, Roles!Create(n, Policies[n])
      PROVE  RolesInv'
  <2>1. n \in AllNames /\ Policies[n] \in EntryOf(n)
    BY NamesApart DEF AllNames, EntryOf, Roles!Names, Roles!Roles
  <2> QED
    BY <1>3, <2>1, CreateKeepsRoles
<1>4. ASSUME NEW n \in Roles!Names, Roles!Delete(n)
      PROVE  RolesInv'
  BY <1>4, DeleteKeepsRoles DEF AllNames
<1>5. ASSUME NEW r \in Roles!Roles, NEW p \in Permissions,
             Roles!addPermission(r, p) \/ Roles!removePermission(r, p)
      PROVE  RolesInv'
  BY <1>5, ChangedRole, ChangeKeepsRoles DEF Roles!addPermission, Roles!removePermission
<1>6. ASSUME NEW u \in UserIds, NEW r \in Roles!Roles,
             Roles!assignRole(u, r) \/ Roles!removeRole(u, r)
      PROVE  RolesInv'
  BY <1>6, ChangedUser, ChangeKeepsRoles DEF Roles!assignRole, Roles!removeRole
<1>7. ASSUME NEW u \in UserIds, NEW p \in Permissions,
             Roles!grantPermission(u, p) \/ Roles!denyPermission(u, p)
      PROVE  RolesInv'
  BY <1>7, ChangedUser, ChangeKeepsRoles DEF Roles!grantPermission, Roles!denyPermission
<1> QED
  BY <1>1, <1>2, <1>3, <1>4, <1>5, <1>6, <1>7, ApplyKeepsRoles, BeginSaveKeepsRoles,
     SaveNextKeepsRoles, LoadKeepsRoles, RestartKeepsRoles, Zenon DEF Roles!Next

LEMMA RolesSound == RolesInv => Roles!AnswersAgree /\ Roles!DeletedStaysDeleted
<1>1. SUFFICES ASSUME RolesInv
               PROVE  Roles!AnswersAgree /\ Roles!DeletedStaysDeleted
  OBVIOUS
<1>2. ASSUME NEW u \in UserIds \cap DOMAIN held
      PROVE  held[u].denied \cap held[u].perms = {}
  <2>1. u \notin Roles!Roles
    BY NamesApart DEF Roles!Roles
  <2> QED
    BY <1>1, <2>1 DEF RolesInv, Fits, EntryOf, UserValue
<1>3. ASSUME NEW u \in UserIds \cap DOMAIN held, NEW p \in Permissions
      PROVE  /\ Roles!hasPermission(u, p) => p \in Roles!getAllPermissions(u)
             /\ p \in held[u].denied => p \notin held[u].perms
             /\ \A context \in BOOLEAN : Roles!authorize(u, p, context) =>
                  \/ p \in Roles!getAllPermissions(u)
                  \/ \E n \in Roles!Range(order) : held[n].effect = "allow" /\ u \in held[n].users
  <2>1. Roles!hasPermission(u, p) => p \in Roles!getAllPermissions(u)
    BY DEF Roles!hasPermission, Roles!getAllPermissions, Roles!RolePermissions
  <2>2. p \in held[u].denied => p \notin held[u].perms
    BY <1>2
  <2>3. ASSUME NEW context \in BOOLEAN, Roles!authorize(u, p, context),
               ~Roles!hasPermission(u, p)
        PROVE  \E n \in Roles!Range(order) : held[n].effect = "allow" /\ u \in held[n].users
    <3>1. PICK i \in DOMAIN order : /\ Roles!appliesTo(held[order[i]], u, p, context)
                                    /\ held[order[i]].effect = "allow"
      BY <2>3, Zenon DEF Roles!authorize
    <3>2. u \in held[order[i]].users
      BY <3>1 DEF Roles!appliesTo
    <3>3. order[i] \in Roles!Range(order)
      BY Zenon DEF Roles!Range
    <3> QED
      BY <3>1, <3>2, <3>3
  <2> QED
    BY <2>1, <2>2, <2>3
<1>4. Roles!AnswersAgree
  BY <1>3, Zenon DEF Roles!AnswersAgree
<1>5. ASSUME task = Roles!NoTask, storageCalls = <<>>
      PROVE  DOMAIN store = DOMAIN held
  <2>1. task.kind = "none"
    BY <1>5 DEF Roles!NoTask
  <2>2. \A n : Stays(n) <=> n \in DOMAIN held
    BY <1>1, <2>1 DEF RolesInv, TaskFits
  <2>3. \A n : Stays(n) <=> n \in DOMAIN store
    BY <1>5 DEF Stays, LastSets, Untouched
  <2> QED
    BY <2>2, <2>3
<1> QED
  BY <1>4, <1>5, Zenon DEF Roles!DeletedStaysDeleted

-----------------------------------------------------------------------------
(* Who may do what, in each of the parts                                     *)

WhoInv ==
    /\ part \in {"http", "ipc"} => AccessInv
    /\ part = "logins" => TokensInv
    /\ part = "keys" => KeysInv
    /\ part = "roles" => RolesInv

LEMMA WhoInitially == Init => WhoInv
<1> SUFFICES ASSUME Init PROVE WhoInv
  OBVIOUS
<1>1. Access!Init /\ Auth!Init /\ Roles!Init
  BY DEF Init
<1>2. TokensInv
  <2>1. tokens = <<>> /\ blacklist = <<>> /\ dropped = {} /\ revoked = {}
    BY <1>1 DEF Auth!Init
  <2>2. maxBlacklist \in Nat /\ Len(blacklist) = 0
    BY <2>1, ListFits
  <2> QED
    BY <2>1, <2>2 DEF TokensInv
<1>3. KeysInv
  <2> DEFINE none == [phase |-> "none", keys |-> {}]
  <2>1. /\ apiKeys = {} /\ file = {} /\ overlapped = FALSE
        /\ saving = [s \in Saves |-> none]
    BY <1>1, Zenon DEF Auth!Init
  <2>2. none \in [phase : {"none", "mkdir"}, keys : SUBSET ApiKeyIds] /\ none.phase = "none"
    OBVIOUS
  <2> HIDE DEF none
  <2> QED
    BY <2>1, <2>2 DEF KeysInv
<1> QED
  BY <1>1, <1>2, <1>3, AccessInvInit, RolesInitially DEF WhoInv

LEMMA WhoKept == WhoInv /\ [Next]_vars => WhoInv'
<1> SUFFICES ASSUME WhoInv, [Next]_vars PROVE WhoInv'
  OBVIOUS
<1>1. part' = part
  BY StepOfAccess
<1>2. CASE part \in {"http", "ipc"}
  <2>1. Access!LoginNext \/ Access!IpcNext \/ UNCHANGED accessVars
    BY <1>2, StepOfAccess
  <2>2. UNCHANGED accessVars => UNCHANGED Access!vars
    BY Zenon DEF accessVars, Access!vars, Access!loginVars, Access!ipcVars
  <2>3. [Access!LoginNext \/ Access!IpcNext]_(Access!vars)
    BY <2>1, <2>2, Zenon
  <2>4. AccessInv'
    BY <1>2, <2>3, AccessInvNext DEF WhoInv
  <2> QED
    BY <1>1, <1>2, <2>4 DEF WhoInv
<1>3. CASE part = "logins"
  <2>1. Auth!LoginNext \/ UNCHANGED <<tokens, blacklist, dropped, revoked>>
    BY <1>3, StepOfAccess, Zenon DEF authVars
  <2>2. UNCHANGED <<tokens, blacklist, dropped, revoked>> => TokensInv'
    BY <1>3 DEF WhoInv, TokensInv
  <2>3. TokensInv'
    BY <1>3, <2>1, <2>2, LoginKeepsTokens DEF WhoInv
  <2> QED
    BY <1>1, <1>3, <2>3 DEF WhoInv
<1>4. CASE part = "keys"
  <2>1. Auth!KeyNext \/ UNCHANGED <<apiKeys, saving, file, overlapped>>
    BY <1>4, StepOfAccess, Zenon DEF authVars
  <2>2. UNCHANGED <<apiKeys, saving, file, overlapped>> => KeysInv'
    BY <1>4 DEF WhoInv, KeysInv
  <2>3. KeysInv'
    BY <1>4, <2>1, <2>2, KeysKept DEF WhoInv
  <2> QED
    BY <1>1, <1>4, <2>3 DEF WhoInv
<1>5. CASE part = "roles"
  <2>1. Roles!Next \/ UNCHANGED <<held, store, storageCalls, task>>
    BY <1>5, StepOfAccess, Zenon DEF roleVars
  <2>2. ASSUME UNCHANGED <<held, store, storageCalls, task>>
        PROVE  RolesInv'
    <3>1. CallsFit' /\ \A n : Stays(n)' <=> Stays(n)
      BY <1>5, <2>2, SameCalls DEF WhoInv, RolesInv
    <3>2. TaskFits'
      BY <1>5, <2>2, <3>1 DEF WhoInv, RolesInv, TaskFits, Roles!NoTask
    <3> QED
      BY <1>5, <2>2, <3>1, <3>2 DEF WhoInv, RolesInv, Fits
  <2>3. RolesInv'
    BY <1>5, <2>1, <2>2, RolesKept DEF WhoInv
  <2> QED
    BY <1>1, <1>5, <2>3 DEF WhoInv
<1> QED
  BY <1>1, <1>2, <1>3, <1>4, <1>5 DEF WhoInv

\* Who was logged out is refused until the list forgets it, API keys are in the
\* file when no two saves overlap, a denied permission is not granted and the
\* answers about a user agree, what was deleted stays deleted however saves and
\* restarts fall between the calls to the storage, and the requests that overlap
\* compare no more passwords and tokens than the limits allow.
THEOREM AccessStaysSound == Spec => []AccessIsSound
<1>1. WhoInv => AccessIsSound
  <2> SUFFICES ASSUME WhoInv PROVE AccessIsSound
    OBVIOUS
  <2>1. part \in {"http", "ipc"} => Access!GuessesBounded
    BY AccessInvBounds DEF WhoInv
  <2>2. ASSUME TokensInv PROVE Auth!RevokedIsRefused
    <3>1. ASSUME NEW t \in revoked \ dropped PROVE t \in Auth!Range(blacklist)
      BY <2>2 DEF TokensInv, Listed, Auth!Range
    <3>2. Len(blacklist) <= maxBlacklist
      BY <2>2 DEF TokensInv
    <3> QED
      BY <3>1, <3>2, Zenon DEF Auth!RevokedIsRefused, Auth!validateToken, Auth!mayRefresh
  <2>3. KeysInv => Auth!KeysAreSaved
    BY DEF KeysInv, Auth!KeysAreSaved
  <2> QED
    BY <2>1, <2>2, <2>3, RolesSound DEF WhoInv, AccessIsSound
<1> QED
  BY <1>1, WhoInitially, WhoKept, PTL DEF Spec

-----------------------------------------------------------------------------
(* The files of a start                                                      *)

HomeRecord == [env : BOOLEAN, keys : BOOLEAN, salt : Int, master : Int, seed : Int,
               enc : [version : Int, phrase : Int, key : Int],
               identity : Int, ecdh : Int, trust : Int]
HomeTyped ==
    /\ home \in HomeRecord
    /\ work \in [phrase : Int, key : Int, given : Int]
    /\ fresh \in Int /\ promised \in Nat

\* A phrase that the start may take the keys from, or has taken them from.
Holds(x) == x >= 1 /\ \/ x = home.seed \/ x = home.identity \/ x = home.ecdh
                      \/ home.enc.version = 2 /\ x = home.enc.phrase
OnePhrase == \A x, y \in Int : Holds(x) /\ Holds(y) => x = y

Loading ==
    /\ pc \in {"identity", "ecdh"} =>
         /\ work.phrase >= 1 /\ \A x \in Int : Holds(x) => x = work.phrase
         /\ work.given = 0 => home.seed = work.phrase
    /\ pc = "ecdh" => home.identity >= 1
    /\ pc = "online" => home.seed >= 1 /\ home.identity >= 1 /\ home.ecdh >= 1

\* Where the promised phrase is: still to be sealed, or sealed.
InSeed == promised = 0 \/ cut \/ promised = home.seed
InEnc == promised = 0 \/ cut \/ (/\ home.enc.phrase = promised
                                 /\ home.enc.key \in {home.salt, home.master})
Sealing ==
    /\ pc \in {"seal1", "seal2"} => work.phrase = home.seed /\ InSeed
    /\ pc = "seal1" => work.key = home.salt
    /\ pc = "seal2" => work.key = home.master
    /\ pc \in {"wipe", "unlink"} => InEnc

\* What a recovery writes to is empty, and what it or a bootstrap overwrites
\* promises nothing.
Beginning ==
    /\ pc \in {"rmaster", "rseed"} =>
         home.seed = 0 /\ home.identity = 0 /\ home.ecdh = 0 /\ home.enc.version = 0
    /\ pc \in {"salt", "master", "seal", "rmaster", "rseed", "rtrust"} => promised = 0

\* Only the process that overwrites seed.txt, or the end of one, leaves noise.
Kept ==
    /\ home.seed < 0 => pc = "unlink" \/ cut \/ promised = 0
    /\ InSeed \/ InEnc

StartInv == HomeTyped /\ OnePhrase /\ Loading /\ Sealing /\ Beginning /\ Kept

LEMMA StartInitially == Start!Init => StartInv
<1> SUFFICES ASSUME Start!Init PROVE StartInv
  OBVIOUS
<1>1. /\ home \in {Start!Empty, Start!Legacy} /\ pc = "off" /\ promised = 0
      /\ work = Start!NoWork /\ fresh = 1
  BY DEF Start!Init, Start!Missing
<1>2. HomeTyped /\ home.seed >= 0
  <2>1. Start!Unsealed \in [version : Int, phrase : Int, key : Int]
    BY DEF Start!Unsealed, Start!Missing
  <2>2. work \in [phrase : Int, key : Int, given : Int]
    BY <1>1 DEF Start!NoWork, Start!Missing
  <2>3. home \in HomeRecord /\ home.seed >= 0
    <3>1. CASE home = Start!Empty
      BY <2>1, <3>1 DEF Start!Empty, Start!Missing, HomeRecord
    <3>2. CASE home = Start!Legacy
      BY <2>1, <3>2 DEF Start!Legacy, Start!Missing, HomeRecord
    <3> QED
      BY <1>1, <3>1, <3>2
  <2> QED
    BY <1>1, <2>2, <2>3 DEF HomeTyped, HomeRecord
<1>3. OnePhrase
  <2>1. Start!Unsealed.version = 0
    BY DEF Start!Unsealed, Start!Missing
  <2> QED
    BY <1>1, <2>1 DEF OnePhrase, Holds, Start!Empty, Start!Legacy, Start!Missing
<1> QED
  BY <1>1, <1>2, <1>3 DEF StartInv, Loading, Sealing, Beginning, Kept, InSeed

\* The write of a file, with what StartInv says of the other files.
LEMMA WriteKeepsTypes ==
  ASSUME HomeTyped, NEW at, NEW next, NEW x \in Int,
         NEW f \in {"salt", "master", "seed", "identity", "ecdh", "trust"},
         Start!Writes(at, f, x, next)
  PROVE  /\ HomeTyped' /\ pc = at /\ pc' = next /\ UNCHANGED <<work, fresh, promised, cut>>
         /\ home'[f] = x /\ home'.enc = home.enc
         /\ \A g \in {"salt", "master", "seed", "identity", "ecdh", "trust"} :
              g # f => home'[g] = home[g]
BY DEF HomeTyped, HomeRecord, Start!Writes

LEMMA SealKeepsTypes ==
  ASSUME HomeTyped, NEW at, NEW next, NEW v \in Int,
         Start!Writes(at, "enc", Start!Sealed(v), next)
  PROVE  /\ HomeTyped' /\ pc = at /\ pc' = next /\ UNCHANGED <<work, fresh, promised, cut>>
         /\ home'.enc.version = v /\ home'.enc.phrase = work.phrase /\ home'.enc.key = work.key
         /\ \A g \in {"salt", "master", "seed", "identity", "ecdh", "trust"} : home'[g] = home[g]
BY DEF HomeTyped, HomeRecord, Start!Writes, Start!Sealed

\* Steps that write one file.
LEMMA WritesKeepStart ==
  ASSUME StartInv,
         \/ Start!SaveSalt \/ Start!SaveMasterKey \/ Start!SaveIdentity \/ Start!SaveEcdh
         \/ Start!OverwriteLegacy \/ Start!UnlinkLegacy \/ Start!RecoverFromSeed
  PROVE  StartInv'
<1> USE DEF StartInv
<1>1. work.key \in Int /\ work.phrase \in Int /\ home.seed \in Int
  BY DEF HomeTyped, HomeRecord
<1>2. CASE Start!SaveSalt \/ Start!SaveMasterKey
  <2>1. \E f \in {"salt", "master"} : \E next \in {"master", "seal"} :
          Start!Writes(f, f, work.key, next)
    BY <1>2 DEF Start!SaveSalt, Start!SaveMasterKey
  <2>2. PICK f \in {"salt", "master"}, next \in {"master", "seal"} :
          Start!Writes(f, f, work.key, next)
    BY <2>1
  <2>3. /\ HomeTyped' /\ pc = f /\ pc' = next /\ UNCHANGED <<work, fresh, promised, cut>>
        /\ home'.enc = home.enc /\ home'.seed = home.seed
        /\ home'.identity = home.identity /\ home'.ecdh = home.ecdh
    BY <1>1, <2>2, WriteKeepsTypes
  <2>4. promised = 0
    BY <2>3 DEF Beginning
  <2> QED
    BY <2>3, <2>4 DEF OnePhrase, Holds, Loading, Sealing, Beginning, Kept, InSeed, InEnc
<1>3. CASE Start!SaveIdentity
  <2> DEFINE next == Start!Unkeyed("ecdh", Start!Loaded)
  <2>1. Start!Writes("identity", "identity", work.phrase, next)
    BY <1>3 DEF Start!SaveIdentity
  <2>2. next = IF home.ecdh >= 1 THEN IF work.given = 0 THEN "online" ELSE "off" ELSE "ecdh"
    BY DEF Start!Unkeyed, Start!Loaded, Start!Missing
  <2>3. /\ HomeTyped' /\ pc = "identity" /\ pc' = next
        /\ UNCHANGED <<work, fresh, promised, cut>>
        /\ home'.enc = home.enc /\ home'.seed = home.seed /\ home'.ecdh = home.ecdh
        /\ home'.identity = work.phrase /\ home'.salt = home.salt /\ home'.master = home.master
    BY <1>1, <2>1, WriteKeepsTypes
  <2> HIDE DEF next
  <2>4. /\ work.phrase >= 1 /\ \A x \in Int : Holds(x) => x = work.phrase
        /\ work.given = 0 => home.seed = work.phrase
    BY <2>3 DEF Loading
  <2>5. \A x \in Int : Holds(x)' => x = work.phrase
    BY <2>3, <2>4 DEF Holds
  <2>6. OnePhrase' /\ Loading'
    BY <1>1, <2>2, <2>3, <2>4, <2>5 DEF OnePhrase, Loading
  <2> QED
    BY <2>2, <2>3, <2>6 DEF Sealing, Beginning, Kept, InSeed, InEnc
<1>4. CASE Start!SaveEcdh
  <2> DEFINE next == Start!Loaded
  <2>1. Start!Writes("ecdh", "ecdh", work.phrase, next)
    BY <1>4 DEF Start!SaveEcdh
  <2>2. next = IF work.given = 0 THEN "online" ELSE "off"
    BY DEF Start!Loaded, Start!Missing
  <2>3. /\ HomeTyped' /\ pc = "ecdh" /\ pc' = next
        /\ UNCHANGED <<work, fresh, promised, cut>>
        /\ home'.enc = home.enc /\ home'.seed = home.seed /\ home'.identity = home.identity
        /\ home'.ecdh = work.phrase /\ home'.salt = home.salt /\ home'.master = home.master
    BY <1>1, <2>1, WriteKeepsTypes
  <2> HIDE DEF next
  <2>4. /\ work.phrase >= 1 /\ \A x \in Int : Holds(x) => x = work.phrase
        /\ work.given = 0 => home.seed = work.phrase
        /\ home.identity >= 1
    BY <2>3 DEF Loading
  <2>5. \A x \in Int : Holds(x)' => x = work.phrase
    BY <2>3, <2>4 DEF Holds
  <2>6. OnePhrase' /\ Loading'
    BY <1>1, <2>2, <2>3, <2>4, <2>5 DEF OnePhrase, Loading
  <2> QED
    BY <2>2, <2>3, <2>6 DEF Sealing, Beginning, Kept, InSeed, InEnc
<1>5. CASE Start!OverwriteLegacy \/ Start!UnlinkLegacy
  <2>1. \E at, next, x : /\ at \in {"wipe", "unlink"} /\ next \in {"unlink", "off", "load"}
                         /\ x \in Int /\ x <= 0 /\ (x < 0 => next = "unlink")
                         /\ Start!Writes(at, "seed", x, next)
    BY <1>5 DEF Start!OverwriteLegacy, Start!UnlinkLegacy, Start!Noise, Start!Missing
  <2>2. PICK at, next, x : /\ at \in {"wipe", "unlink"} /\ next \in {"unlink", "off", "load"}
                           /\ x \in Int /\ x <= 0 /\ (x < 0 => next = "unlink")
                           /\ Start!Writes(at, "seed", x, next)
    BY <2>1
  <2>3. /\ HomeTyped' /\ pc = at /\ pc' = next
        /\ UNCHANGED <<work, fresh, promised, cut>>
        /\ home'.enc = home.enc /\ home'.identity = home.identity /\ home'.ecdh = home.ecdh
        /\ home'.seed = x /\ home'.salt = home.salt /\ home'.master = home.master
    BY <2>2, WriteKeepsTypes
  <2>4. InEnc
    BY <2>2, <2>3 DEF Sealing
  <2>5. OnePhrase'
    BY <2>2, <2>3 DEF OnePhrase, Holds
  <2> QED
    BY <2>2, <2>3, <2>4, <2>5 DEF Loading, Sealing, Beginning, Kept, InSeed, InEnc
<1>6. CASE Start!RecoverFromSeed
  <2>1. \/ Start!Writes("rmaster", "master", -1, "rseed")
        \/ Start!Writes("rseed", "seed", work.phrase, "rtrust")
        \/ Start!Writes("rtrust", "trust", -1, "off")
    BY <1>6 DEF Start!RecoverFromSeed, Start!Torn
  <2>2. CASE Start!Writes("rseed", "seed", work.phrase, "rtrust")
    <3>1. /\ HomeTyped' /\ pc = "rseed" /\ pc' = "rtrust"
          /\ UNCHANGED <<work, fresh, promised, cut>>
          /\ home'.enc = home.enc /\ home'.identity = home.identity /\ home'.ecdh = home.ecdh
          /\ home'.seed = work.phrase
      BY <1>1, <2>2, WriteKeepsTypes
    <3>2. promised = 0 /\ home.identity = 0 /\ home.ecdh = 0 /\ home.enc.version = 0
      BY <3>1 DEF Beginning
    <3>3. OnePhrase'
      BY <3>1, <3>2 DEF OnePhrase, Holds
    <3> QED
      BY <3>1, <3>2, <3>3 DEF Loading, Sealing, Beginning, Kept, InSeed, InEnc
  <2>3. ASSUME NEW at \in {"rmaster", "rtrust"}, NEW f \in {"master", "trust"},
               NEW next \in {"rseed", "off"}, at = "rtrust" => next = "off",
               Start!Writes(at, f, -1, next)
        PROVE  StartInv'
    <3>1. /\ HomeTyped' /\ pc = at /\ pc' = next
          /\ UNCHANGED <<work, fresh, promised, cut>>
          /\ home'.enc = home.enc /\ home'.identity = home.identity /\ home'.ecdh = home.ecdh
          /\ home'.seed = home.seed
      BY <2>3, WriteKeepsTypes
    <3>2. promised = 0
      BY <3>1 DEF Beginning
    <3> QED
      BY <2>3, <3>1, <3>2
         DEF OnePhrase, Holds, Loading, Sealing, Beginning, Kept, InSeed, InEnc
  <2> QED
    BY <2>1, <2>2, <2>3
<1> QED
  BY <1>2, <1>3, <1>4, <1>5, <1>6

LEMMA SealsKeepStart ==
  ASSUME StartInv, Start!SaveEncryptedSeed \/ Start!SaveMigratedSeed
  PROVE  StartInv'
<1> USE DEF StartInv
<1>1. \E at, next, v : /\ <<at, next, v>> \in {<<"seal", "load", 1>>, <<"seal1", "unlink", 1>>,
                                               <<"seal2", "wipe", 2>>}
                       /\ Start!Writes(at, "enc", Start!Sealed(v), next)
  BY DEF Start!SaveEncryptedSeed, Start!SaveMigratedSeed
<1>2. PICK at, next, v : /\ <<at, next, v>> \in {<<"seal", "load", 1>>, <<"seal1", "unlink", 1>>,
                                                 <<"seal2", "wipe", 2>>}
                         /\ Start!Writes(at, "enc", Start!Sealed(v), next)
  BY <1>1
<1>2a. \/ at = "seal" /\ next = "load" /\ v = 1
       \/ at = "seal1" /\ next = "unlink" /\ v = 1
       \/ at = "seal2" /\ next = "wipe" /\ v = 2
  BY <1>2
<1>3. /\ HomeTyped' /\ pc = at /\ pc' = next
      /\ UNCHANGED <<work, fresh, promised, cut>>
      /\ home'.enc.version = v /\ home'.enc.phrase = work.phrase /\ home'.enc.key = work.key
      /\ home'.identity = home.identity /\ home'.ecdh = home.ecdh /\ home'.seed = home.seed
      /\ home'.salt = home.salt /\ home'.master = home.master
  BY <1>2, <1>2a, SealKeepsTypes
<1>4. OnePhrase'
  BY <1>2a, <1>3 DEF OnePhrase, Holds, Sealing
<1>5. CASE at = "seal"
  <2>1. promised = 0
    BY <1>3, <1>5 DEF Beginning
  <2> QED
    BY <1>2a, <1>3, <1>4, <1>5, <2>1 DEF Loading, Sealing, Beginning, Kept, InSeed, InEnc
<1>6. CASE at \in {"seal1", "seal2"}
  <2>1. InSeed /\ work.phrase = home.seed /\ work.key \in {home.salt, home.master}
    BY <1>3, <1>6 DEF Sealing
  <2> QED
    BY <1>2a, <1>3, <1>4, <1>6, <2>1 DEF Loading, Sealing, Beginning, Kept, InSeed, InEnc
<1> QED
  BY <1>2a, <1>5, <1>6

LEMMA BeginKeepsStart ==
  ASSUME StartInv,
         \/ Start!StartCore \/ Start!Bootstrap \/ Start!LoadAllKeys
         \/ Start!MigratePlaintextSeed \/ Start!LoadWithMasterKey
  PROVE  StartInv'
<1> USE DEF StartInv
<1>1. CASE Start!StartCore
  <2>1. /\ pc = "off" /\ pc' \in {"load", "ask"} /\ work' = Start!NoWork
        /\ UNCHANGED <<home, fresh, promised, cut>>
    BY <1>1 DEF Start!StartCore
  <2>2. HomeTyped'
    BY <2>1 DEF HomeTyped, HomeRecord, Start!NoWork, Start!Missing
  <2> QED
    BY <2>1, <2>2 DEF OnePhrase, Holds, Loading, Sealing, Beginning, Kept, InSeed, InEnc
<1>2. CASE Start!Bootstrap
  <2>1. /\ pc = "ask" /\ home' = [home EXCEPT !.env = TRUE, !.keys = TRUE]
        /\ \/ Start!Accepted
           \/ pc' = "off" /\ UNCHANGED <<work, fresh, promised, cut>>
    BY <1>2 DEF Start!Bootstrap, Start!Refused
  <2>2. Start!Accepted => /\ pc' = "salt" /\ promised' = 0 /\ fresh' = fresh + 1
                          /\ work' \in [phrase : Int, key : {fresh + 1}, given : Int]
    <3> SUFFICES ASSUME Start!Accepted
                 PROVE  work' \in [phrase : Int, key : {fresh + 1}, given : Int]
      BY DEF Start!Accepted, Start!Missing
    <3>1. PICK p \in Start!Phrases : work' = [Start!NoWork EXCEPT !.phrase = p, !.key = fresh']
      BY DEF Start!Accepted
    <3>2. p \in Int /\ fresh' = fresh + 1 /\ fresh' \in Int
      BY DEF Start!Accepted, Start!Phrases, HomeTyped
    <3>3. work' \in [phrase : {p}, key : {fresh'}, given : {0}]
      BY <3>1, <3>2 DEF Start!NoWork, Start!Missing
    <3> QED
      BY <3>2, <3>3
  <2>3. /\ HomeTyped'
        /\ home'.seed = home.seed /\ home'.identity = home.identity /\ home'.ecdh = home.ecdh
        /\ home'.enc = home.enc /\ home'.salt = home.salt /\ home'.master = home.master
    <3>1. /\ fresh + 1 \in Int /\ promised \in Nat /\ fresh \in Int
          /\ work \in [phrase : Int, key : Int, given : Int]
      BY DEF HomeTyped
    <3>2. /\ fresh' \in Int /\ promised' \in Nat
          /\ work' \in [phrase : Int, key : Int, given : Int]
      BY <2>1, <2>2, <3>1
    <3>3. /\ home' \in HomeRecord
          /\ home'.seed = home.seed /\ home'.identity = home.identity /\ home'.ecdh = home.ecdh
          /\ home'.enc = home.enc /\ home'.salt = home.salt /\ home'.master = home.master
      BY <2>1 DEF HomeTyped, HomeRecord
    <3> QED
      BY <3>2, <3>3 DEF HomeTyped
  <2>4. OnePhrase'
    BY <2>3 DEF OnePhrase, Holds
  <2> QED
    BY <2>1, <2>2, <2>3, <2>4 DEF Loading, Sealing, Beginning, Kept, InSeed, InEnc
<1>3. CASE Start!LoadAllKeys
  <2> DEFINE p == Start!SeedOf(work.given)
             next == Start!Unkeyed("identity", Start!Unkeyed("ecdh", Start!Loaded))
  <2>1. /\ pc = "load" /\ UNCHANGED <<home, fresh, promised, cut>>
        /\ \/ p >= 1 /\ work' = [work EXCEPT !.phrase = p] /\ pc' = next
           \/ work' = Start!NoWork /\ pc' = "off"
    BY <1>3, Zenon DEF Start!LoadAllKeys
  <2>2. /\ p \in Int /\ (p >= 1 => Holds(p))
        /\ p >= 1 /\ work.given = 0 => p = home.seed
    BY DEF Start!SeedOf, Start!Decrypted, Start!Missing, Holds, HomeTyped, HomeRecord
  <2>3. next = IF home.identity >= 1
               THEN IF home.ecdh >= 1 THEN IF work.given = 0 THEN "online" ELSE "off" ELSE "ecdh"
               ELSE "identity"
    BY DEF Start!Unkeyed, Start!Loaded, Start!Missing
  <2> HIDE DEF p, next
  <2>4. CASE work' = Start!NoWork /\ pc' = "off"
    <3>1. HomeTyped'
      BY <2>1, <2>4 DEF HomeTyped, HomeRecord, Start!NoWork, Start!Missing
    <3> QED
      BY <2>1, <2>4, <3>1 DEF OnePhrase, Holds, Loading, Sealing, Beginning, Kept, InSeed, InEnc
  <2>5. CASE p >= 1 /\ work' = [work EXCEPT !.phrase = p] /\ pc' = next
    <3>1. HomeTyped' /\ work'.phrase = p /\ work'.given = work.given
      BY <2>1, <2>2, <2>5 DEF HomeTyped, HomeRecord
    <3>2. \A x \in Int : Holds(x)' <=> Holds(x)
      BY <2>1 DEF Holds
    <3>3. \A x \in Int : Holds(x) => x = p
      BY <2>2, <2>5 DEF OnePhrase
    <3>4. OnePhrase' /\ Loading'
      BY <2>1, <2>2, <2>3, <2>5, <3>1, <3>2, <3>3 DEF OnePhrase, Loading
    <3> QED
      BY <2>1, <2>3, <2>5, <3>1, <3>4 DEF Sealing, Beginning, Kept, InSeed, InEnc
  <2> QED
    BY <2>1, <2>4, <2>5
<1>4. CASE Start!MigratePlaintextSeed \/ Start!LoadWithMasterKey
  <2>1. pc = "off" /\ home.seed \in Int
    BY <1>4 DEF Start!MigratePlaintextSeed, Start!LoadWithMasterKey, HomeTyped, HomeRecord
  <2>2. Start!Promise => /\ promised' \in Nat
                         /\ home.seed >= 1 => promised' = home.seed
                         /\ ~(home.seed >= 1) => promised' = promised
    BY <2>1 DEF Start!Promise, HomeTyped, HomeRecord
  <2>3. CASE Start!MigratePlaintextSeed
    <3>1. /\ home.seed # 0 /\ pc' = "seal1" /\ UNCHANGED <<home, fresh, cut>> /\ Start!Promise
          /\ work' = [Start!NoWork EXCEPT !.phrase = home.seed, !.key = home.salt]
      BY <2>3 DEF Start!MigratePlaintextSeed, Start!Missing
    <3>2. HomeTyped' /\ work'.phrase = home.seed /\ work'.key = home.salt
      <4>1. home.seed \in Int /\ home.salt \in Int
        BY DEF HomeTyped, HomeRecord
      <4>2. work' \in [phrase : {home.seed}, key : {home.salt}, given : {0}]
        BY <3>1, <4>1 DEF Start!NoWork, Start!Missing
      <4> QED
        BY <2>2, <3>1, <4>1, <4>2 DEF HomeTyped, HomeRecord
    <3>3. InSeed'
      BY <2>1, <2>2, <3>1 DEF InSeed, Kept
    <3>4. OnePhrase' /\ Kept'
      BY <2>1, <2>2, <3>1, <3>3 DEF OnePhrase, Holds, Kept
    <3> QED
      BY <2>1, <3>1, <3>2, <3>3, <3>4 DEF Loading, Sealing, Beginning
  <2>4. CASE Start!LoadWithMasterKey
    <3>1. /\ home' = [home EXCEPT !.keys = TRUE] /\ UNCHANGED <<fresh, cut>>
          /\ work' = [phrase |-> home.seed, key |-> home.master, given |-> home.master]
          /\ \/ home.seed # 0 /\ pc' = "seal2" /\ Start!Promise
             \/ pc' = "load" /\ UNCHANGED promised
      BY <2>4 DEF Start!LoadWithMasterKey, Start!Missing
    <3>2. /\ HomeTyped' /\ work'.phrase = home.seed /\ work'.key = home.master
          /\ home'.seed = home.seed /\ home'.identity = home.identity /\ home'.ecdh = home.ecdh
          /\ home'.enc = home.enc /\ home'.salt = home.salt /\ home'.master = home.master
      BY <2>2, <3>1 DEF HomeTyped, HomeRecord
    <3>3. pc' = "seal2" => InSeed'
      BY <2>1, <2>2, <3>1, <3>2 DEF InSeed, Kept
    <3>4. OnePhrase'
      BY <3>2 DEF OnePhrase, Holds
    <3>5. Kept'
      BY <2>1, <2>2, <3>1, <3>2, <3>3 DEF Kept, InSeed, InEnc
    <3> QED
      BY <2>1, <3>1, <3>2, <3>3, <3>4, <3>5 DEF Loading, Sealing, Beginning
  <2> QED
    BY <1>4, <2>3, <2>4
<1> QED
  BY <1>1, <1>2, <1>3, <1>4

\* A reset, whole or cut, only removes; a crash tears at most the file that is
\* written, and forgets what was in memory.
LEMMA EndsKeepStart ==
  ASSUME StartInv,
         Start!ResetEnvironment \/ Start!FullRecovery \/ Start!ResetCut \/ Start!Crash
  PROVE  StartInv'
<1> USE DEF StartInv
<1>1. CASE Start!ResetEnvironment \/ Start!FullRecovery
  <2>1. /\ home' = Start!Fresh /\ promised' = 0 /\ fresh' = fresh
        /\ pc' \in {"off", "rmaster"} /\ work' \in [phrase : Int, key : Int, given : Int]
    BY <1>1 DEF Start!ResetEnvironment, Start!FullRecovery, Start!NoWork, Start!Missing,
       Start!Phrases, HomeTyped, HomeRecord
  <2>2. /\ HomeTyped' /\ home'.seed = 0 /\ home'.identity = 0 /\ home'.ecdh = 0
        /\ home'.enc.version = 0
    <3>1. /\ Start!Unsealed \in [version : Int, phrase : Int, key : Int]
          /\ Start!Unsealed.version = 0
      BY DEF Start!Unsealed, Start!Missing
    <3>2. Start!Empty \in [env : BOOLEAN, keys : BOOLEAN, salt : {0}, master : {0}, seed : {0},
                           enc : {Start!Unsealed}, identity : {0}, ecdh : {0}, trust : {0}]
      BY DEF Start!Empty, Start!Missing
    <3>3. Start!Fresh \in [env : BOOLEAN, keys : BOOLEAN, salt : {0}, master : {0}, seed : {0},
                           enc : {Start!Unsealed}, identity : {0}, ecdh : {0}, trust : {0}]
      BY <3>2 DEF Start!Fresh
    <3> QED
      BY <2>1, <3>1, <3>3 DEF HomeTyped, HomeRecord
  <2> QED
    BY <2>1, <2>2 DEF OnePhrase, Holds, Loading, Sealing, Beginning, Kept, InSeed
<1>2. CASE Start!ResetCut
  <2>1. PICK F \in SUBSET Start!Removable, e \in {home.enc, Start!Unsealed} :
          home' = [f \in DOMAIN home |->
                     IF f = "enc" THEN e ELSE IF f \in F THEN Start!Missing ELSE home[f]]
    BY <1>2 DEF Start!ResetCut
  <2>2. pc = "off" /\ promised' = 0 /\ UNCHANGED <<pc, work, fresh>>
    BY <1>2 DEF Start!ResetCut, Start!Missing
  <2>3. DOMAIN home = {"env", "keys", "salt", "master", "seed", "enc", "identity", "ecdh", "trust"}
    BY DEF HomeTyped, HomeRecord
  <2>4. /\ e \in [version : Int, phrase : Int, key : Int]
        /\ e.version = 2 => e = home.enc
    BY DEF Start!Unsealed, Start!Missing, HomeTyped, HomeRecord
  <2>5. /\ home'.env = home.env /\ home'.keys = home.keys /\ home'.enc = e
        /\ \A f \in Start!Removable : home'[f] \in {0, home[f]}
    BY <2>1, <2>3 DEF Start!Removable, Start!Missing
  <2>6. HomeTyped'
    BY <2>1, <2>2, <2>3, <2>4, <2>5 DEF HomeTyped, HomeRecord, Start!Removable
  <2>7. \A x \in Int : Holds(x)' => Holds(x)
    BY <2>4, <2>5 DEF Holds, Start!Removable
  <2> QED
    BY <2>2, <2>6, <2>7 DEF OnePhrase, Loading, Sealing, Beginning, Kept, InSeed
<1>3. CASE Start!Crash
  <2> DEFINE f == Start!WrittenAt[pc]
             none == [Start!Unsealed EXCEPT !.version = Start!Torn]
             torn == [home EXCEPT ![f] = IF f = "enc" THEN none ELSE Start!Torn]
  <2>1. /\ pc' = "off" /\ work' = Start!NoWork /\ UNCHANGED <<fresh, promised>>
        /\ home' = home \/ (pc \in DOMAIN Start!WrittenAt /\ home' = torn)
        /\ cut => cut'
        /\ pc \in {"wipe", "unlink"} /\ home'.seed < 0 => cut'
    BY <1>3, Zenon DEF Start!Crash, Start!Missing
  <2>2. CASE home' = home
    <3>1. HomeTyped'
      BY <2>1, <2>2 DEF HomeTyped, HomeRecord, Start!NoWork, Start!Missing
    <3> QED
      BY <2>1, <2>2, <3>1 DEF OnePhrase, Holds, Loading, Sealing, Beginning, Kept, InSeed, InEnc
  <2>3. CASE pc \in DOMAIN Start!WrittenAt /\ home' = torn
    <3>1. /\ pc \in {"seal", "seal1", "seal2"} => f = "enc"
          /\ pc \in {"identity"} => f = "identity"
          /\ pc \in {"ecdh"} => f = "ecdh"
          /\ pc \in {"wipe", "rseed"} => f = "seed"
          /\ pc \in {"salt"} => f = "salt"
          /\ pc \in {"master", "rmaster"} => f = "master"
          /\ pc \in {"rtrust"} => f = "trust"
          /\ pc \in {"seal", "seal1", "seal2", "identity", "ecdh", "wipe", "rseed", "salt",
                     "master", "rmaster", "rtrust"}
      BY <2>3 DEF Start!WrittenAt
    <3>2. none \in [version : Int, phrase : Int, key : Int] /\ none.version = -1
      BY DEF Start!Unsealed, Start!Missing, Start!Torn
    <3> HIDE DEF f, none
    <3>3. f \in {"enc", "identity", "ecdh", "seed", "salt", "master", "trust"}
      BY <3>1
    <3>4. /\ HomeTyped'
          /\ home'.enc = IF f = "enc" THEN none ELSE home.enc
          /\ \A g \in {"identity", "ecdh", "seed", "salt", "master", "trust"} :
               home'[g] = IF f = g THEN -1 ELSE home[g]
      BY <2>1, <2>3, <3>2, <3>3 DEF HomeTyped, HomeRecord, Start!NoWork, Start!Missing, Start!Torn
    <3>5. \A x \in Int : Holds(x)' => Holds(x)
      BY <3>2, <3>4 DEF Holds
    <3>6. pc \in {"seal", "salt", "master", "rseed", "rmaster", "rtrust"} => promised = 0
      BY DEF Beginning
    <3>7. InSeed' \/ InEnc'
      <4>1. CASE pc \in {"identity", "ecdh"}
        BY <2>1, <3>1, <3>4, <4>1 DEF Kept, InSeed, InEnc
      <4>2. CASE pc \in {"seal1", "seal2"}
        BY <2>1, <3>1, <3>4, <4>2 DEF Sealing, InSeed
      <4>3. CASE pc = "wipe"
        BY <2>1, <3>1, <3>4, <4>3 DEF Sealing, InEnc
      <4> QED
        BY <2>1, <3>1, <3>6, <4>1, <4>2, <4>3 DEF InSeed
    <3>8. home'.seed < 0 => cut' \/ promised' = 0
      BY <2>1, <3>1, <3>4, <3>6 DEF Kept
    <3> QED
      BY <2>1, <3>4, <3>5, <3>7, <3>8 DEF OnePhrase, Loading, Sealing, Beginning, Kept
  <2> QED
    BY <2>1, <2>2, <2>3
<1> QED
  BY <1>1, <1>2, <1>3

LEMMA StartKept ==
  ASSUME StartInv, Start!Next
  PROVE  StartInv'
BY WritesKeepStart, SealsKeepStart, BeginKeepsStart, EndsKeepStart, Zenon DEF Start!Next

LEMMA StartSound == StartInv => Start!SeedKept /\ Start!KeysAgree
<1> SUFFICES ASSUME StartInv PROVE Start!SeedKept /\ Start!KeysAgree
  OBVIOUS
<1>1. Start!SeedKept
  BY DEF StartInv, Kept, InSeed, InEnc, Start!SeedKept, Start!Missing
<1>2. home.identity >= 1 /\ home.ecdh >= 1 => home.identity = home.ecdh
  BY DEF StartInv, OnePhrase, Holds, HomeTyped, HomeRecord
<1>3. pc = "online" => home.identity = home.seed /\ home.ecdh = home.seed
  BY DEF StartInv, Loading, OnePhrase, Holds, HomeTyped, HomeRecord
<1> QED
  BY <1>1, <1>2, <1>3 DEF Start!KeysAgree

-----------------------------------------------------------------------------
(* The store                                                                 *)

Entry == [key : StoreKeys, value : Values]
CacheFits == /\ cache \in Seq(Entry)
             /\ \A i, j \in DOMAIN cache : cache[i].key = cache[j].key => i = j

SetCall == [op : {"set"}, key : StoreKeys, value : Values,
            at : {"open", "write", "rename", "cache"}]
DeleteCall == [op : {"delete"}, key : StoreKeys, at : {"unlink", "cache"}]
GetCall == [op : {"get"}, key : StoreKeys, at : {"read"}, value : {"none"}]
               \cup [op : {"get"}, key : StoreKeys, at : {"cache"}, value : Values]
Working == SetCall \cup DeleteCall \cup GetCall
FilesTyped ==
    /\ disk \in [StoreKeys -> Values \cup {"none", "torn"}]
    /\ tmp \in [StoreKeys -> Values \cup {"none", "torn"}]
    /\ agreed \in [StoreKeys -> SUBSET (Values \cup {"none", "torn"})]
StoreTyped ==
    /\ CacheFits /\ FilesTyped
    /\ call \in [StoreCalls -> Working \cup {Store!NoCall}]
    /\ mixed \subseteq StoreKeys

\* What a call has done so far, if no other uses its key; one that only the
\* cache is left for has changed the file, and what is cached is old.
Stale(r) == r.op \in {"set", "delete"} /\ r.at = "cache"
Done(r) ==
    /\ r.op = "set" /\ r.at = "rename" => tmp[r.key] = r.value
    /\ r.op = "set" /\ r.at = "cache" => disk[r.key] = r.value
    /\ r.op = "delete" /\ r.at = "cache" => disk[r.key] = "none"
    /\ r.op = "get" /\ r.at = "cache" => disk[r.key] = r.value
Uses(c, k) == call[c].op # "none" /\ call[c].key = k

CacheAgrees(k) == \A i \in DOMAIN cache : cache[i].key = k => cache[i].value = disk[k]

KeyInv(k) ==
    /\ disk[k] # "torn" /\ disk[k] \in agreed[k]
    /\ \A c, d \in StoreCalls : Uses(c, k) /\ Uses(d, k) => c = d
    /\ \A c \in StoreCalls : Uses(c, k) => Done(call[c])
    /\ (\A c \in StoreCalls : Uses(c, k) => ~Stale(call[c])) =>
         CacheAgrees(k)

StoreInv == StoreTyped /\ \A k \in StoreKeys \ mixed : KeyInv(k)

LEMMA StoreInitially == Store!Init => StoreInv
<1> SUFFICES ASSUME Store!Init PROVE StoreInv
  OBVIOUS
<1>1. /\ disk = [k \in StoreKeys |-> "none"] /\ tmp = [k \in StoreKeys |-> "none"]
      /\ cache = <<>> /\ mixed = {}
      /\ call = [c \in StoreCalls |-> Store!NoCall]
      /\ agreed = [k \in StoreKeys |-> {"none"}]
  BY Zenon DEF Store!Init, Store!NoValue
<1>2. StoreTyped
  BY <1>1 DEF StoreTyped, FilesTyped, CacheFits
<1>3. \A c \in StoreCalls : call[c].op = "none"
  BY <1>1 DEF Store!NoCall
<1> QED
  BY <1>1, <1>2, <1>3 DEF StoreInv, KeyInv, Uses, CacheAgrees

\* What is in the cache after an entry was set or deleted.
LEMMA CacheSetFits ==
  ASSUME CacheFits, NEW k \in StoreKeys, NEW v \in Values, cache' = Store!CacheSet(k, v)
  PROVE  /\ CacheFits'
         /\ \A i \in DOMAIN cache' :
              \/ cache'[i] = [key |-> k, value |-> v]
              \/ cache'[i].key # k /\ \E j \in DOMAIN cache : cache[j] = cache'[i]
<1> DEFINE m == cacheMaxSize \div 2
           kept == IF Len(cache) >= cacheMaxSize THEN SubSeq(cache, m + 1, Len(cache)) ELSE cache
           at == {i \in DOMAIN kept : kept[i].key = k}
           entry == [key |-> k, value |-> v]
           p == CHOOSE i \in at : TRUE
<1>1. cache' = IF at # {} THEN [kept EXCEPT ![p] = entry] ELSE Append(kept, entry)
  BY Zenon DEF Store!CacheSet
<1>2. m \in Nat
  BY StoreFits
<1>3. entry \in Entry /\ entry.key = k
  BY DEF Entry
<1> HIDE DEF m, entry
<1>4. /\ kept \in Seq(Entry)
      /\ \A i \in DOMAIN kept : \E j \in DOMAIN cache : cache[j] = kept[i]
      /\ \A i, j \in DOMAIN kept : kept[i].key = kept[j].key => i = j
  <2>1. CASE kept = cache
    BY <2>1 DEF CacheFits
  <2>2. CASE kept = SubSeq(cache, m + 1, Len(cache))
    <3>1. /\ kept \in Seq(Entry)
          /\ \A i \in DOMAIN kept : m + i \in DOMAIN cache /\ cache[m + i] = kept[i] /\ i \in Int
      BY <1>2, <2>2 DEF CacheFits
    <3> HIDE DEF kept
    <3>2. \A i, j \in DOMAIN kept : kept[i].key = kept[j].key => m + i = m + j
      BY <3>1 DEF CacheFits
    <3>3. \A i, j \in DOMAIN kept : m + i = m + j => i = j
      BY <1>2, <3>1
    <3> QED
      BY <3>1, <3>2, <3>3
  <2> QED
    BY <2>1, <2>2
<1> HIDE DEF kept
<1>5. CASE at # {}
  <2>1. p \in DOMAIN kept /\ kept[p].key = k
    BY <1>5
  <2> HIDE DEF p
  <2>2. /\ cache' \in Seq(Entry) /\ DOMAIN cache' = DOMAIN kept
        /\ cache'[p] = entry
        /\ \A i \in DOMAIN kept : i # p => cache'[i] = kept[i] /\ kept[i].key # k
    BY <1>1, <1>3, <1>4, <1>5, <2>1
  <2>3. \A i, j \in DOMAIN kept : cache'[i].key = cache'[j].key => i = j
    BY <1>3, <1>4, <2>1, <2>2
  <2>4. CacheFits'
    BY <2>2, <2>3 DEF CacheFits
  <2> QED
    BY <1>3, <1>4, <2>2, <2>4 DEF entry
<1>6. CASE at = {}
  <2>1. \A i \in DOMAIN kept : kept[i].key # k
    BY <1>6
  <2>2. /\ cache' \in Seq(Entry) /\ DOMAIN cache' = DOMAIN kept \cup {Len(kept) + 1}
        /\ cache'[Len(kept) + 1] = entry
        /\ \A i \in DOMAIN kept : cache'[i] = kept[i]
    BY <1>1, <1>3, <1>4, <1>6
  <2>3. \A i, j \in DOMAIN cache' : cache'[i].key = cache'[j].key => i = j
    BY <1>3, <1>4, <2>1, <2>2
  <2>4. CacheFits'
    BY <2>2, <2>3 DEF CacheFits
  <2> QED
    BY <1>3, <1>4, <2>1, <2>2, <2>4 DEF entry
<1> QED
  BY <1>5, <1>6

LEMMA CacheDeleteFits ==
  ASSUME CacheFits, NEW k \in StoreKeys, cache' = Store!CacheDelete(k)
  PROVE  /\ CacheFits'
         /\ \A i \in DOMAIN cache' :
              cache'[i].key # k /\ \E j \in DOMAIN cache : cache[j] = cache'[i]
<1> DEFINE at == Store!Cached(k)
           p == CHOOSE i \in at : TRUE
<1>1. cache' = IF at = {} THEN cache ELSE SubSeq(cache, 1, p - 1) \o SubSeq(cache, p + 1, Len(cache))
  BY Zenon DEF Store!CacheDelete
<1>2. at = {i \in DOMAIN cache : cache[i].key = k}
  BY DEF Store!Cached
<1> HIDE DEF at
<1>3. CASE at = {}
  <2>1. cache' = cache
    BY <1>1, <1>3
  <2> QED
    BY <1>2, <1>3, <2>1 DEF CacheFits
<1>4. CASE at # {}
  <2>1. p \in 1..Len(cache) /\ cache[p].key = k
    BY <1>2, <1>4 DEF CacheFits
  <2>2. cache' = SubSeq(cache, 1, p - 1) \o SubSeq(cache, p + 1, Len(cache))
    BY <1>1, <1>4
  <2> HIDE DEF p
  <2> DEFINE old(i) == IF i < p THEN i ELSE i + 1
  <2>3. /\ cache' \in Seq(Entry)
        /\ \A i \in DOMAIN cache' : i \in Int /\ old(i) \in DOMAIN cache /\ old(i) # p
                                    /\ cache'[i] = cache[old(i)]
    <3> DEFINE a == SubSeq(cache, 1, p - 1)
               b == SubSeq(cache, p + 1, Len(cache))
    <3>1. a \in Seq(Entry) /\ Len(a) = p - 1 /\ \A i \in 1..(p - 1) : a[i] = cache[i]
      BY <2>1 DEF CacheFits
    <3>2. /\ b \in Seq(Entry) /\ Len(b) = Len(cache) - p
          /\ \A i \in 1..(Len(cache) - p) : b[i] = cache[p + i]
      BY <2>1 DEF CacheFits
    <3>3. cache' = a \o b /\ Len(cache) \in Nat /\ DOMAIN cache = 1..Len(cache)
      BY <2>2 DEF CacheFits
    <3> HIDE DEF a, b
    <3>4. /\ cache' \in Seq(Entry) /\ DOMAIN cache' = 1..(Len(cache) - 1)
          /\ \A i \in 1..(p - 1) : cache'[i] = a[i]
          /\ \A i \in p..(Len(cache) - 1) : cache'[i] = b[i - p + 1]
      BY <2>1, <3>1, <3>2, <3>3
    <3>5. \A i \in p..(Len(cache) - 1) : cache'[i] = cache[i + 1]
      <4>1. ASSUME NEW i \in p..(Len(cache) - 1)
            PROVE  i - p + 1 \in 1..(Len(cache) - p) /\ p + (i - p + 1) = i + 1
        BY <2>1
      <4> QED
        BY <3>2, <3>4, <4>1
    <3>6. ASSUME NEW i \in DOMAIN cache'
          PROVE  /\ i \in Int /\ old(i) \in DOMAIN cache /\ old(i) # p
                 /\ cache'[i] = cache[old(i)]
      <4>1. i \in 1..(Len(cache) - 1) /\ i \in Int
        BY <2>1, <3>4
      <4>2. CASE i < p
        <5>1. i \in 1..(p - 1) /\ old(i) = i /\ i \in DOMAIN cache
          BY <2>1, <3>3, <4>1, <4>2
        <5> QED
          BY <3>1, <3>4, <4>1, <4>2, <5>1
      <4>3. CASE i >= p
        BY <2>1, <3>3, <3>5, <4>1, <4>3
      <4> QED
        BY <2>1, <4>1, <4>2, <4>3
    <3> QED
      BY <3>4, <3>6
  <2>4. \A i, j \in Int : old(i) = old(j) => i = j
    BY <2>1
  <2> HIDE DEF old
  <2>5. \A i, j \in DOMAIN cache' : cache'[i].key = cache'[j].key => i = j
    BY <2>3, <2>4 DEF CacheFits
  <2>6. \A i \in DOMAIN cache' : cache'[i].key # k
    BY <2>1, <2>3 DEF CacheFits
  <2> QED
    BY <2>3, <2>5, <2>6 DEF CacheFits
<1> QED
  BY <1>3, <1>4

\* A key whose file and calls are as they were keeps its part.
LEMMA OtherKeys ==
  ASSUME NEW k, KeyInv(k),
         disk'[k] = disk[k], tmp'[k] = tmp[k], agreed'[k] = agreed[k],
         \A c \in StoreCalls : /\ Uses(c, k)' <=> Uses(c, k)
                               /\ Uses(c, k) => call'[c] = call[c],
         \A i \in DOMAIN cache' :
             cache'[i].key = k => \E j \in DOMAIN cache : cache[j] = cache'[i]
  PROVE  KeyInv(k)'
BY DEF KeyInv, Done, Stale, Uses, CacheAgrees

\* A call goes from one step to the next, or ends.
LEMMA CallGoes ==
  ASSUME StoreTyped, NEW c \in StoreCalls, NEW r \in Working \cup {Store!NoCall},
         call' = [call EXCEPT ![c] = r], call[c].op # "none",
         r # Store!NoCall => r.key = call[c].key
  PROVE  /\ call' \in [StoreCalls -> Working \cup {Store!NoCall}]
         /\ call'[c] = r /\ \A d \in StoreCalls : d # c => call'[d] = call[d]
         /\ call[c].key \in StoreKeys
         /\ \A k : k # call[c].key =>
              \A d \in StoreCalls : /\ Uses(d, k)' <=> Uses(d, k)
                                    /\ Uses(d, k) => call'[d] = call[d]
         /\ \A k, d : d # c /\ d \in StoreCalls => (Uses(d, k)' <=> Uses(d, k))
         /\ \A k : k = call[c].key => Uses(c, k) /\ (Uses(c, k)' <=> r # Store!NoCall)
<1>1. call[c] \in Working /\ call[c].key \in StoreKeys
  BY DEF StoreTyped, Store!NoCall, Working, SetCall, DeleteCall, GetCall
<1>2. /\ call' \in [StoreCalls -> Working \cup {Store!NoCall}]
      /\ call'[c] = r /\ \A d \in StoreCalls : d # c => call'[d] = call[d]
  BY DEF StoreTyped
<1>3. r = Store!NoCall => r.op = "none"
  BY DEF Store!NoCall
<1>4. r \in Working => r.op # "none" /\ r # Store!NoCall
  BY <1>3 DEF Working, SetCall, DeleteCall, GetCall
<1> QED
  BY <1>1, <1>2, <1>3, <1>4 DEF Uses

LEMMA BeginKeepsStore ==
  ASSUME StoreInv, NEW c \in StoreCalls, NEW k \in StoreKeys, NEW r \in Working,
         r.key = k, r.at \notin {"rename", "cache"}, Store!Begin(c, k, r)
  PROVE  StoreInv'
<1>1. /\ call[c] = Store!NoCall /\ call' = [call EXCEPT ![c] = r]
      /\ mixed' = IF Store!Busy(k) THEN mixed \cup {k} ELSE mixed
      /\ UNCHANGED <<disk, tmp, cache, agreed>>
  BY DEF Store!Begin
<1>2. /\ call' \in [StoreCalls -> Working \cup {Store!NoCall}]
      /\ call'[c] = r /\ \A d \in StoreCalls : d # c => call'[d] = call[d]
  BY <1>1 DEF StoreInv, StoreTyped
<1>3. Store!NoCall.op = "none"
  BY DEF Store!NoCall
<1>4. StoreTyped'
  BY <1>1, <1>2 DEF StoreInv, StoreTyped, FilesTyped, CacheFits
<1>5. ASSUME NEW i \in StoreKeys \ mixed' PROVE KeyInv(i)'
  <2>1. i \notin mixed /\ KeyInv(i)
    BY <1>1, <1>5 DEF StoreInv
  <2>2. CASE i # k
    BY <1>1, <1>2, <1>3, <2>1, <2>2, OtherKeys DEF Uses
  <2>3. CASE i = k
    <3>1. ~Store!Busy(k)
      BY <1>1, <1>5, <2>3
    <3>2. \A d \in StoreCalls : ~Uses(d, k)
      BY <1>3, <3>1 DEF Store!Busy, Uses
    <3>3. \A d \in StoreCalls : Uses(d, k)' => d = c
      BY <1>2, <3>2 DEF Uses
    <3>4. r.at \notin {"rename", "cache"} /\ call'[c] = r
      BY <1>2
    <3>5. \A j \in DOMAIN cache : cache[j].key = k => cache[j].value = disk[k]
      BY <2>1, <2>3, <3>2 DEF KeyInv, CacheAgrees
    <3> QED
      BY <1>1, <2>1, <2>3, <3>3, <3>4, <3>5 DEF KeyInv, Done, CacheAgrees
  <2> QED
    BY <2>2, <2>3
<1> QED
  BY <1>4, <1>5 DEF StoreInv

LEMMA BeginsKeepStore ==
  ASSUME StoreInv, NEW c \in StoreCalls, NEW k \in StoreKeys,
         Store!Delete(c, k) \/ Store!Get(c, k) \/ \E v \in Values : Store!Set(c, k, v)
  PROVE  StoreInv'
<1>1. CASE Store!Delete(c, k)
  <2> DEFINE r == [op |-> "delete", key |-> k, at |-> "unlink"]
  <2>1. r \in Working
    BY DEF Working, DeleteCall
  <2> QED
    BY <1>1, <2>1, BeginKeepsStore DEF Store!Delete
<1>2. CASE Store!Get(c, k)
  <2> DEFINE r == [op |-> "get", key |-> k, at |-> "read", value |-> "none"]
  <2>1. r \in Working /\ Store!Begin(c, k, r)
    BY <1>2 DEF Working, GetCall, Store!Get, Store!NoValue
  <2> QED
    BY <2>1, BeginKeepsStore
<1>3. ASSUME NEW v \in Values, Store!Set(c, k, v) PROVE StoreInv'
  <2> DEFINE r == [op |-> "set", key |-> k, value |-> v, at |-> "open"]
  <2>1. r \in Working
    BY DEF Working, SetCall
  <2> QED
    BY <1>3, <2>1, BeginKeepsStore DEF Store!Set
<1> QED
  BY <1>1, <1>2, <1>3

\* What a call may rely on if no other uses its key, and what its step, after
\* which it is r, must leave behind.
Allowed(q) == /\ disk[q.key] # "torn" /\ disk[q.key] \in agreed[q.key] /\ Done(q)
              /\ Stale(q) \/ CacheAgrees(q.key)
Leaves(q, r) == /\ disk'[q.key] # "torn" /\ disk'[q.key] \in agreed'[q.key]
                /\ r = Store!NoCall \/ Done(r)'
                /\ (r # Store!NoCall /\ Stale(r)) \/ CacheAgrees(q.key)'
Spares(q) ==
    \A k \in StoreKeys \ {q.key} :
      /\ disk'[k] = disk[k] /\ tmp'[k] = tmp[k] /\ agreed'[k] = agreed[k]
      /\ \A i \in DOMAIN cache' :
           cache'[i].key = k => \E j \in DOMAIN cache : cache[j] = cache'[i]

\* What a step of the call c must show to keep StoreInv: the types, and what it
\* has done to the file, the cache and the promise of its key.
LEMMA StepKeepsStore ==
  ASSUME StoreInv, NEW c \in StoreCalls, NEW q \in Working, q = call[c],
         NEW r \in Working \cup {Store!NoCall},
         call' = [call EXCEPT ![c] = r], UNCHANGED mixed,
         r # Store!NoCall => r.key = q.key,
         CacheFits', FilesTyped', Spares(q),
         Allowed(q) => Leaves(q, r)
  PROVE  StoreInv'
<1>1. call[c].op # "none" /\ call[c].key = q.key
  BY DEF Working, SetCall, DeleteCall, GetCall
<1>2. /\ call'[c] = r
      /\ \A k : k = q.key => Uses(c, k) /\ (Uses(c, k)' <=> r # Store!NoCall)
      /\ \A k, d : d # c /\ d \in StoreCalls => (Uses(d, k)' <=> Uses(d, k))
  BY <1>1, CallGoes DEF StoreInv
<1>3. StoreTyped'
  BY <1>1, CallGoes DEF StoreInv, StoreTyped
<1>4. ASSUME NEW k \in StoreKeys \ mixed' PROVE KeyInv(k)'
  <2>1. k \notin mixed /\ KeyInv(k)
    BY <1>4 DEF StoreInv
  <2>2. CASE k # q.key
    <3>1. \A d \in StoreCalls : /\ Uses(d, k)' <=> Uses(d, k)
                                /\ Uses(d, k) => call'[d] = call[d]
      BY <1>1, <2>2, CallGoes DEF StoreInv
    <3> QED
      BY <2>1, <2>2, <3>1, OtherKeys DEF Spares
  <2>3. CASE k = q.key
    <3>1. /\ call'[c] = r /\ Uses(c, k) /\ (Uses(c, k)' <=> r # Store!NoCall)
          /\ \A d \in StoreCalls : d # c => (Uses(d, k)' <=> Uses(d, k))
      BY <1>2, <2>3, Zenon
    <3>2. \A d \in StoreCalls : Uses(d, k) => d = c
      BY <2>1, <3>1 DEF KeyInv
    <3>3. \A d \in StoreCalls : Uses(d, k)' => d = c
      BY <3>1, <3>2
    <3>4. Allowed(q)
      BY <1>1, <2>1, <2>3, <3>1, <3>2 DEF KeyInv, Allowed
    <3>5. Leaves(q, r)
      BY <3>4
    <3> QED
      BY <2>3, <3>1, <3>3, <3>5 DEF Leaves, KeyInv, Stale, Done
  <2> QED
    BY <2>2, <2>3
<1> QED
  BY <1>3, <1>4 DEF StoreInv

\* Where a call stands.
LEMMA CallTyped ==
  ASSUME StoreTyped, NEW c \in StoreCalls
  PROVE  /\ call[c].op = "set" => call[c] \in SetCall
         /\ call[c].op = "delete" => call[c] \in DeleteCall
         /\ call[c].op = "get" => call[c] \in GetCall
BY DEF StoreTyped, Store!NoCall, Working, SetCall, DeleteCall, GetCall

LEMMA NoCallStays == Store!NoCall \in Working \cup {Store!NoCall}
OBVIOUS

LEMMA SetKeepsStore ==
  ASSUME StoreInv, NEW c \in StoreCalls, Store!SetNext(c) \/ Store!SetFails(c)
  PROVE  StoreInv'
<1>1. call[c].op = "set" /\ call[c] \in SetCall
  BY CallTyped DEF StoreInv, Store!SetNext, Store!SetFails
<1>2. PICK q \in SetCall : q = call[c]
  BY <1>1
<1>3. q \in Working /\ q.key \in StoreKeys /\ q.value \in Values /\ q.op = "set" /\ call[c].key = q.key
  BY <1>2 DEF Working, SetCall
<1>4. /\ StoreTyped /\ CacheFits
      /\ disk \in [StoreKeys -> Values \cup {"none", "torn"}]
      /\ tmp \in [StoreKeys -> Values \cup {"none", "torn"}]
      /\ agreed \in [StoreKeys -> SUBSET (Values \cup {"none", "torn"})]
  BY DEF StoreInv, StoreTyped, FilesTyped
<1>5. UNCHANGED <<cache>> =>
        CacheFits' /\ \A i \in DOMAIN cache' : \E j \in DOMAIN cache : cache[j] = cache'[i]
  BY <1>4 DEF CacheFits
<1>6. \/ /\ q.at = "open" /\ tmp' = [tmp EXCEPT ![q.key] = "torn"]
         /\ Store!Goes(c, [q EXCEPT !.at = "write"]) /\ UNCHANGED <<disk, cache, agreed>>
      \/ /\ q.at = "write" /\ tmp' = [tmp EXCEPT ![q.key] = q.value]
         /\ Store!Goes(c, [q EXCEPT !.at = "rename"]) /\ UNCHANGED <<disk, cache, agreed>>
      \/ /\ q.at = "rename" /\ disk' = [disk EXCEPT ![q.key] = tmp[q.key]]
         /\ tmp' = [tmp EXCEPT ![q.key] = "none"]
         /\ agreed' = [agreed EXCEPT ![q.key] = @ \cup {q.value}]
         /\ Store!Goes(c, [q EXCEPT !.at = "cache"]) /\ UNCHANGED cache
      \/ /\ q.at # "cache"
         /\ Store!Goes(c, Store!NoCall) /\ UNCHANGED <<disk, tmp, cache, agreed>>
      \/ /\ q.at = "cache" /\ cache' = Store!CacheSet(q.key, q.value)
         /\ agreed' = [agreed EXCEPT ![q.key] = {q.value}]
         /\ Store!Goes(c, Store!NoCall) /\ UNCHANGED <<disk, tmp>>
  <2>1. q.at \in {"open", "write", "rename", "cache"}
    BY DEF SetCall
  <2>2. CASE Store!SetFails(c)
    BY <1>2, <2>2 DEF Store!SetFails
  <2>3. CASE Store!SetNext(c)
    BY <1>2, <2>1, <2>3 DEF Store!SetNext, Store!NoValue, Store!Torn
  <2> QED
    BY <2>2, <2>3
<1>7. ASSUME NEW at \in {"write", "rename", "cache"}
      PROVE  /\ [q EXCEPT !.at = at] \in SetCall /\ [q EXCEPT !.at = at].key = q.key
             /\ [q EXCEPT !.at = at].value = q.value /\ [q EXCEPT !.at = at].at = at
             /\ [q EXCEPT !.at = at].op = "set" /\ [q EXCEPT !.at = at] # Store!NoCall
  BY <1>3 DEF SetCall, Store!NoCall
<1>8. ASSUME NEW at \in {"write", "rename"}, NEW v \in Values \cup {"torn"},
             at = "rename" => v = q.value,
             tmp' = [tmp EXCEPT ![q.key] = v],
             Store!Goes(c, [q EXCEPT !.at = at]), UNCHANGED <<disk, cache, agreed>>,
             q.at # "cache"
      PROVE  StoreInv'
  <2> DEFINE n == [q EXCEPT !.at = at]
  <2>1. n \in Working /\ n.key = q.key /\ n.value = q.value /\ n.at = at /\ n.op = "set"
    BY <1>7 DEF Working
  <2>2. call' = [call EXCEPT ![c] = n] /\ UNCHANGED mixed
    BY <1>8 DEF Store!Goes
  <2> HIDE DEF n
  <2>3. ~Stale(q)
    BY <1>8 DEF Stale
  <2>4. Done(n)'
    BY <1>3, <1>4, <1>8, <2>1 DEF Done
  <2>5. Allowed(q) => Leaves(q, n)
    BY <1>8, <2>3, <2>4 DEF Allowed, Leaves, CacheAgrees
  <2>6. /\ tmp' \in [StoreKeys -> Values \cup {"none", "torn"}]
        /\ \A k \in StoreKeys : k # q.key => tmp'[k] = tmp[k]
    BY <1>4, <1>8
  <2>7. CacheFits' /\ FilesTyped' /\ Spares(q)
    BY <1>1, <1>2, <1>3, <1>4, <1>5, <1>8, <2>1, <2>2, <2>3, <2>4, <2>5, <2>6 DEF FilesTyped, Spares
  <2> QED
    BY <1>1, <1>2, <1>3, <1>8, <2>1, <2>2, <2>3, <2>4, <2>5, <2>6, <2>7, StepKeepsStore
<1>9. ASSUME q.at = "rename", disk' = [disk EXCEPT ![q.key] = tmp[q.key]],
             tmp' = [tmp EXCEPT ![q.key] = "none"],
             agreed' = [agreed EXCEPT ![q.key] = @ \cup {q.value}],
             Store!Goes(c, [q EXCEPT !.at = "cache"]), UNCHANGED cache
      PROVE  StoreInv'
  <2> DEFINE n == [q EXCEPT !.at = "cache"]
  <2>1. n \in Working /\ n.key = q.key /\ n.value = q.value /\ n.at = "cache" /\ n.op = "set"
    BY <1>7 DEF Working
  <2>2. call' = [call EXCEPT ![c] = n] /\ UNCHANGED mixed
    BY <1>9 DEF Store!Goes
  <2> HIDE DEF n
  <2>3. /\ disk' \in [StoreKeys -> Values \cup {"none", "torn"}]
        /\ tmp' \in [StoreKeys -> Values \cup {"none", "torn"}]
        /\ agreed' \in [StoreKeys -> SUBSET (Values \cup {"none", "torn"})]
        /\ disk'[q.key] = tmp[q.key] /\ q.value \in agreed'[q.key]
        /\ \A k \in StoreKeys : k # q.key =>
             disk'[k] = disk[k] /\ tmp'[k] = tmp[k] /\ agreed'[k] = agreed[k]
    BY <1>3, <1>4, <1>9
  <2>4. Done(q) => tmp[q.key] = q.value /\ q.value # "torn"
    BY <1>3, <1>9, StoreFits DEF Done
  <2>5. Done(q) => Done(n)' /\ Stale(n)
    BY <2>1, <2>3, <2>4 DEF Done, Stale
  <2>6. Allowed(q) => Leaves(q, n)
    BY <2>1, <2>3, <2>4, <2>5 DEF Allowed, Leaves, Store!NoCall
  <2>7. CacheFits' /\ FilesTyped' /\ Spares(q)
    BY <1>2, <1>3, <1>4, <1>5, <1>9, <2>1, <2>2, <2>3, <2>6 DEF FilesTyped, Spares
  <2> QED
    BY <1>2, <1>3, <1>9, <2>1, <2>2, <2>3, <2>6, <2>7, StepKeepsStore
<1>10. ASSUME q.at # "cache", Store!Goes(c, Store!NoCall), UNCHANGED <<disk, tmp, cache, agreed>>
       PROVE  StoreInv'
  <2>1. call' = [call EXCEPT ![c] = Store!NoCall] /\ UNCHANGED mixed
    BY <1>10 DEF Store!Goes
  <2>2. ~Stale(q)
    BY <1>10 DEF Stale
  <2>3. Allowed(q) => Leaves(q, Store!NoCall)
    BY <1>10, <2>2 DEF Allowed, Leaves, CacheAgrees
  <2>4. CacheFits' /\ FilesTyped' /\ Spares(q)
    BY <1>2, <1>3, <1>4, <1>5, <1>10, <2>1, <2>3 DEF FilesTyped, Spares
  <2> QED
    BY <1>2, <1>3, <1>10, <2>1, <2>3, NoCallStays, <2>4, StepKeepsStore
<1>11. ASSUME q.at = "cache", cache' = Store!CacheSet(q.key, q.value),
              agreed' = [agreed EXCEPT ![q.key] = {q.value}],
              Store!Goes(c, Store!NoCall), UNCHANGED <<disk, tmp>>
       PROVE  StoreInv'
  <2>1. call' = [call EXCEPT ![c] = Store!NoCall] /\ UNCHANGED mixed
    BY <1>11 DEF Store!Goes
  <2>2. /\ CacheFits'
        /\ \A i \in DOMAIN cache' :
             \/ cache'[i] = [key |-> q.key, value |-> q.value]
             \/ cache'[i].key # q.key /\ \E j \in DOMAIN cache : cache[j] = cache'[i]
    BY <1>3, <1>4, <1>11, CacheSetFits
  <2>3. \A i \in DOMAIN cache' :
          /\ cache'[i].key = q.key => cache'[i].value = q.value
          /\ cache'[i].key # q.key => \E j \in DOMAIN cache : cache[j] = cache'[i]
    BY <2>2
  <2>4. /\ agreed' \in [StoreKeys -> SUBSET (Values \cup {"none", "torn"})]
        /\ agreed'[q.key] = {q.value}
        /\ \A k \in StoreKeys : k # q.key => agreed'[k] = agreed[k]
    BY <1>3, <1>4, <1>11
  <2>5. Done(q) => disk[q.key] = q.value /\ q.value # "torn"
    BY <1>3, <1>11, StoreFits DEF Done
  <2>6. Allowed(q) => Leaves(q, Store!NoCall)
    BY <1>11, <2>3, <2>4, <2>5 DEF Allowed, Leaves, CacheAgrees
  <2>7. CacheFits' /\ FilesTyped' /\ Spares(q)
    BY <1>2, <1>3, <1>4, <1>11, <2>1, <2>2, <2>3, <2>4, <2>6 DEF FilesTyped, Spares
  <2> QED
    BY <1>2, <1>3, <1>11, <2>1, <2>2, <2>3, <2>4, <2>6, NoCallStays, <2>7, StepKeepsStore
<1> QED
  BY <1>4, <1>6, <1>8, <1>9, <1>10, <1>11, <1>3

LEMMA DeleteKeepsStore ==
  ASSUME StoreInv, NEW c \in StoreCalls, Store!DeleteNext(c)
  PROVE  StoreInv'
<1>1. call[c].op = "delete" /\ call[c] \in DeleteCall
  BY CallTyped DEF StoreInv, Store!DeleteNext
<1>2. PICK q \in DeleteCall : q = call[c]
  BY <1>1
<1>3. q \in Working /\ q.key \in StoreKeys /\ q.op = "delete" /\ call[c].key = q.key
  BY <1>2 DEF Working, DeleteCall
<1>4. /\ StoreTyped /\ CacheFits
      /\ disk \in [StoreKeys -> Values \cup {"none", "torn"}]
      /\ tmp \in [StoreKeys -> Values \cup {"none", "torn"}]
      /\ agreed \in [StoreKeys -> SUBSET (Values \cup {"none", "torn"})]
  BY DEF StoreInv, StoreTyped, FilesTyped
<1>5. UNCHANGED <<cache>> =>
        CacheFits' /\ \A i \in DOMAIN cache' : \E j \in DOMAIN cache : cache[j] = cache'[i]
  BY <1>4 DEF CacheFits
<1>6. CASE q.at = "unlink"
  <2> DEFINE m == IF disk[q.key] = "none" THEN Store!NoCall ELSE [q EXCEPT !.at = "cache"]
  <2>1. /\ disk' = [disk EXCEPT ![q.key] = "none"]
        /\ agreed' = [agreed EXCEPT ![q.key] = @ \cup {"none"}]
        /\ call' = [call EXCEPT ![c] = m] /\ UNCHANGED <<tmp, cache, mixed>>
    BY <1>2, <1>6 DEF Store!DeleteNext, Store!Goes, Store!NoValue
  <2>2. /\ [q EXCEPT !.at = "cache"] \in DeleteCall /\ [q EXCEPT !.at = "cache"].key = q.key
        /\ [q EXCEPT !.at = "cache"].at = "cache"
    BY <1>3 DEF DeleteCall
  <2>3. /\ m \in DeleteCall \cup {Store!NoCall}
        /\ disk[q.key] = "none" => m = Store!NoCall
        /\ disk[q.key] # "none" => m \in DeleteCall /\ m.key = q.key /\ m.at = "cache"
    BY <2>2
  <2> HIDE DEF m
  <2>4. PICK n \in DeleteCall \cup {Store!NoCall} : n = m
    BY <2>3
  <2>5. /\ n \in Working \cup {Store!NoCall} /\ call' = [call EXCEPT ![c] = n]
        /\ disk[q.key] = "none" => n = Store!NoCall
        /\ disk[q.key] # "none" => n.op = "delete" /\ n.key = q.key /\ n.at = "cache"
    BY <2>1, <2>3, <2>4 DEF Working, DeleteCall
  <2>6. /\ disk' \in [StoreKeys -> Values \cup {"none", "torn"}]
        /\ agreed' \in [StoreKeys -> SUBSET (Values \cup {"none", "torn"})]
        /\ disk'[q.key] = "none" /\ "none" \in agreed'[q.key]
        /\ \A k \in StoreKeys : k # q.key => disk'[k] = disk[k] /\ agreed'[k] = agreed[k]
    BY <1>3, <1>4, <2>1
  <2>7. /\ n # Store!NoCall => n.op = "delete" /\ n.at = "cache" /\ n.key = q.key
        /\ n = Store!NoCall => disk'[q.key] = disk[q.key]
    BY <2>5, <2>6 DEF Store!NoCall
  <2>8. n # Store!NoCall => Done(n)' /\ Stale(n)
    BY <2>6, <2>7 DEF Done, Stale
  <2>9. Allowed(q) => Leaves(q, n)
    <3>1. ~Stale(q)
      BY <1>6 DEF Stale
    <3> QED
      BY <2>1, <2>6, <2>7, <2>8, <3>1 DEF Allowed, Leaves, CacheAgrees
  <2>10. CacheFits' /\ FilesTyped' /\ Spares(q)
    BY <1>2, <1>3, <1>4, <1>5, <2>1, <2>5, <2>6, <2>7, <2>9 DEF FilesTyped, Spares
  <2> QED
    BY <1>2, <1>3, <2>1, <2>5, <2>7, <2>9, <2>10, StepKeepsStore
<1>7. CASE q.at # "unlink"
  <2>1. /\ cache' = Store!CacheDelete(q.key)
        /\ agreed' = [agreed EXCEPT ![q.key] = {"none"}]
        /\ call' = [call EXCEPT ![c] = Store!NoCall] /\ UNCHANGED <<disk, tmp, mixed>>
    BY <1>2, <1>7 DEF Store!DeleteNext, Store!Goes, Store!NoValue
  <2>2. /\ CacheFits'
        /\ \A i \in DOMAIN cache' :
             cache'[i].key # q.key /\ \E j \in DOMAIN cache : cache[j] = cache'[i]
    BY <1>3, <1>4, <2>1, CacheDeleteFits
  <2>3. /\ agreed' \in [StoreKeys -> SUBSET (Values \cup {"none", "torn"})]
        /\ agreed'[q.key] = {"none"}
        /\ \A k \in StoreKeys : k # q.key => agreed'[k] = agreed[k]
    BY <1>3, <1>4, <2>1
  <2>4. Done(q) => disk[q.key] = "none"
    BY <1>2, <1>3, <1>7 DEF Done, DeleteCall
  <2>5. Allowed(q) => Leaves(q, Store!NoCall)
    BY <2>1, <2>2, <2>3, <2>4 DEF Allowed, Leaves, CacheAgrees
  <2>6. CacheFits' /\ FilesTyped' /\ Spares(q)
    BY <1>2, <1>3, <1>4, <2>1, <2>2, <2>3, <2>5 DEF FilesTyped, Spares
  <2> QED
    BY <1>2, <1>3, <2>1, <2>2, <2>3, <2>5, NoCallStays, <2>6, StepKeepsStore
<1> QED
  BY <1>6, <1>7

LEMMA GetKeepsStore ==
  ASSUME StoreInv, NEW c \in StoreCalls, Store!GetNext(c)
  PROVE  StoreInv'
<1>1. call[c].op = "get" /\ call[c] \in GetCall
  BY CallTyped DEF StoreInv, Store!GetNext
<1>2. PICK q \in GetCall : q = call[c]
  BY <1>1
<1>3. q \in Working /\ q.key \in StoreKeys /\ q.op = "get" /\ call[c].key = q.key /\ ~Stale(q)
  BY <1>2 DEF Working, GetCall, Stale
<1>4. /\ StoreTyped /\ CacheFits /\ UNCHANGED <<disk, tmp, agreed>>
      /\ disk \in [StoreKeys -> Values \cup {"none", "torn"}]
      /\ tmp \in [StoreKeys -> Values \cup {"none", "torn"}]
      /\ agreed \in [StoreKeys -> SUBSET (Values \cup {"none", "torn"})]
  BY DEF StoreInv, StoreTyped, FilesTyped, Store!GetNext
<1>5. UNCHANGED <<cache>> =>
        CacheFits' /\ \A i \in DOMAIN cache' : \E j \in DOMAIN cache : cache[j] = cache'[i]
  BY <1>4 DEF CacheFits
<1>6. CASE q.at = "read"
  <2> DEFINE filled == [q EXCEPT !.at = "cache", !.value = disk[q.key]]
             m == IF disk[q.key] \in {"none", "torn"} THEN Store!NoCall ELSE filled
  <2>1. call' = [call EXCEPT ![c] = m] /\ UNCHANGED <<cache, mixed>>
    BY <1>2, <1>6 DEF Store!GetNext, Store!Goes, Store!NoValue, Store!Torn
  <2>2. disk[q.key] \notin {"none", "torn"} => disk[q.key] \in Values
    BY <1>3, <1>4
  <2>3. ASSUME disk[q.key] \in Values
        PROVE  /\ filled \in GetCall /\ filled.key = q.key /\ filled.value = disk[q.key]
               /\ filled.at = "cache" /\ filled.op = "get"
    <3>1. q \in [op : {"get"}, key : {q.key}, at : {"read"}, value : {"none"}]
      BY <1>2, <1>6 DEF GetCall
    <3> QED
      BY <1>3, <2>3, <3>1 DEF GetCall
  <2> HIDE DEF filled
  <2>4. /\ m \in Working \cup {Store!NoCall}
        /\ m # Store!NoCall => /\ m.key = q.key /\ m.value = disk[q.key]
                               /\ m.at = "cache" /\ m.op = "get"
    BY <2>2, <2>3 DEF Working
  <2> HIDE DEF m
  <2>5. PICK n \in Working \cup {Store!NoCall} : n = m
    BY <2>4
  <2>6. n # Store!NoCall => Done(n)' /\ ~Stale(n) /\ n.key = q.key
    BY <1>4, <2>4, <2>5 DEF Done, Stale
  <2>7. Allowed(q) => Leaves(q, n)
    BY <1>3, <1>4, <2>1, <2>6 DEF Allowed, Leaves, CacheAgrees
  <2>8. CacheFits' /\ FilesTyped' /\ Spares(q)
    BY <1>2, <1>3, <1>4, <1>5, <2>1, <2>5, <2>6, <2>7 DEF FilesTyped, Spares
  <2> QED
    BY <1>2, <1>3, <2>1, <2>5, <2>6, <2>7, <2>8, StepKeepsStore
<1>7. CASE q.at # "read"
  <2>1. /\ cache' = Store!CacheSet(q.key, q.value)
        /\ call' = [call EXCEPT ![c] = Store!NoCall] /\ UNCHANGED mixed
    BY <1>2, <1>7 DEF Store!GetNext, Store!Goes
  <2>2. q.value \in Values /\ q.at = "cache"
    BY <1>2, <1>7 DEF GetCall
  <2>3. /\ CacheFits'
        /\ \A i \in DOMAIN cache' :
             \/ cache'[i] = [key |-> q.key, value |-> q.value]
             \/ cache'[i].key # q.key /\ \E j \in DOMAIN cache : cache[j] = cache'[i]
    BY <1>3, <1>4, <2>1, <2>2, CacheSetFits
  <2>4. \A i \in DOMAIN cache' :
          /\ cache'[i].key = q.key => cache'[i].value = q.value
          /\ cache'[i].key # q.key => \E j \in DOMAIN cache : cache[j] = cache'[i]
    BY <2>3
  <2>5. Done(q) => disk[q.key] = q.value
    BY <1>3, <2>2 DEF Done
  <2>6. Allowed(q) => Leaves(q, Store!NoCall)
    BY <1>4, <2>4, <2>5 DEF Allowed, Leaves, CacheAgrees
  <2>7. CacheFits' /\ FilesTyped' /\ Spares(q)
    BY <1>2, <1>3, <1>4, <2>1, <2>3, <2>4, <2>6 DEF FilesTyped, Spares
  <2> QED
    BY <1>2, <1>3, <2>1, <2>3, <2>4, <2>6, NoCallStays, <2>7, StepKeepsStore
<1> QED
  BY <1>6, <1>7

LEMMA StoreKept ==
  ASSUME StoreInv, Store!Next
  PROVE  StoreInv'
<1>1. CASE Store!ClearCache
  <2>1. cache' = <<>> /\ UNCHANGED <<disk, tmp, call, agreed, mixed>>
    BY <1>1 DEF Store!ClearCache
  <2>2. StoreTyped'
    BY <2>1 DEF StoreInv, StoreTyped, FilesTyped, CacheFits
  <2>3. ASSUME NEW k \in StoreKeys \ mixed PROVE KeyInv(k)'
    BY <2>1, <2>3 DEF StoreInv, KeyInv, Done, Uses, CacheAgrees
  <2> QED
    BY <2>1, <2>2, <2>3 DEF StoreInv
<1>2. CASE Store!Crash
  <2>1. /\ cache' = <<>> /\ call' = [c \in StoreCalls |-> Store!NoCall]
        /\ UNCHANGED <<disk, tmp, agreed, mixed>>
    BY <1>2 DEF Store!Crash
  <2>2. StoreTyped'
    BY <2>1 DEF StoreInv, StoreTyped, FilesTyped, CacheFits
  <2>3. \A c \in StoreCalls : call'[c].op = "none"
    BY <2>1 DEF Store!NoCall
  <2>4. ASSUME NEW k \in StoreKeys \ mixed PROVE KeyInv(k)'
    BY <2>1, <2>3, <2>4 DEF StoreInv, KeyInv, Uses, CacheAgrees
  <2> QED
    BY <2>1, <2>2, <2>4 DEF StoreInv
<1>3. ASSUME NEW c \in StoreCalls, NEW k \in StoreKeys,
             Store!Delete(c, k) \/ Store!Get(c, k) \/ \E v \in Values : Store!Set(c, k, v)
      PROVE  StoreInv'
  BY <1>3, BeginsKeepStore
<1>4. ASSUME NEW c \in StoreCalls,
             Store!SetNext(c) \/ Store!SetFails(c) \/ Store!DeleteNext(c) \/ Store!GetNext(c)
      PROVE  StoreInv'
  BY <1>4, SetKeepsStore, DeleteKeepsStore, GetKeepsStore
<1> QED
  BY <1>1, <1>2, <1>3, <1>4, Zenon DEF Store!Next

LEMMA StoreSound == StoreInv => Store!Durable
<1> SUFFICES ASSUME StoreInv, NEW k \in StoreKeys \ mixed
             PROVE  /\ disk[k] # "torn" /\ disk[k] \in agreed[k]
                    /\ ~Store!Busy(k) =>
                         \A i \in Store!Cached(k) : cache[i].value = disk[k]
  BY Zenon DEF Store!Durable, Store!Torn
<1>1. KeyInv(k)
  BY DEF StoreInv
<1>2. ASSUME ~Store!Busy(k), NEW c \in StoreCalls PROVE ~Uses(c, k)
  BY <1>2 DEF Store!Busy, Uses, Store!NoCall
<1> QED
  BY <1>1, <1>2 DEF KeyInv, CacheAgrees, Store!Cached

-----------------------------------------------------------------------------
(* Backups                                                                   *)

BackupEntry == [id : Nat, status : {"completed", "failed", "verified"}]
BackupList == Seq(BackupEntry)
MadeBackup == [full : BOOLEAN, createdAt : Int, base : Nat, got : Nat, seen : Nat]
BackupData == [list : BackupList, lastFull : Int]
CollectTask == [op : {"backup"}, id : Nat, at : {"collect", "write"}, since : Int]
SaveTask == [op : {"save"}, data : BackupData, cleans : BOOLEAN, rest : BackupList]
CleanTask == [op : {"cleanup"}, rest : BackupList \ {<<>>}]
DeleteTask == [op : {"delete"}, id : Nat, rest : BackupList, index : Nat \ {0}]
SomeTask == CollectTask \cup SaveTask \cup CleanTask \cup DeleteTask \cup {Back!Idle}
BackupTyped ==
    /\ now \in Nat /\ env \in [content : Nat \ {0}, mtime : Nat] /\ env.mtime <= now
    /\ made \in Seq(MadeBackup)
    /\ backups \in BackupList /\ lastFull \in Int
    /\ files \subseteq DOMAIN made
    /\ saved \in BackupData
    /\ backupTask \in [BackupTasks -> SomeTask]
    /\ concurrent \in BOOLEAN

\* The backups that no task makes any more, and the full ones that have the file.
Making(t, b) == backupTask[t].op = "backup" /\ backupTask[t].id = b
Finished == {b \in DOMAIN made : \A t \in BackupTasks : ~Making(t, b)}
FullBackups == {a \in DOMAIN made : made[a].full /\ made[a].got # 0}
FullDates == {-1} \cup {made[a].createdAt : a \in FullBackups}

\* A full backup has what the file still holds, if that has not changed since.
Recorded ==
    /\ \A b \in DOMAIN made : made[b].createdAt <= now
    /\ \A b \in FullBackups : env.mtime < made[b].createdAt => made[b].got = env.content
    /\ \A b \in DOMAIN made : made[b].seen # 0 /\ made[b].got = 0 =>
         made[b].base \in FullBackups /\ made[made[b].base].got = made[b].seen

\* What has been recorded of a backup that is made; each has a number of its own.
BackupFits(r) ==
    /\ r.op = "backup" => r.id \in DOMAIN made
    /\ r.op = "backup" /\ r.at = "collect" =>
         /\ made[r.id].seen = 0 /\ made[r.id].got = 0
         /\ made[r.id].full => r.since = -1
         /\ r.since # -1 => /\ made[r.id].base \in FullBackups
                            /\ made[made[r.id].base].createdAt = r.since
    /\ r.op = "backup" /\ r.at = "write" /\ made[r.id].full => made[r.id].got # 0
BeingMade ==
    /\ \A t \in BackupTasks : BackupFits(backupTask[t])
    /\ \A t, u \in BackupTasks : \A b \in DOMAIN made : Making(t, b) /\ Making(u, b) => t = u

\* A list names a backup once, and only when it is made.
Lists(list, ids) ==
    /\ \A i, j \in DOMAIN list : list[i].id = list[j].id => i = j
    /\ \A i \in DOMAIN list : list[i].id \in ids
Filed ==
    /\ files \subseteq Finished
    /\ Lists(backups, Finished) /\ lastFull \in FullDates
    /\ Lists(saved.list, Finished) /\ saved.lastFull \in FullDates
    /\ \A t \in BackupTasks : backupTask[t].op = "save" =>
         Lists(backupTask[t].data.list, Finished) /\ backupTask[t].data.lastFull \in FullDates

\* As long as no two calls overlapped, one may be in progress, and what it has
\* looked up or is about to save is what there is.
SameList(a, b) == {a[i] : i \in DOMAIN a} = {b[i] : i \in DOMAIN b}
Matching(list, kept) ==
    /\ \A i \in DOMAIN list : list[i].status \in {"completed", "verified"} <=> list[i].id \in kept
    /\ \A b \in kept : \E i \in DOMAIN list : list[i].id = b
Pending(r) ==
    /\ r.op = "save" => r.data.list = backups /\ r.data.lastFull = lastFull
    /\ r.op = "delete" => r.index \in DOMAIN backups /\ backups[r.index].id = r.id
Quiet ==
    /\ \A t, u \in BackupTasks : backupTask[t].op # "none" /\ backupTask[u].op # "none" => t = u
    /\ Matching(backups, files)
    /\ \A t \in BackupTasks : Pending(backupTask[t])
    /\ (\A t \in BackupTasks : backupTask[t].op # "save") =>
         SameList(saved.list, backups) /\ saved.lastFull = lastFull

BackupInv == BackupTyped /\ Recorded /\ BeingMade /\ Filed /\ (~concurrent => Quiet)

LEMMA BackupInitially == Back!Init => BackupInv
<1> SUFFICES ASSUME Back!Init PROVE BackupInv
  OBVIOUS
<1>1. /\ now = 0 /\ env = [content |-> 1, mtime |-> 0]
      /\ backups = <<>> /\ made = <<>> /\ lastFull = -1 /\ files = {}
      /\ saved = [list |-> <<>>, lastFull |-> -1]
      /\ backupTask = [t \in BackupTasks |-> Back!Idle] /\ concurrent = FALSE
  BY Zenon DEF Back!Init, Back!Never
<1>2. Back!Idle.op = "none"
  BY DEF Back!Idle
<1>3. BackupTyped
  <2>1. backups \in BackupList /\ made \in Seq(MadeBackup) /\ DOMAIN made = {}
    BY <1>1 DEF BackupList
  <2>2. saved \in BackupData
    BY <1>1 DEF BackupData, BackupList
  <2>3. backupTask \in [BackupTasks -> SomeTask]
    BY <1>1 DEF SomeTask
  <2>4. env \in [content : Nat \ {0}, mtime : Nat] /\ env.mtime <= now
    BY <1>1
  <2>5. files \subseteq DOMAIN made /\ now \in Nat /\ lastFull \in Int
    BY <1>1
  <2>6. concurrent \in BOOLEAN
    BY <1>1, Zenon
  <2> QED
    BY <2>1, <2>2, <2>3, <2>4, <2>5, <2>6 DEF BackupTyped
<1> QED
  BY <1>1, <1>2, <1>3 DEF BackupInv, Recorded, BeingMade, BackupFits, Making, Filed, Lists,
     FullDates, FullBackups, Quiet, Matching, Pending, SameList

\* A sequence without its p-th element.
LEMMA Removed ==
  ASSUME NEW S, NEW s \in Seq(S), NEW p \in 1..Len(s)
  PROVE  LET d == SubSeq(s, 1, p - 1) \o SubSeq(s, p + 1, Len(s)) IN
         /\ d \in Seq(S) /\ DOMAIN d = 1..(Len(s) - 1)
         /\ \A i \in 1..(Len(s) - 1) : d[i] = s[IF i < p THEN i ELSE i + 1]
<1> DEFINE a == SubSeq(s, 1, p - 1)
           b == SubSeq(s, p + 1, Len(s))
           d == a \o b
<1>1. a \in Seq(S) /\ Len(a) = p - 1 /\ \A i \in 1..(p - 1) : a[i] = s[i]
  OBVIOUS
<1>2. b \in Seq(S) /\ Len(b) = Len(s) - p /\ \A i \in 1..(Len(s) - p) : b[i] = s[p + i]
  OBVIOUS
<1>3. Len(s) \in Nat
  OBVIOUS
<1> HIDE DEF a, b
<1>4. /\ d \in Seq(S) /\ DOMAIN d = 1..(Len(s) - 1)
      /\ \A i \in 1..(p - 1) : d[i] = a[i]
      /\ \A i \in p..(Len(s) - 1) : d[i] = b[i - p + 1]
  BY <1>1, <1>2, <1>3
<1> HIDE DEF d
<1>5. \A i \in p..(Len(s) - 1) : d[i] = s[i + 1]
  <2>1. ASSUME NEW i \in p..(Len(s) - 1)
        PROVE  i - p + 1 \in 1..(Len(s) - p) /\ p + (i - p + 1) = i + 1
    BY <1>3
  <2> QED
    BY <1>2, <1>4, <2>1
<1>6. ASSUME NEW i \in 1..(Len(s) - 1)
      PROVE  d[i] = s[IF i < p THEN i ELSE i + 1]
  <2>1. CASE i < p
    BY <1>1, <1>4, <2>1
  <2>2. CASE i >= p
    BY <1>5, <2>2
  <2> QED
    BY <2>1, <2>2
<1> QED
  BY <1>4, <1>6, Zenon DEF a, b, d

\* What a list has that lost the entry of one backup.
CutOut(list, p) == SubSeq(list, 1, p - 1) \o SubSeq(list, p + 1, Len(list))

LEMMA RemovedEntry ==
  ASSUME NEW list \in BackupList, NEW p \in 1..Len(list)
  PROVE  LET d == CutOut(list, p) IN
         /\ d \in BackupList
         /\ \A i \in DOMAIN d : \E j \in DOMAIN list : j # p /\ d[i] = list[j]
         /\ \A j \in DOMAIN list : j # p => \E i \in DOMAIN d : d[i] = list[j]
         /\ \A A : Lists(list, A) => Lists(d, A)
<1> DEFINE d == CutOut(list, p)
           old(i) == IF i < p THEN i ELSE i + 1
<1>1. list \in Seq(BackupEntry) /\ Len(list) \in Nat /\ DOMAIN list = 1..Len(list)
  BY DEF BackupList
<1>2. /\ d \in Seq(BackupEntry) /\ DOMAIN d = 1..(Len(list) - 1)
      /\ \A i \in 1..(Len(list) - 1) : d[i] = list[old(i)]
  BY <1>1, Removed, Zenon DEF CutOut
<1> HIDE DEF d
<1>3. \A i \in 1..(Len(list) - 1) : old(i) \in DOMAIN list /\ old(i) # p
  BY <1>1
<1>4. ASSUME NEW j \in DOMAIN list, j # p
      PROVE  \E i \in 1..(Len(list) - 1) : old(i) = j
  <2>1. CASE j < p
    BY <1>1, <2>1
  <2>2. CASE j > p
    <3>1. j - 1 \in 1..(Len(list) - 1) /\ old(j - 1) = j
      BY <1>1, <2>2
    <3> QED
      BY <3>1
  <2> QED
    BY <1>1, <1>4, <2>1, <2>2
<1>5. \A i, j \in 1..(Len(list) - 1) : old(i) = old(j) => i = j
  BY <1>1
<1> HIDE DEF old
<1>6. ASSUME NEW A, Lists(list, A) PROVE Lists(d, A)
  <2>1. \A i \in DOMAIN d : d[i] = list[old(i)] /\ old(i) \in DOMAIN list
    BY <1>2, <1>3
  <2>2. \A i, j \in DOMAIN d : d[i].id = d[j].id => i = j
    <3> TAKE i, j \in DOMAIN d
    <3>1. list[old(i)].id = list[old(j)].id => old(i) = old(j)
      BY <1>6, <2>1 DEF Lists
    <3> QED
      BY <1>2, <1>5, <2>1, <3>1
  <2>3. \A i \in DOMAIN d : d[i].id \in A
    BY <1>6, <2>1 DEF Lists
  <2> QED
    BY <2>2, <2>3 DEF Lists
<1>7. \A j \in DOMAIN list : j # p => \E i \in DOMAIN d : d[i] = list[j]
  BY <1>2, <1>4
<1> QED
  BY <1>2, <1>3, <1>6, <1>7 DEF BackupList, d

-----------------------------------------------------------------------------
(* The sorted array: the rank of an entry is its place.                      *)

LEMMA BackCardinality == ASSUME NEW S PROVE Back!Cardinality(S) = Cardinality(S)
BY Zenon DEF Back!Cardinality, Cardinality

LEMMA SortedFits ==
  ASSUME BackupTyped, Lists(backups, Finished)
  PROVE  /\ Back!Sorted \in BackupList
         /\ SameList(backups, Back!Sorted)
         /\ Lists(Back!Sorted, Finished)
<1> DEFINE n == Len(backups)
           B(i) == {j \in 1..n : Back!Newer(backups[j], backups[i])}
           rank == [i \in 1..n |-> Cardinality(B(i))]
           at(k) == CHOOSE i \in DOMAIN backups : Back!Rank(i) = k - 1
<1>1. /\ backups \in Seq(BackupEntry) /\ n \in Nat /\ DOMAIN backups = 1..n
      /\ \A i \in 1..n : backups[i] \in BackupEntry
  BY DEF BackupTyped, BackupList
<1>2. \A i \in 1..n : backups[i].id \in Nat /\ made[backups[i].id].createdAt \in Int
  <2>1. \A b \in DOMAIN made : made[b].createdAt \in Int
    <3>1. \A b \in DOMAIN made : made[b] \in MadeBackup
      BY DEF BackupTyped
    <3> QED
      BY <3>1 DEF MadeBackup
  <2>2. \A i \in 1..n : backups[i].id \in DOMAIN made
    BY <1>1 DEF Lists, Finished
  <2> QED
    BY <1>1, <2>1, <2>2 DEF BackupEntry
<1>3. \A i \in 1..n : ~Back!Newer(backups[i], backups[i])
  BY <1>2 DEF Back!Newer
<1>4. \A i, j \in 1..n : i # j =>
        Back!Newer(backups[i], backups[j]) \/ Back!Newer(backups[j], backups[i])
  <2>1. \A i, j \in 1..n : i # j => backups[i].id # backups[j].id
    BY <1>1 DEF Lists
  <2> QED
    BY <1>2, <2>1 DEF Back!Newer
<1>5. \A i, j, k \in 1..n : Back!Newer(backups[i], backups[j]) /\ Back!Newer(backups[j], backups[k])
                              => Back!Newer(backups[i], backups[k])
  BY <1>2 DEF Back!Newer
<1>6. IsFiniteSet(1..n) /\ Cardinality(1..n) = n
  <2>1. 1 \in Int /\ n \in Int
    BY <1>1
  <2>2. IsFiniteSet(1..n) /\ Cardinality(1..n) = IF 1 > n THEN 0 ELSE n - 1 + 1
    BY <2>1, FS_Interval, Zenon
  <2> QED
    BY <1>1, <2>2
<1> HIDE DEF n
<1>7. \A i \in 1..n : IsFiniteSet(B(i)) /\ Cardinality(B(i)) \in Nat
  <2> TAKE i \in 1..n
  <2>1. B(i) \in SUBSET (1..n)
    OBVIOUS
  <2> QED
    BY <1>6, <2>1, FS_Subset, FS_CardinalityType
<1>8. ASSUME NEW i \in 1..n, NEW j \in 1..n, Back!Newer(backups[i], backups[j])
      PROVE  rank[i] < rank[j]
  <2>1. B(i) \in SUBSET B(j) /\ i \in B(j) /\ i \notin B(i)
    BY <1>3, <1>5, <1>8
  <2>2. IsFiniteSet(B(j)) /\ Cardinality(B(i)) \in Nat /\ Cardinality(B(j)) \in Nat
    BY <1>7
  <2> HIDE DEF B
  <2>3. Cardinality(B(i)) <= Cardinality(B(j)) /\ Cardinality(B(j)) # Cardinality(B(i))
    BY <2>1, <2>2, FS_Subset
  <2> QED
    BY <2>2, <2>3
<1>9. ASSUME NEW i \in 1..n PROVE rank[i] \in 0..(n - 1)
  <2>1. B(i) \in SUBSET (1..n) /\ i \notin B(i)
    BY <1>3
  <2> HIDE DEF B
  <2>2. Cardinality(B(i)) <= n /\ Cardinality(B(i)) # n
    BY <1>6, <2>1, FS_Subset
  <2> QED
    BY <1>1, <1>7, <2>2
<1>10. \A i, j \in 1..n : rank[i] = rank[j] => i = j
  BY <1>4, <1>8, <1>9
<1>11. \A k \in 1..n : \E i \in 1..n : rank[i] = k - 1
  <2>1. rank \in [1..n -> 0..(n - 1)]
    BY <1>9
  <2>2. rank \in Injection(1..n, 0..(n - 1))
    BY <1>10, <2>1, Zenon DEF Injection, IsInjective
  <2>3. IsFiniteSet(0..(n - 1)) /\ Cardinality(0..(n - 1)) = n
    <3>1. 0 \in Int /\ n - 1 \in Int
      BY <1>1
    <3>2. /\ IsFiniteSet(0..(n - 1))
          /\ Cardinality(0..(n - 1)) = IF 0 > n - 1 THEN 0 ELSE (n - 1) - 0 + 1
      BY <3>1, FS_Interval, Zenon
    <3> QED
      BY <1>1, <3>2
  <2> HIDE DEF rank
  <2>4. rank \in Surjection(1..n, 0..(n - 1))
    BY <1>6, <2>2, <2>3, FS_Injection
  <2>5. \A x \in 0..(n - 1) : \E i \in 1..n : rank[i] = x
    BY <2>4, Zenon DEF Surjection
  <2>6. \A k \in 1..n : k - 1 \in 0..(n - 1)
    BY <1>1
  <2> QED
    BY <2>5, <2>6
<1>12. Back!Sorted = [k \in 1..n |-> backups[at(k)]]
  BY Zenon DEF Back!Sorted, n
<1>13. \A k \in 1..n : at(k) \in 1..n /\ rank[at(k)] = k - 1
  <2>1. \A i \in 1..n : Back!Rank(i) = rank[i]
    BY <1>1, BackCardinality DEF Back!Rank
  <2> HIDE DEF rank
  <2>2. \A k \in 1..n : \E i \in DOMAIN backups : Back!Rank(i) = k - 1
    BY <1>1, <1>11, <2>1
  <2>3. \A k \in 1..n : at(k) \in DOMAIN backups /\ Back!Rank(at(k)) = k - 1
    BY <2>2
  <2> HIDE DEF at
  <2> QED
    BY <1>1, <2>1, <2>3
<1> HIDE DEF at, rank
<1>14. \A i \in 1..n : \E k \in 1..n : at(k) = i
  <2> TAKE i \in 1..n
  <2>1. rank[i] + 1 \in 1..n /\ rank[i] \in Int
    BY <1>1, <1>9
  <2>2. PICK k \in 1..n : k = rank[i] + 1
    BY <2>1
  <2>3. at(k) \in 1..n /\ rank[at(k)] = rank[i]
    BY <1>13, <2>1, <2>2
  <2>4. at(k) = i
    BY <1>10, <2>3
  <2> QED
    BY <2>4
<1>15. Back!Sorted \in BackupList /\ DOMAIN Back!Sorted = 1..n
  BY <1>1, <1>12, <1>13 DEF BackupList
<1>16. SameList(backups, Back!Sorted)
  <2>1. \A k \in 1..n : Back!Sorted[k] = backups[at(k)]
    BY <1>12
  <2>2. \A i \in 1..n : \E k \in 1..n : Back!Sorted[k] = backups[i]
    BY <1>14, <2>1
  <2> QED
    <3>1. ASSUME NEW i \in DOMAIN backups
          PROVE  \E k \in DOMAIN Back!Sorted : Back!Sorted[k] = backups[i]
      BY <1>1, <1>15, <2>2
    <3>2. ASSUME NEW k \in DOMAIN Back!Sorted
          PROVE  \E i \in DOMAIN backups : Back!Sorted[k] = backups[i]
      BY <1>1, <1>13, <1>15, <2>1
    <3> QED
      BY <3>1, <3>2 DEF SameList
<1>17. Lists(Back!Sorted, Finished)
  <2>1. \A k, l \in 1..n : at(k) = at(l) => k = l
    <3>1. \A k, l \in 1..n : k - 1 = l - 1 => k = l
      BY <1>1
    <3> QED
      BY <1>13, <3>1
  <2> QED
    <3>1. \A k \in 1..n : Back!Sorted[k] = backups[at(k)]
      BY <1>12
    <3> QED
      <4>1. ASSUME NEW k \in 1..n, NEW l \in 1..n, Back!Sorted[k].id = Back!Sorted[l].id
            PROVE  k = l
        <5>1. at(k) \in DOMAIN backups /\ at(l) \in DOMAIN backups
          BY <1>1, <1>13
        <5>2. backups[at(k)].id = backups[at(l)].id
          BY <3>1, <4>1
        <5> QED
          BY <2>1, <5>1, <5>2 DEF Lists
      <4>2. ASSUME NEW k \in 1..n PROVE Back!Sorted[k].id \in Finished
        BY <1>1, <1>13, <3>1 DEF Lists
      <4> QED
        BY <1>15, <4>1, <4>2 DEF Lists
<1> QED
  BY <1>15, <1>16, <1>17

-----------------------------------------------------------------------------
(* The steps of the calls                                                    *)

LEMMA TaskGoes ==
  ASSUME BackupTyped, NEW t \in BackupTasks, NEW r \in SomeTask,
         backupTask' = [backupTask EXCEPT ![t] = r]
  PROVE  /\ backupTask' \in [BackupTasks -> SomeTask] /\ backupTask'[t] = r
         /\ \A u \in BackupTasks : u # t => backupTask'[u] = backupTask[u]
BY DEF BackupTyped

LEMMA ListsGrow ==
  ASSUME NEW list, NEW A, NEW B, Lists(list, A), A \subseteq B
  PROVE  Lists(list, B)
BY DEF Lists

LEMMA IdleOp == Back!Idle \in SomeTask /\ Back!Idle.op = "none"
BY DEF SomeTask, Back!Idle

\* A step after which the call t no longer makes a backup.
LEMMA EndsMaking ==
  ASSUME BackupInv, NEW t \in BackupTasks, NEW r \in SomeTask, r.op # "backup",
         backupTask' = [backupTask EXCEPT ![t] = r], UNCHANGED <<now, env, made>>
  PROVE  /\ Recorded' /\ BeingMade' /\ Finished \subseteq Finished' /\ FullDates' = FullDates
         /\ backupTask[t].op = "backup" => backupTask[t].id \in Finished'
<1>1. /\ backupTask'[t] = r
      /\ \A u \in BackupTasks : u # t => backupTask'[u] = backupTask[u]
  BY TaskGoes DEF BackupInv
<1>2. FullBackups' = FullBackups /\ FullDates' = FullDates
  BY DEF FullBackups, FullDates
<1>3. Recorded'
  BY <1>2 DEF BackupInv, Recorded
<1>4. \A u \in BackupTasks, b \in DOMAIN made : Making(u, b)' => u # t /\ Making(u, b)
  BY <1>1 DEF Making
<1>5. Finished \subseteq Finished'
  BY <1>4 DEF Finished
<1>6. \A u \in BackupTasks : BackupFits(backupTask[u])'
  BY <1>1, <1>2 DEF BackupInv, BeingMade, BackupFits
<1>7. BeingMade'
  BY <1>4, <1>6 DEF BackupInv, BeingMade
<1>8. ASSUME backupTask[t].op = "backup" PROVE backupTask[t].id \in Finished'
  <2>1. backupTask[t].id \in DOMAIN made /\ Making(t, backupTask[t].id)
    BY <1>8 DEF BackupInv, BeingMade, BackupFits, Making
  <2>2. PICK b \in DOMAIN made : b = backupTask[t].id
    BY <2>1
  <2>3. \A u \in BackupTasks : ~Making(u, b)'
    BY <1>4, <2>1, <2>2 DEF BackupInv, BeingMade
  <2> QED
    BY <2>2, <2>3 DEF Finished
<1> QED
  BY <1>2, <1>3, <1>5, <1>7, <1>8

LEMMA FiledAgain ==
  ASSUME BackupInv, NEW t \in BackupTasks, NEW r \in SomeTask,
         backupTask' = [backupTask EXCEPT ![t] = r],
         Finished \subseteq Finished', FullDates \subseteq FullDates',
         files' \subseteq Finished', Lists(backups, Finished)', lastFull' \in FullDates',
         r.op = "save" => r.data.list = backups' /\ r.data.lastFull = lastFull',
         saved' = saved \/ (backupTask[t].op = "save" /\ saved' = backupTask[t].data)
  PROVE  Filed'
<1>1. /\ backupTask'[t] = r
      /\ \A u \in BackupTasks : u # t => backupTask'[u] = backupTask[u]
  BY TaskGoes DEF BackupInv
<1>2. /\ Lists(saved.list, Finished) /\ saved.lastFull \in FullDates
      /\ \A u \in BackupTasks : backupTask[u].op = "save" =>
           Lists(backupTask[u].data.list, Finished) /\ backupTask[u].data.lastFull \in FullDates
  BY DEF BackupInv, Filed
<1>3. Lists(saved'.list, Finished') /\ saved'.lastFull \in FullDates'
  BY <1>2, ListsGrow
<1>4. ASSUME NEW u \in BackupTasks, backupTask'[u].op = "save"
      PROVE  /\ Lists(backupTask'[u].data.list, Finished')
             /\ backupTask'[u].data.lastFull \in FullDates'
  <2>1. CASE u = t
    BY <1>1, <1>4, <2>1
  <2>2. CASE u # t
    BY <1>1, <1>2, <1>4, <2>2, ListsGrow
  <2> QED
    BY <2>1, <2>2
<1> QED
  BY <1>3, <1>4 DEF Filed

LEMMA QuietAgain ==
  ASSUME BackupTyped, NEW t \in BackupTasks, NEW r \in SomeTask,
         backupTask' = [backupTask EXCEPT ![t] = r],
         \A u \in BackupTasks : u # t => backupTask[u].op = "none",
         Matching(backups, files)', Pending(r)',
         r.op = "save" \/ (SameList(saved.list, backups)' /\ saved'.lastFull = lastFull')
  PROVE  Quiet'
<1>1. /\ backupTask'[t] = r
      /\ \A u \in BackupTasks : u # t => backupTask'[u].op = "none"
  BY TaskGoes
<1>2. \A u \in BackupTasks : Pending(backupTask[u])'
  BY <1>1 DEF Pending
<1> QED
  BY <1>1, <1>2 DEF Quiet

\* What a step of a call must show that is not, or no longer, making a backup.
LEMMA CallStep ==
  ASSUME BackupInv, NEW t \in BackupTasks, NEW r \in SomeTask, r.op # "backup",
         backupTask' = [backupTask EXCEPT ![t] = r], UNCHANGED <<now, env, made>>,
         backups' \in BackupList, Lists(backups, Finished)',
         files' \subseteq Finished',
         lastFull' \in Int, lastFull' \in FullDates,
         r.op = "save" => r.data.list = backups' /\ r.data.lastFull = lastFull',
         saved' = saved \/ (backupTask[t].op = "save" /\ saved' = backupTask[t].data),
         concurrent' \in BOOLEAN,
         ~concurrent' => /\ \A u \in BackupTasks : u # t => backupTask[u].op = "none"
                         /\ Matching(backups, files)' /\ Pending(r)'
                         /\ \/ r.op = "save"
                            \/ SameList(saved.list, backups)' /\ saved'.lastFull = lastFull'
  PROVE  BackupInv'
<1>1. /\ Recorded' /\ BeingMade' /\ Finished \subseteq Finished' /\ FullDates' = FullDates
  BY EndsMaking
<1>2. Filed'
  BY <1>1, FiledAgain
<1>3. ~concurrent' => Quiet'
  BY QuietAgain DEF BackupInv
<1>4. BackupTyped'
  <2>1. saved' \in BackupData
    <3>1. saved \in BackupData /\ backupTask[t] \in SomeTask
      BY DEF BackupInv, BackupTyped
    <3>2. backupTask[t].op = "save" => backupTask[t].data \in BackupData
      BY <3>1 DEF SomeTask, CollectTask, SaveTask, CleanTask, DeleteTask, Back!Idle
    <3> QED
      BY <3>1, <3>2
  <2>2. backupTask' \in [BackupTasks -> SomeTask] /\ Finished' \subseteq DOMAIN made'
    BY TaskGoes DEF BackupInv, Finished
  <2> QED
    BY <2>1, <2>2 DEF BackupInv, BackupTyped
<1> QED
  BY <1>1, <1>2, <1>3, <1>4 DEF BackupInv

\* Where a call stands.
LEMMA TaskTyped ==
  ASSUME BackupTyped, NEW t \in BackupTasks
  PROVE  /\ backupTask[t].op = "backup" => backupTask[t] \in CollectTask
         /\ backupTask[t].op = "save" => backupTask[t] \in SaveTask
         /\ backupTask[t].op = "cleanup" => backupTask[t] \in CleanTask
         /\ backupTask[t].op = "delete" => backupTask[t] \in DeleteTask
BY DEF BackupTyped, SomeTask, CollectTask, SaveTask, CleanTask, DeleteTask, Back!Idle

\* A call begins when no other is in progress, or there are two.
LEMMA Begins ==
  ASSUME BackupInv, NEW t \in BackupTasks, Back!Free(t),
         concurrent' = (concurrent \/ Back!Others(t))
  PROVE  /\ backupTask[t].op = "none"
         /\ concurrent' \in BOOLEAN
         /\ ~concurrent' => ~concurrent /\ Quiet
                            /\ \A u \in BackupTasks : u # t => backupTask[u].op = "none"
<1>1. backupTask[t].op = "none"
  BY DEF Back!Free, Back!Idle
<1>2. concurrent' \in BOOLEAN /\ (~concurrent' => ~concurrent /\ ~Back!Others(t))
  BY Zenon DEF BackupInv, BackupTyped
<1>3. ~Back!Others(t) => \A u \in BackupTasks : u # t => backupTask[u].op = "none"
  BY DEF Back!Others, Back!Idle
<1> QED
  BY <1>1, <1>2, <1>3 DEF BackupInv

\* A call goes on alone, unless there are two.
LEMMA GoesOnAlone ==
  ASSUME BackupInv, NEW t \in BackupTasks, backupTask[t].op # "none", UNCHANGED concurrent
  PROVE  /\ concurrent' \in BOOLEAN
         /\ ~concurrent' => Quiet /\ \A u \in BackupTasks : u # t => backupTask[u].op = "none"
<1>1. concurrent \in BOOLEAN /\ (~concurrent => Quiet)
  BY DEF BackupInv, BackupTyped
<1>2. Quiet => \A u \in BackupTasks : u # t => backupTask[u].op = "none"
  BY DEF Quiet
<1> QED
  BY <1>1, <1>2

LEMMA GoesOnFits ==
  ASSUME NEW rest \in BackupList
  PROVE  Back!GoesOn(rest) \in SomeTask /\ Back!GoesOn(rest).op \in {"none", "cleanup"}
BY DEF Back!GoesOn, Back!Idle, SomeTask, CleanTask

\* An index that was looked up is one of the entry.
LEMMA LookupFits ==
  ASSUME BackupTyped, NEW t \in BackupTasks, NEW b \in Nat, NEW rest \in BackupList,
         Back!Lookup(t, b, rest)
  PROVE  \E r \in SomeTask :
           /\ backupTask' = [backupTask EXCEPT ![t] = r]
           /\ r.op \in {"none", "cleanup", "delete"}
           /\ r.op = "delete" => /\ r.index \in DOMAIN backups
                                 /\ backups[r.index].id = r.id
<1>1. CASE Back!Listed(b) = {}
  BY <1>1, GoesOnFits DEF Back!Lookup
<1>2. CASE Back!Listed(b) # {}
  <2> DEFINE i == CHOOSE i \in Back!Listed(b) : TRUE
             r == [op |-> "delete", id |-> b, rest |-> rest, index |-> i]
  <2>1. i \in DOMAIN backups /\ backups[i].id = b
    BY <1>2 DEF Back!Listed
  <2>2. i \in Nat \ {0}
    <3>1. backups \in Seq(BackupEntry)
      BY DEF BackupTyped, BackupList
    <3>2. DOMAIN backups = 1..Len(backups) /\ Len(backups) \in Nat
      BY <3>1
    <3> HIDE DEF i
    <3> QED
      BY <2>1, <3>2
  <2>3. backupTask' = [backupTask EXCEPT ![t] = r]
    BY <1>2 DEF Back!Lookup
  <2> HIDE DEF i
  <2>4. r \in SomeTask
    BY <2>2 DEF SomeTask, DeleteTask
  <2> QED
    BY <2>1, <2>3, <2>4
<1> QED
  BY <1>1, <1>2

LEMMA SaveKeepsBackup ==
  ASSUME BackupInv, NEW t \in BackupTasks, Back!Save(t)
  PROVE  BackupInv'
<1>1. backupTask[t].op = "save" /\ backupTask[t] \in SaveTask
  BY TaskTyped DEF Back!Save, BackupInv
<1>2. PICK q \in SaveTask : q = backupTask[t]
  BY <1>1
<1>3. /\ saved' = q.data /\ UNCHANGED <<now, env, made, lastFull, files, concurrent>>
      /\ \/ /\ backups' = Back!Sorted
            /\ backupTask' = [backupTask EXCEPT ![t] =
                 Back!GoesOn(SubSeq(Back!Sorted, maxBackups + 1, Len(Back!Sorted)))]
         \/ UNCHANGED backups /\ backupTask' = [backupTask EXCEPT ![t] = Back!GoesOn(q.rest)]
  BY <1>2, Zenon DEF Back!Save
<1>4. /\ Lists(backups, Finished) /\ lastFull \in FullDates /\ files \subseteq Finished
      /\ backups \in BackupList /\ lastFull \in Int /\ BackupTyped
  BY DEF BackupInv, Filed, BackupTyped
<1>5. /\ Back!Sorted \in BackupList /\ SameList(backups, Back!Sorted)
      /\ Lists(Back!Sorted, Finished)
  BY <1>4, SortedFits
<1>6. SubSeq(Back!Sorted, maxBackups + 1, Len(Back!Sorted)) \in BackupList
  BY <1>5, StoreFits DEF BackupList
<1>7. q.rest \in BackupList
  BY DEF SaveTask
<1>8. PICK rest \in BackupList :
        backupTask' = [backupTask EXCEPT ![t] = Back!GoesOn(rest)]
  BY <1>3, <1>6, <1>7
<1>9. PICK r \in SomeTask : r = Back!GoesOn(rest)
  BY GoesOnFits
<1>10. r.op \in {"none", "cleanup"} /\ backupTask' = [backupTask EXCEPT ![t] = r]
  BY <1>8, <1>9, GoesOnFits
<1>11. /\ backups' \in BackupList /\ SameList(backups, backups') /\ Lists(backups', Finished)
  BY <1>3, <1>4, <1>5 DEF SameList
<1>12. Finished \subseteq Finished'
  BY <1>3, <1>10, EndsMaking
<1>13. Lists(backups, Finished)' /\ files' \subseteq Finished'
  BY <1>3, <1>4, <1>11, <1>12, ListsGrow
<1>14. ASSUME ~concurrent'
       PROVE  /\ \A u \in BackupTasks : u # t => backupTask[u].op = "none"
              /\ Matching(backups, files)' /\ Pending(r)'
              /\ SameList(saved.list, backups)' /\ saved'.lastFull = lastFull'
  <2>1. Quiet /\ \A u \in BackupTasks : u # t => backupTask[u].op = "none"
    BY <1>1, <1>3, <1>14, GoesOnAlone
  <2>2. q.data.list = backups /\ q.data.lastFull = lastFull /\ Matching(backups, files)
    BY <1>1, <1>2, <2>1 DEF Quiet, Pending
  <2>3. Matching(backups', files)
    <3>1. \A i \in DOMAIN backups' : \E j \in DOMAIN backups : backups'[i] = backups[j]
      BY <1>11 DEF SameList
    <3>2. \A j \in DOMAIN backups : \E i \in DOMAIN backups' : backups'[i] = backups[j]
      BY <1>11 DEF SameList
    <3> QED
      BY <2>2, <3>1, <3>2 DEF Matching
  <2>4. SameList(saved.list, backups)'
    BY <1>3, <1>11, <2>2 DEF SameList
  <2>5. Pending(r)'
    BY <1>10 DEF Pending
  <2> QED
    BY <1>3, <2>1, <2>2, <2>3, <2>4, <2>5
<1>15. concurrent' \in BOOLEAN
  BY <1>1, <1>3, GoesOnAlone
<1> QED
  BY <1>1, <1>2, <1>3, <1>4, <1>10, <1>11, <1>13, <1>14, <1>15, CallStep

\* Looking up the next backup to delete.
LEMMA LookupKeepsBackup ==
  ASSUME BackupInv, NEW t \in BackupTasks, NEW b \in Nat, NEW rest \in BackupList,
         backupTask[t].op # "save", backupTask[t].op # "backup",
         Back!Lookup(t, b, rest), UNCHANGED <<now, env, backups, made, lastFull, files, saved>>,
         concurrent' \in BOOLEAN,
         ~concurrent' => Quiet /\ \A u \in BackupTasks : u # t => backupTask[u].op = "none"
  PROVE  BackupInv'
<1>1. PICK r \in SomeTask :
        /\ backupTask' = [backupTask EXCEPT ![t] = r]
        /\ r.op \in {"none", "cleanup", "delete"}
        /\ r.op = "delete" => r.index \in DOMAIN backups /\ backups[r.index].id = r.id
  BY LookupFits DEF BackupInv
<1>2. /\ Lists(backups, Finished) /\ lastFull \in FullDates /\ files \subseteq Finished
      /\ backups \in BackupList /\ lastFull \in Int
  BY DEF BackupInv, Filed, BackupTyped
<1>3. Finished \subseteq Finished'
  BY <1>1, EndsMaking
<1>4. Lists(backups, Finished)' /\ files' \subseteq Finished'
  BY <1>2, <1>3, ListsGrow
<1>5. ASSUME ~concurrent'
      PROVE  /\ \A u \in BackupTasks : u # t => backupTask[u].op = "none"
             /\ Matching(backups, files)' /\ Pending(r)'
             /\ SameList(saved.list, backups)' /\ saved'.lastFull = lastFull'
  <2>1. /\ Matching(backups, files)
        /\ (\A u \in BackupTasks : backupTask[u].op # "save") =>
             SameList(saved.list, backups) /\ saved.lastFull = lastFull
        /\ \A u \in BackupTasks : u # t => backupTask[u].op = "none"
    BY <1>5 DEF Quiet
  <2>2. \A u \in BackupTasks : backupTask[u].op # "save"
    BY <2>1
  <2>3. Pending(r)'
    BY <1>1 DEF Pending
  <2> QED
    BY <2>1, <2>2, <2>3 DEF Matching, SameList
<1> QED
  BY <1>1, <1>2, <1>4, <1>5, CallStep

LEMMA DeletesKeepBackup ==
  ASSUME BackupInv, NEW t \in BackupTasks,
         Back!Cleanup(t) \/ \E b \in Back!Ids : Back!DeleteBackup(t, b)
  PROVE  BackupInv'
<1>1. CASE Back!Cleanup(t)
  <2>1. backupTask[t].op = "cleanup" /\ backupTask[t] \in CleanTask
    BY <1>1, TaskTyped DEF Back!Cleanup, BackupInv
  <2>2. PICK q \in CleanTask : q = backupTask[t]
    BY <2>1
  <2>3. q.rest \in Seq(BackupEntry) /\ q.rest # <<>>
    BY DEF CleanTask, BackupList
  <2>4. Head(q.rest) \in BackupEntry /\ Tail(q.rest) \in BackupList
    BY <2>3 DEF BackupList
  <2>5. Head(q.rest).id \in Nat
    BY <2>4 DEF BackupEntry
  <2>6. /\ Back!Lookup(t, Head(q.rest).id, Tail(q.rest))
        /\ UNCHANGED <<now, env, backups, made, lastFull, files, saved, concurrent>>
    BY <1>1, <2>2 DEF Back!Cleanup
  <2> QED
    BY <2>1, <2>4, <2>5, <2>6, GoesOnAlone, LookupKeepsBackup
<1>2. ASSUME NEW b \in Back!Ids, Back!DeleteBackup(t, b) PROVE BackupInv'
  <2>1. /\ Back!Free(t) /\ Back!Lookup(t, b, <<>>)
        /\ concurrent' = (concurrent \/ Back!Others(t))
        /\ UNCHANGED <<now, env, backups, made, lastFull, files, saved>>
    BY <1>2, Zenon DEF Back!DeleteBackup
  <2>2. b \in Nat /\ <<>> \in BackupList
    <3>1. made \in Seq(MadeBackup) /\ b \in DOMAIN made
      BY DEF BackupInv, BackupTyped, Back!Ids
    <3> QED
      BY <3>1 DEF BackupList
  <2>3. /\ backupTask[t].op = "none" /\ concurrent' \in BOOLEAN
        /\ ~concurrent' => Quiet /\ \A u \in BackupTasks : u # t => backupTask[u].op = "none"
    BY <2>1, Begins
  <2> QED
    BY <2>1, <2>2, <2>3, LookupKeepsBackup
<1> QED
  BY <1>1, <1>2

LEMMA SavingFits ==
  ASSUME NEW list \in BackupList, NEW last \in Int, NEW cleans \in BOOLEAN,
         NEW rest \in BackupList
  PROVE  LET r == Back!Saving(list, last, cleans, rest) IN
         /\ r \in SomeTask /\ r.op = "save"
         /\ r.data.list = list /\ r.data.lastFull = last
BY DEF Back!Saving, SomeTask, SaveTask, BackupData

\* A call that goes on to write the metadata.
LEMMA GoesOnToSave ==
  ASSUME NEW t \in BackupTasks, NEW list \in BackupList, NEW last \in Int,
         NEW cleans \in BOOLEAN, NEW rest \in BackupList,
         backups' = list, lastFull' = last,
         backupTask' = [backupTask EXCEPT ![t] = Back!Saving(list, last, cleans, rest)]
  PROVE  \E r \in SomeTask :
           /\ r.op = "save" /\ r.data.list = backups' /\ r.data.lastFull = lastFull'
           /\ backupTask' = [backupTask EXCEPT ![t] = r]
<1>1. PICK r \in SomeTask : r = Back!Saving(list, last, cleans, rest)
  BY SavingFits
<1>2. r.op = "save" /\ r.data.list = list /\ r.data.lastFull = last
  BY <1>1, SavingFits
<1> QED
  BY <1>1, <1>2

\* The last part of CallStep, for a call that will write the metadata.
LEMMA SavesQuietly ==
  ASSUME NEW t \in BackupTasks, NEW r \in SomeTask, r.op = "save",
         r.data.list = backups', r.data.lastFull = lastFull',
         ~concurrent' => \A u \in BackupTasks : u # t => backupTask[u].op = "none",
         ~concurrent' => Matching(backups, files)'
  PROVE  ~concurrent' => /\ \A u \in BackupTasks : u # t => backupTask[u].op = "none"
                         /\ Matching(backups, files)' /\ Pending(r)'
                         /\ \/ r.op = "save"
                            \/ SameList(saved.list, backups)' /\ saved'.lastFull = lastFull'
<1>1. Pending(r)'
  BY DEF Pending
<1> QED
  BY <1>1

LEMMA UnlinkedKeepsBackup ==
  ASSUME BackupInv, NEW t \in BackupTasks, Back!Unlinked(t)
  PROVE  BackupInv'
<1>1. backupTask[t].op = "delete" /\ backupTask[t] \in DeleteTask
  BY TaskTyped DEF Back!Unlinked, BackupInv
<1>2. PICK q \in DeleteTask : q = backupTask[t]
  BY <1>1
<1>3. /\ q.op = "delete" /\ q.id \in Nat /\ q.rest \in BackupList /\ q.index \in Nat \ {0}
  BY DEF DeleteTask
<1>4. /\ Lists(backups, Finished) /\ lastFull \in FullDates /\ files \subseteq Finished
      /\ backups \in BackupList /\ lastFull \in Int /\ BackupTyped
  BY DEF BackupInv, Filed, BackupTyped
<1>5. UNCHANGED <<now, env, made, lastFull, saved, concurrent>>
  BY DEF Back!Unlinked
<1>6. /\ concurrent' \in BOOLEAN
      /\ ~concurrent' => Quiet /\ \A u \in BackupTasks : u # t => backupTask[u].op = "none"
  BY <1>1, <1>5, GoesOnAlone
<1>7. Quiet => /\ Matching(backups, files)
               /\ q.index \in DOMAIN backups /\ backups[q.index].id = q.id
               /\ (\A u \in BackupTasks : backupTask[u].op # "save") =>
                    SameList(saved.list, backups) /\ saved.lastFull = lastFull
  BY <1>2, <1>3 DEF Quiet, Pending
<1>8. CASE q.id \notin files
  <2>1. /\ UNCHANGED <<files, backups>>
        /\ backupTask' = [backupTask EXCEPT ![t] = Back!GoesOn(q.rest)]
    BY <1>2, <1>8 DEF Back!Unlinked
  <2>2. PICK r \in SomeTask : r = Back!GoesOn(q.rest)
    BY <1>3, GoesOnFits
  <2>3. r.op \in {"none", "cleanup"} /\ backupTask' = [backupTask EXCEPT ![t] = r]
    BY <1>3, <2>1, <2>2, GoesOnFits
  <2>4. Finished \subseteq Finished'
    BY <1>5, <2>3, EndsMaking
  <2>5. Lists(backups, Finished)' /\ files' \subseteq Finished'
    BY <1>4, <2>1, <2>4, ListsGrow
  <2>6. Pending(r)'
    BY <2>3 DEF Pending
  <2>7. ASSUME ~concurrent'
        PROVE  /\ \A u \in BackupTasks : u # t => backupTask[u].op = "none"
               /\ Matching(backups, files)'
               /\ SameList(saved.list, backups)' /\ saved'.lastFull = lastFull'
    <3>1. \A u \in BackupTasks : backupTask[u].op # "save"
      BY <1>1, <1>6, <2>7
    <3>2. /\ Matching(backups, files)
          /\ SameList(saved.list, backups) /\ saved.lastFull = lastFull
      BY <1>6, <1>7, <2>7, <3>1
    <3> QED
      BY <1>5, <1>6, <2>1, <2>7, <3>2 DEF Matching, SameList
  <2>8. /\ backups' \in BackupList /\ lastFull' \in Int /\ lastFull' \in FullDates
        /\ r.op # "backup" /\ r.op # "save" /\ saved' = saved
    BY <1>4, <1>5, <2>1, <2>3
  <2> QED
    BY <1>5, <1>6, <2>3, <2>5, <2>6, <2>7, <2>8, CallStep
<1>9. CASE q.id \in files
  <2> DEFINE list == Back!Without(backups, q.index)
  <2>1. /\ files' = files \ {q.id} /\ backups' = list
        /\ backupTask' = [backupTask EXCEPT ![t] = Back!Saving(list, lastFull, FALSE, q.rest)]
    BY <1>2, <1>9 DEF Back!Unlinked
  <2>2. /\ list = IF q.index <= Len(backups) THEN CutOut(backups, q.index) ELSE backups
        /\ DOMAIN backups = 1..Len(backups) /\ Len(backups) \in Nat
    BY <1>4 DEF Back!Without, CutOut, BackupList
  <2>3. list \in BackupList /\ Lists(list, Finished)
    <3>1. CASE q.index <= Len(backups)
      <4>1. q.index \in 1..Len(backups)
        BY <1>3, <2>2, <3>1
      <4> QED
        BY <1>4, <2>2, <3>1, <4>1, RemovedEntry
    <3>2. CASE ~(q.index <= Len(backups))
      BY <1>4, <2>2, <3>2
    <3> QED
      BY <3>1, <3>2
  <2> HIDE DEF list
  <2>4. PICK l \in BackupList, last \in Int, rest \in BackupList :
           l = list /\ last = lastFull /\ rest = q.rest
    BY <1>3, <1>4, <2>3
  <2>5. PICK r \in SomeTask :
          /\ r.op = "save" /\ r.data.list = backups' /\ r.data.lastFull = lastFull'
          /\ backupTask' = [backupTask EXCEPT ![t] = r]
    <3>1. /\ backups' = l /\ lastFull' = last
          /\ backupTask' = [backupTask EXCEPT ![t] = Back!Saving(l, last, FALSE, rest)]
      BY <1>5, <2>1, <2>4
    <3> QED
      BY <3>1, GoesOnToSave
  <2>6. Finished \subseteq Finished'
    BY <1>5, <2>5, EndsMaking
  <2>7. Lists(backups, Finished)' /\ files' \subseteq Finished' /\ backups' \in BackupList
    BY <1>4, <2>1, <2>3, <2>6, ListsGrow
  <2>9. ASSUME ~concurrent' PROVE Matching(backups, files)'
    <3>1. /\ Matching(backups, files)
          /\ q.index \in 1..Len(backups) /\ backups[q.index].id = q.id
      BY <1>6, <1>7, <2>2, <2>9
    <3>2. backups' = CutOut(backups, q.index)
      BY <2>1, <2>2, <3>1
    <3>3. /\ \A i \in DOMAIN backups' :
               \E j \in DOMAIN backups : j # q.index /\ backups'[i] = backups[j]
          /\ \A j \in DOMAIN backups : j # q.index =>
               \E i \in DOMAIN backups' : backups'[i] = backups[j]
      BY <1>4, <3>1, <3>2, RemovedEntry
    <3>4. \A j \in DOMAIN backups : j # q.index => backups[j].id # q.id
      BY <1>4, <2>2, <3>1 DEF Lists
    <3> QED
      BY <2>1, <3>1, <3>3, <3>4 DEF Matching
  <2>10. lastFull' \in Int /\ lastFull' \in FullDates /\ r.op # "backup" /\ saved' = saved
    BY <1>4, <1>5, <2>5
  <2> QED
    BY <1>5, <1>6, <2>5, <2>7, <2>9, <2>10, SavesQuietly, CallStep
<1> QED
  BY <1>8, <1>9

LEMMA VerifyKeepsBackup ==
  ASSUME BackupInv, NEW t \in BackupTasks, NEW b, NEW large,
         Back!VerifyBackup(t, b, large)
  PROVE  BackupInv'
<1> DEFINE list == [i \in DOMAIN backups |->
                      IF i \in Back!Listed(b) THEN [backups[i] EXCEPT !.status = "verified"]
                      ELSE backups[i]]
<1>1. /\ Back!Free(t)
      /\ backups' = IF b \in files /\ large THEN list ELSE backups
      /\ backupTask' = [backupTask EXCEPT ![t] = Back!Saving(backups', lastFull, FALSE, <<>>)]
      /\ concurrent' = (concurrent \/ Back!Others(t))
      /\ UNCHANGED <<now, env, made, lastFull, files, saved>>
  BY Zenon DEF Back!VerifyBackup
<1>2. /\ Lists(backups, Finished) /\ lastFull \in FullDates /\ files \subseteq Finished
      /\ backups \in BackupList /\ lastFull \in Int
  BY DEF BackupInv, Filed, BackupTyped
<1>3. /\ DOMAIN backups = 1..Len(backups) /\ Len(backups) \in Nat
      /\ \A i \in DOMAIN backups : backups[i] \in BackupEntry
  BY <1>2 DEF BackupList
<1>4. ASSUME NEW i \in DOMAIN backups
      PROVE  /\ list[i] \in BackupEntry /\ list[i].id = backups[i].id
             /\ i \notin Back!Listed(b) => list[i] = backups[i]
             /\ i \in Back!Listed(b) => list[i].status = "verified" /\ list[i].id = b
  BY <1>3 DEF BackupEntry, Back!Listed
<1>5. DOMAIN list = DOMAIN backups /\ list \in BackupList
  BY <1>3, <1>4 DEF BackupList
<1> HIDE DEF list
<1>6. Lists(list, Finished)
  BY <1>2, <1>4, <1>5 DEF Lists
<1>7. backups' \in BackupList /\ Lists(backups', Finished) /\ <<>> \in BackupList
  BY <1>1, <1>2, <1>5, <1>6 DEF BackupList
<1>8. PICK l \in BackupList, last \in Int : l = backups' /\ last = lastFull
  BY <1>2, <1>7
<1>9. PICK r \in SomeTask :
        /\ r.op = "save" /\ r.data.list = backups' /\ r.data.lastFull = lastFull'
        /\ backupTask' = [backupTask EXCEPT ![t] = r]
  <2>1. /\ backups' = l /\ lastFull' = last
        /\ backupTask' = [backupTask EXCEPT ![t] = Back!Saving(l, last, FALSE, <<>>)]
    BY <1>1, <1>8
  <2> QED
    BY <1>7, <2>1, GoesOnToSave
<1>10. Finished \subseteq Finished'
  BY <1>1, <1>9, EndsMaking
<1>11. Lists(backups, Finished)' /\ files' \subseteq Finished'
  BY <1>1, <1>2, <1>7, <1>10, ListsGrow
<1>12. lastFull' \in Int /\ lastFull' \in FullDates /\ r.op # "backup" /\ saved' = saved
  BY <1>1, <1>2, <1>9
<1>13. /\ backupTask[t].op = "none" /\ concurrent' \in BOOLEAN
       /\ ~concurrent' => Quiet /\ \A u \in BackupTasks : u # t => backupTask[u].op = "none"
  BY <1>1, Begins
<1>14. ASSUME ~concurrent' PROVE Matching(backups, files)'
  <2>1. Matching(backups, files)
    BY <1>13, <1>14 DEF Quiet
  <2>2. CASE backups' = list /\ b \in files
    BY <1>1, <1>4, <1>5, <2>1, <2>2 DEF Matching
  <2>3. CASE backups' = backups
    BY <1>1, <2>1, <2>3 DEF Matching
  <2> QED
    BY <1>1, <2>2, <2>3
<1> QED
  BY <1>1, <1>7, <1>9, <1>11, <1>12, <1>13, <1>14, SavesQuietly, CallStep

LEMMA WriteKeepsBackup ==
  ASSUME BackupInv, NEW t \in BackupTasks, NEW ok \in BOOLEAN, Back!WriteBackup(t, ok)
  PROVE  BackupInv'
<1>1. backupTask[t].op = "backup" /\ backupTask[t].at = "write" /\ backupTask[t] \in CollectTask
  BY TaskTyped DEF Back!WriteBackup, BackupInv
<1>2. PICK q \in CollectTask : q = backupTask[t]
  BY <1>1
<1> DEFINE last == IF ok /\ made[q.id].full THEN made[q.id].createdAt ELSE lastFull
           entry == [id |-> q.id, status |-> IF ok THEN "completed" ELSE "failed"]
<1>3. /\ files' = IF ok THEN files \cup {q.id} ELSE files
      /\ backups' = Append(backups, entry) /\ lastFull' = last
      /\ backupTask' = [backupTask EXCEPT ![t] = Back!Saving(backups', last, ok, <<>>)]
      /\ UNCHANGED <<now, env, made, saved, concurrent>>
  BY <1>2, Zenon DEF Back!WriteBackup, Back!FullDate
<1>4. /\ Lists(backups, Finished) /\ lastFull \in FullDates /\ files \subseteq Finished
      /\ backups \in BackupList /\ lastFull \in Int /\ BackupTyped
      /\ made \in Seq(MadeBackup)
  BY DEF BackupInv, Filed, BackupTyped
<1>5. /\ q.op = "backup" /\ q.id \in Nat /\ q.id \in DOMAIN made
      /\ made[q.id].full => made[q.id].got # 0
  BY <1>1, <1>2 DEF CollectTask, BackupInv, BeingMade, BackupFits
<1>6. last \in FullDates /\ last \in Int
  <2>1. made[q.id].createdAt \in Int
    <3>1. made[q.id] \in MadeBackup
      BY <1>4, <1>5
    <3> QED
      BY <3>1 DEF MadeBackup
  <2>2. made[q.id].full => made[q.id].createdAt \in FullDates
    BY <1>5 DEF FullDates, FullBackups
  <2> QED
    BY <1>4, <2>1, <2>2
<1>7. entry \in BackupEntry /\ entry.id = q.id
      /\ entry.status = IF ok THEN "completed" ELSE "failed"
  BY <1>5 DEF BackupEntry
<1> HIDE DEF last, entry
<1>8. /\ backups' \in BackupList /\ <<>> \in BackupList
      /\ DOMAIN backups' = DOMAIN backups \cup {Len(backups) + 1}
      /\ backups'[Len(backups) + 1] = entry
      /\ \A i \in DOMAIN backups : backups'[i] = backups[i]
  BY <1>3, <1>4, <1>7 DEF BackupList
<1>9. PICK l \in BackupList, d \in Int : l = backups' /\ d = last
  BY <1>6, <1>8
<1>10. PICK r \in SomeTask :
         /\ r.op = "save" /\ r.data.list = backups' /\ r.data.lastFull = lastFull'
         /\ backupTask' = [backupTask EXCEPT ![t] = r]
  <2>1. /\ backups' = l /\ lastFull' = d
        /\ backupTask' = [backupTask EXCEPT ![t] = Back!Saving(l, d, ok, <<>>)]
    BY <1>3, <1>9
  <2> QED
    BY <1>8, <2>1, GoesOnToSave
<1>11. Finished \subseteq Finished' /\ q.id \in Finished'
  BY <1>1, <1>2, <1>3, <1>10, EndsMaking
<1>12. q.id \notin Finished
  BY <1>2, <1>5 DEF Finished, Making
<1>13. Lists(backups, Finished)' /\ files' \subseteq Finished'
  <2>1. Lists(backups, Finished')
    BY <1>4, <1>11, ListsGrow
  <2>2. \A i \in DOMAIN backups : backups[i].id # q.id
    BY <1>4, <1>12 DEF Lists
  <2> QED
    BY <1>3, <1>4, <1>7, <1>8, <1>11, <2>1, <2>2 DEF Lists
<1>14. lastFull' \in Int /\ lastFull' \in FullDates /\ r.op # "backup" /\ saved' = saved
  BY <1>3, <1>6, <1>10
<1>15. /\ concurrent' \in BOOLEAN
       /\ ~concurrent' => Quiet /\ \A u \in BackupTasks : u # t => backupTask[u].op = "none"
  BY <1>1, <1>3, GoesOnAlone
<1>16. ASSUME ~concurrent' PROVE Matching(backups, files)'
  <2>1. Matching(backups, files)
    BY <1>15, <1>16 DEF Quiet
  <2>2. \A i \in DOMAIN backups : backups[i].id # q.id
    BY <1>4, <1>12 DEF Lists
  <2>3. q.id \notin files
    BY <1>4, <1>12
  <2> QED
    BY <1>3, <1>7, <1>8, <2>1, <2>2, <2>3 DEF Matching
<1> QED
  BY <1>3, <1>8, <1>10, <1>13, <1>14, <1>15, <1>16, SavesQuietly, CallStep

\* A backup begins with a number of its own.
LEMMA CreateKeepsBackup ==
  ASSUME BackupInv, NEW t \in BackupTasks, NEW full \in BOOLEAN, Back!CreateBackup(t, full)
  PROVE  BackupInv'
<1> DEFINE since == IF full THEN -1 ELSE lastFull
           bases == {a \in DOMAIN made : /\ made[a].full /\ made[a].createdAt = since
                                         /\ made[a].got # 0}
           base == IF bases = {} THEN 0 ELSE CHOOSE a \in bases : TRUE
           rec == [full |-> full, createdAt |-> now, base |-> base, got |-> 0, seen |-> 0]
           n == Len(made) + 1
           r == [op |-> "backup", id |-> n, at |-> "collect", since |-> since]
<1>1. /\ Back!Free(t) /\ made' = Append(made, rec)
      /\ backupTask' = [backupTask EXCEPT ![t] =
           [op |-> "backup", id |-> Len(made'), at |-> "collect", since |-> since]]
      /\ concurrent' = (concurrent \/ Back!Others(t))
      /\ UNCHANGED <<now, env, backups, lastFull, files, saved>>
  BY Zenon DEF Back!CreateBackup, Back!Never, Back!Nothing, Back!Ids
<1>2. /\ made \in Seq(MadeBackup) /\ DOMAIN made = 1..Len(made) /\ Len(made) \in Nat
      /\ now \in Nat /\ lastFull \in Int /\ lastFull \in FullDates
      /\ backupTask \in [BackupTasks -> SomeTask]
      /\ BackupTyped /\ Recorded /\ BeingMade /\ Filed
  <2>1. BackupTyped /\ Recorded /\ BeingMade /\ Filed
    BY DEF BackupInv
  <2> QED
    BY <2>1 DEF BackupTyped, Filed
<1>3. /\ since \in Int
      /\ since # -1 => base \in FullBackups /\ made[base].createdAt = since
      /\ full => since = -1
      /\ base \in Nat
  <2>1. since \in Int /\ (full => since = -1)
    BY <1>2
  <2>2. ASSUME since # -1 PROVE base \in bases
    <3>1. \E a \in FullBackups : made[a].createdAt = since
      BY <1>2, <2>2 DEF FullDates
    <3>2. bases # {}
      BY <3>1 DEF FullBackups
    <3> QED
      BY <3>2
  <2>3. \A a \in bases : a \in FullBackups /\ made[a].createdAt = since
    BY DEF FullBackups
  <2>4. base \in Nat
    BY <1>2
  <2> HIDE DEF base, bases
  <2> QED
    BY <2>1, <2>2, <2>3, <2>4
<1> HIDE DEF since, base
<1>4. rec \in MadeBackup /\ rec.full = full /\ rec.createdAt = now /\ rec.base = base
      /\ rec.got = 0 /\ rec.seen = 0
  BY <1>2, <1>3 DEF MadeBackup
<1> HIDE DEF rec
<1>5. /\ made' \in Seq(MadeBackup) /\ Len(made') = n
      /\ DOMAIN made' = DOMAIN made \cup {n} /\ made'[n] = rec
      /\ \A b \in DOMAIN made : b # n /\ made'[b] = made[b]
  BY <1>1, <1>2, <1>4
<1>6. r \in SomeTask /\ r.op = "backup" /\ r.id = n /\ r.at = "collect" /\ r.since = since
  BY <1>2, <1>3 DEF SomeTask, CollectTask
<1>7. backupTask' = [backupTask EXCEPT ![t] = r]
  BY <1>1, <1>5
<1> HIDE DEF r
<1>8. /\ backupTask' \in [BackupTasks -> SomeTask] /\ backupTask'[t] = r
      /\ \A u \in BackupTasks : u # t => backupTask'[u] = backupTask[u]
  BY <1>2, <1>6, <1>7, TaskGoes
<1>9. /\ backupTask[t].op = "none" /\ concurrent' \in BOOLEAN
      /\ ~concurrent' => Quiet /\ \A u \in BackupTasks : u # t => backupTask[u].op = "none"
  BY <1>1, Begins
<1>10. FullBackups' = FullBackups /\ FullDates' = FullDates
  <2>1. FullBackups' = FullBackups
    BY <1>4, <1>5 DEF FullBackups
  <2> QED
    BY <1>5, <2>1 DEF FullDates, FullBackups
<1>11. Finished \subseteq Finished'
  BY <1>5, <1>6, <1>8 DEF Finished, Making
<1>12. BackupTyped'
  BY <1>1, <1>2, <1>5, <1>8, <1>9 DEF BackupTyped
<1>13. Recorded'
  <2>1. \A b \in DOMAIN made' : made'[b].createdAt <= now'
    BY <1>1, <1>2, <1>4, <1>5 DEF Recorded
  <2>2. \A b \in FullBackups : b \in DOMAIN made
    BY DEF FullBackups
  <2>3. \A b \in FullBackups' : env'.mtime < made'[b].createdAt => made'[b].got = env'.content
    BY <1>1, <1>2, <1>5, <1>10, <2>2 DEF Recorded
  <2>4. \A b \in DOMAIN made' : made'[b].seen # 0 /\ made'[b].got = 0 =>
          made'[b].base \in FullBackups' /\ made'[made'[b].base].got = made'[b].seen
    BY <1>2, <1>4, <1>5, <1>10, <2>2 DEF Recorded
  <2> QED
    BY <2>1, <2>3, <2>4 DEF Recorded
<1>14. \A u \in BackupTasks : BackupFits(backupTask[u])'
  <2>1. BackupFits(backupTask[t])'
    <3>1. base \in FullBackups => base \in DOMAIN made
      BY DEF FullBackups
    <3> QED
      BY <1>3, <1>4, <1>5, <1>6, <1>8, <1>10, <3>1 DEF BackupFits
  <2>2. ASSUME NEW u \in BackupTasks, u # t PROVE BackupFits(backupTask[u])'
    <3>1. \A a \in FullBackups : a \in DOMAIN made
      BY DEF FullBackups
    <3>2. BackupFits(backupTask[u])
      BY <1>2 DEF BeingMade
    <3> QED
      BY <1>5, <1>8, <1>10, <2>2, <3>1, <3>2 DEF BackupFits
  <2> QED
    BY <2>1, <2>2
<1>15. BeingMade'
  <2>1. \A u \in BackupTasks : \A b \in DOMAIN made' :
          Making(u, b)' <=> IF u = t THEN b = n ELSE Making(u, b)
    BY <1>6, <1>8 DEF Making
  <2>2. \A u \in BackupTasks : ~Making(u, n)
    BY <1>2, <1>5 DEF Making, BeingMade, BackupFits
  <2>3. \A u, v \in BackupTasks : \A b \in DOMAIN made' : Making(u, b)' /\ Making(v, b)' => u = v
    BY <1>2, <1>5, <2>1, <2>2 DEF BeingMade
  <2> QED
    BY <1>14, <2>3 DEF BeingMade
<1>16. Filed'
  <2>1. /\ Lists(backups, Finished)' /\ files' \subseteq Finished' /\ lastFull' \in FullDates'
    BY <1>1, <1>2, <1>10, <1>11, ListsGrow DEF Filed
  <2> QED
    BY <1>1, <1>6, <1>7, <1>10, <1>11, <2>1, FiledAgain
<1>17. ASSUME ~concurrent' PROVE Quiet'
  <2>1. /\ Matching(backups, files)
        /\ \A u \in BackupTasks : u # t => backupTask[u].op = "none"
        /\ SameList(saved.list, backups) /\ saved.lastFull = lastFull
    BY <1>9, <1>17 DEF Quiet
  <2>2. UNCHANGED <<backups, files, saved, lastFull>>
    BY <1>1
  <2>3. Matching(backups, files)' /\ SameList(saved.list, backups)' /\ saved'.lastFull = lastFull'
    BY <2>1, <2>2 DEF Matching, SameList
  <2>4. PICK p \in SomeTask : p = r
    BY <1>6
  <2>5. p.op = "backup" /\ backupTask' = [backupTask EXCEPT ![t] = p]
    BY <1>6, <1>7, <2>4
  <2>6. Pending(p)'
    BY <2>5 DEF Pending
  <2> QED
    BY <1>2, <2>1, <2>3, <2>5, <2>6, QuietAgain
<1> QED
  BY <1>12, <1>13, <1>15, <1>16, <1>17 DEF BackupInv

\* What an incremental backup skips is what its base has.
LEMMA CollectKeepsBackup ==
  ASSUME BackupInv, NEW t \in BackupTasks, Back!Collect(t)
  PROVE  BackupInv'
<1>1. backupTask[t].op = "backup" /\ backupTask[t].at = "collect" /\ backupTask[t] \in CollectTask
  BY TaskTyped DEF Back!Collect, BackupInv
<1>2. PICK q \in CollectTask : q = backupTask[t]
  BY <1>1
<1> DEFINE skips == q.since # -1 /\ env.mtime < q.since
           r == [q EXCEPT !.at = "write"]
<1>3. /\ made' = [made EXCEPT ![q.id].seen = env.content,
                              ![q.id].got = IF skips THEN 0 ELSE env.content]
      /\ backupTask' = [backupTask EXCEPT ![t].at = "write"]
      /\ UNCHANGED <<now, env, backups, lastFull, files, saved, concurrent>>
  BY <1>2, Zenon DEF Back!Collect, Back!Skips, Back!Never, Back!Nothing
<1>4. /\ made \in Seq(MadeBackup) /\ DOMAIN made = 1..Len(made) /\ Len(made) \in Nat
      /\ now \in Nat /\ env.content \in Nat \ {0} /\ env.mtime \in Nat
      /\ backupTask \in [BackupTasks -> SomeTask]
      /\ BackupTyped /\ Recorded /\ BeingMade /\ Filed
  <2>1. BackupTyped /\ Recorded /\ BeingMade /\ Filed
    BY DEF BackupInv
  <2> QED
    BY <2>1 DEF BackupTyped
<1>5. /\ q.op = "backup" /\ q.id \in DOMAIN made /\ q.at = "collect"
      /\ made[q.id].seen = 0 /\ made[q.id].got = 0
      /\ made[q.id].full => q.since = -1
      /\ q.since # -1 => /\ made[q.id].base \in FullBackups
                         /\ made[made[q.id].base].createdAt = q.since
  BY <1>1, <1>2, <1>4 DEF BeingMade, BackupFits
<1>6. r \in SomeTask /\ r.op = "backup" /\ r.id = q.id /\ r.at = "write" /\ r.since = q.since
  BY DEF SomeTask, CollectTask
<1>7. backupTask' = [backupTask EXCEPT ![t] = r]
  BY <1>2, <1>3
<1> HIDE DEF r
<1>8. /\ backupTask' \in [BackupTasks -> SomeTask] /\ backupTask'[t] = r
      /\ \A u \in BackupTasks : u # t => backupTask'[u] = backupTask[u]
  BY <1>4, <1>6, <1>7, TaskGoes
<1>9. \A b \in DOMAIN made : made[b] \in MadeBackup
  BY <1>4
<1>10. /\ made' \in Seq(MadeBackup) /\ DOMAIN made' = DOMAIN made
       /\ \A b \in DOMAIN made : b # q.id => made'[b] = made[b]
       /\ made'[q.id].full = made[q.id].full /\ made'[q.id].createdAt = made[q.id].createdAt
       /\ made'[q.id].base = made[q.id].base /\ made'[q.id].seen = env.content
       /\ made'[q.id].got = IF skips THEN 0 ELSE env.content
  <2> DEFINE rec == [made[q.id] EXCEPT !.seen = env.content,
                                       !.got = IF skips THEN 0 ELSE env.content]
  <2>1. made[q.id] \in MadeBackup
    BY <1>5, <1>9
  <2>2. /\ rec \in MadeBackup /\ rec.full = made[q.id].full
        /\ rec.createdAt = made[q.id].createdAt /\ rec.base = made[q.id].base
        /\ rec.seen = env.content /\ rec.got = IF skips THEN 0 ELSE env.content
    BY <1>4, <2>1 DEF MadeBackup
  <2>3. made' = [made EXCEPT ![q.id] = rec]
    BY <1>3, <1>5
  <2> HIDE DEF rec
  <2> QED
    BY <1>4, <1>5, <2>2, <2>3
<1>11. ~skips => q.id \in DOMAIN made' /\ made'[q.id].got # 0
  BY <1>4, <1>5, <1>10
<1>12. /\ FullBackups \subseteq FullBackups' /\ FullDates \subseteq FullDates'
       /\ \A b \in FullBackups : b # q.id
       /\ \A b \in FullBackups' : b = q.id \/ b \in FullBackups
       /\ q.id \in FullBackups' => made[q.id].full
  <2>1. /\ FullBackups \subseteq FullBackups' /\ \A b \in FullBackups : b # q.id
        /\ \A b \in FullBackups' : b = q.id \/ b \in FullBackups
        /\ q.id \in FullBackups' => made[q.id].full
    BY <1>5, <1>10 DEF FullBackups
  <2>2. FullDates \subseteq FullDates'
    BY <1>10, <2>1 DEF FullDates, FullBackups
  <2> QED
    BY <2>1, <2>2
<1>13. Finished' = Finished
  <2>1. \A u \in BackupTasks : \A b \in DOMAIN made : Making(u, b)' <=> Making(u, b)
    BY <1>2, <1>5, <1>6, <1>8 DEF Making
  <2> QED
    BY <1>10, <2>1 DEF Finished
<1>14. concurrent' \in BOOLEAN
       /\ (~concurrent' => Quiet /\ \A u \in BackupTasks : u # t => backupTask[u].op = "none")
  BY <1>1, <1>3, GoesOnAlone
<1>15. BackupTyped'
  BY <1>3, <1>4, <1>8, <1>10, <1>14 DEF BackupTyped
<1>16. made[q.id].full => ~skips
  BY <1>5
<1>17. skips => /\ made[q.id].base \in FullBackups
                /\ made[made[q.id].base].got = env.content
  <2>1. \A b \in FullBackups : env.mtime < made[b].createdAt => made[b].got = env.content
    BY <1>4 DEF Recorded
  <2> QED
    BY <1>5, <2>1
<1>18. Recorded'
  <2>1. \A b \in DOMAIN made' : made'[b].createdAt <= now'
    BY <1>3, <1>4, <1>10 DEF Recorded
  <2>2. \A b \in FullBackups' : env'.mtime < made'[b].createdAt => made'[b].got = env'.content
    <3>1. \A b \in FullBackups : b \in DOMAIN made
      BY DEF FullBackups
    <3> QED
      BY <1>3, <1>4, <1>10, <1>12, <1>16, <3>1 DEF Recorded
  <2>3. ASSUME NEW b \in DOMAIN made', made'[b].seen # 0, made'[b].got = 0
        PROVE  made'[b].base \in FullBackups' /\ made'[made'[b].base].got = made'[b].seen
    <3>1. CASE b = q.id
      <4>1. skips
        BY <1>11, <2>3, <3>1
      <4>2. made[q.id].base \in DOMAIN made
        BY <1>17, <4>1 DEF FullBackups
      <4> QED
        BY <1>10, <1>12, <1>17, <3>1, <4>1, <4>2
    <3>2. CASE b # q.id
      <4>1. made'[b] = made[b] /\ b \in DOMAIN made
        BY <1>10, <3>2
      <4>2. made[b].base \in FullBackups /\ made[made[b].base].got = made[b].seen
        BY <1>4, <2>3, <4>1 DEF Recorded
      <4>3. made[b].base \in DOMAIN made
        BY <4>2 DEF FullBackups
      <4> QED
        BY <1>10, <1>12, <4>1, <4>2, <4>3
    <3> QED
      BY <3>1, <3>2
  <2> QED
    BY <2>1, <2>2, <2>3 DEF Recorded
<1>19. \A u \in BackupTasks : BackupFits(backupTask[u])'
  <2>1. BackupFits(backupTask[t])'
    BY <1>5, <1>6, <1>8, <1>10, <1>11, <1>16 DEF BackupFits
  <2>2. ASSUME NEW u \in BackupTasks, u # t PROVE BackupFits(backupTask[u])'
    <3>1. BackupFits(backupTask[u]) /\ backupTask'[u] = backupTask[u]
      BY <1>4, <1>8, <2>2 DEF BeingMade
    <3>2. backupTask[u].op = "backup" =>
            backupTask[u].id \in DOMAIN made /\ backupTask[u].id # q.id
      BY <1>2, <1>4, <1>5, <2>2, <3>1 DEF BeingMade, Making, BackupFits
    <3>3. \A a \in FullBackups : a \in DOMAIN made
      BY DEF FullBackups
    <3> QED
      BY <1>10, <1>12, <3>1, <3>2, <3>3 DEF BackupFits
  <2> QED
    BY <2>1, <2>2
<1>20. BeingMade'
  <2>1. \A u \in BackupTasks : \A b \in DOMAIN made : Making(u, b)' <=> Making(u, b)
    BY <1>2, <1>5, <1>6, <1>8 DEF Making
  <2> QED
    BY <1>4, <1>10, <1>19, <2>1 DEF BeingMade
<1>21. Filed'
  <2>1. Lists(backups, Finished)' /\ files' \subseteq Finished' /\ lastFull' \in FullDates'
    BY <1>3, <1>4, <1>12, <1>13, ListsGrow DEF Filed
  <2> QED
    BY <1>3, <1>6, <1>7, <1>12, <1>13, <2>1, FiledAgain
<1>22. ASSUME ~concurrent' PROVE Quiet'
  <2>1. /\ Matching(backups, files)
        /\ \A u \in BackupTasks : u # t => backupTask[u].op = "none"
        /\ SameList(saved.list, backups) /\ saved.lastFull = lastFull
    BY <1>1, <1>14, <1>22 DEF Quiet
  <2>2. Matching(backups, files)' /\ SameList(saved.list, backups)' /\ saved'.lastFull = lastFull'
    BY <1>3, <2>1 DEF Matching, SameList
  <2>3. Pending(r)'
    BY <1>6 DEF Pending
  <2> QED
    BY <1>4, <1>6, <1>7, <2>1, <2>2, <2>3, QuietAgain
<1> QED
  BY <1>15, <1>18, <1>20, <1>21, <1>22 DEF BackupInv

LEMMA ClockKeepsBackup == BackupInv /\ Back!Tick => BackupInv'
<1> SUFFICES ASSUME BackupInv, Back!Tick PROVE BackupInv'
  OBVIOUS
<1>1. /\ now' = now + 1
      /\ UNCHANGED <<env, backups, made, lastFull, files, saved, backupTask, concurrent>>
  BY DEF Back!Tick
<1>2. BackupTyped /\ Recorded
  BY DEF BackupInv
<1>3. BackupTyped'
  BY <1>1, <1>2 DEF BackupTyped
<1>4. FullBackups' = FullBackups /\ FullDates' = FullDates /\ Finished' = Finished
  BY <1>1 DEF FullBackups, FullDates, Finished, Making
<1>5. Recorded'
  <2>1. \A b \in DOMAIN made : made[b].createdAt \in Int
    <3>1. made \in Seq(MadeBackup)
      BY <1>2 DEF BackupTyped
    <3>2. \A b \in DOMAIN made : made[b] \in MadeBackup
      BY <3>1
    <3> QED
      BY <3>2 DEF MadeBackup
  <2>2. \A b \in DOMAIN made : made[b].createdAt <= now'
    BY <1>1, <1>2, <2>1 DEF Recorded, BackupTyped
  <2> QED
    BY <1>1, <1>2, <1>4, <2>2 DEF Recorded
<1>6. BeingMade'
  BY <1>1, <1>4 DEF BackupInv, BeingMade, BackupFits, Making
<1>7. Filed'
  BY <1>1, <1>4 DEF BackupInv, Filed
<1>8. ~concurrent' => Quiet'
  BY <1>1 DEF BackupInv, Quiet, Pending
<1> QED
  BY <1>3, <1>5, <1>6, <1>7, <1>8 DEF BackupInv

\* The file of the environment changes, or is restored, at this time: every full
\* backup is then an earlier one.
LEMMA EnvironmentKeepsBackup ==
  ASSUME BackupInv, NEW content \in Nat \ {0}, env' = [content |-> content, mtime |-> now],
         UNCHANGED <<now, backups, made, lastFull, files, saved, backupTask, concurrent>>
  PROVE  BackupInv'
<1>1. BackupTyped /\ Recorded
  BY DEF BackupInv
<1>2. /\ env' \in [content : Nat \ {0}, mtime : Nat] /\ env'.mtime = now
      /\ now \in Nat /\ made \in Seq(MadeBackup)
  BY <1>1 DEF BackupTyped
<1>3. BackupTyped'
  BY <1>1, <1>2 DEF BackupTyped
<1>4. FullBackups' = FullBackups /\ FullDates' = FullDates /\ Finished' = Finished
  BY DEF FullBackups, FullDates, Finished, Making
<1>5. \A b \in DOMAIN made : made[b].createdAt \in Int /\ made[b].createdAt <= now
  <2>1. \A b \in DOMAIN made : made[b] \in MadeBackup
    BY <1>2
  <2> QED
    BY <1>1, <2>1 DEF Recorded, MadeBackup
<1>6. \A b \in FullBackups' : ~(env'.mtime < made'[b].createdAt)
  BY <1>2, <1>4, <1>5 DEF FullBackups
<1>7. Recorded'
  BY <1>1, <1>4, <1>5, <1>6 DEF Recorded
<1>8. BeingMade'
  BY <1>4 DEF BackupInv, BeingMade, BackupFits, Making
<1>9. Filed'
  BY <1>4 DEF BackupInv, Filed
<1>10. ~concurrent' => Quiet'
  BY DEF BackupInv, Quiet, Pending
<1> QED
  BY <1>3, <1>7, <1>8, <1>9, <1>10 DEF BackupInv

\* The process ends: what was in progress makes no backup any more.
LEMMA CrashKeepsBackup == BackupInv /\ Back!Crash => BackupInv'
<1> SUFFICES ASSUME BackupInv, Back!Crash PROVE BackupInv'
  OBVIOUS
<1>1. /\ backups' = saved.list /\ lastFull' = saved.lastFull
      /\ backupTask' = [t \in BackupTasks |-> Back!Idle]
      /\ concurrent' = (concurrent \/ \E t \in BackupTasks : backupTask[t] # Back!Idle)
      /\ UNCHANGED <<now, env, made, files, saved>>
  BY Zenon DEF Back!Crash
<1>2. BackupTyped /\ Recorded /\ BeingMade /\ Filed /\ (~concurrent => Quiet)
  BY DEF BackupInv
<1>3. /\ concurrent' \in BOOLEAN
      /\ ~concurrent' => ~concurrent /\ \A t \in BackupTasks : backupTask[t].op = "none"
  <2>1. concurrent \in BOOLEAN
    BY <1>2 DEF BackupTyped
  <2>2. concurrent' \in BOOLEAN
        /\ (~concurrent' => ~concurrent /\ \A t \in BackupTasks : backupTask[t] = Back!Idle)
    BY <1>1, <2>1, Zenon
  <2> QED
    BY <2>2, IdleOp
<1>4. \A t \in BackupTasks : backupTask'[t] \in SomeTask /\ backupTask'[t].op = "none"
  BY <1>1, IdleOp
<1>5. BackupTyped'
  <2>1. saved.list \in BackupList /\ saved.lastFull \in Int
    BY <1>2 DEF BackupTyped, BackupData
  <2>2. backupTask' \in [BackupTasks -> SomeTask]
    BY <1>1, <1>4
  <2> QED
    BY <1>1, <1>2, <1>3, <2>1, <2>2 DEF BackupTyped
<1>6. FullBackups' = FullBackups /\ FullDates' = FullDates /\ Finished \subseteq Finished'
  BY <1>1, <1>4 DEF FullBackups, FullDates, Finished, Making
<1>7. Recorded'
  BY <1>1, <1>2, <1>6 DEF Recorded
<1>8. BeingMade'
  BY <1>4 DEF BeingMade, BackupFits, Making
<1>9. Filed'
  <2>1. Lists(saved.list, Finished') /\ files \subseteq Finished'
    BY <1>2, <1>6, ListsGrow DEF Filed
  <2>2. lastFull' \in FullDates' /\ saved'.lastFull \in FullDates'
    BY <1>1, <1>2, <1>6 DEF Filed
  <2> QED
    BY <1>1, <1>4, <2>1, <2>2 DEF Filed
<1>10. ASSUME ~concurrent' PROVE Quiet'
  <2>1. SameList(saved.list, backups) /\ Matching(backups, files)
    BY <1>2, <1>3, <1>10 DEF Quiet
  <2>2. Matching(saved.list, files)
    <3>1. /\ \A i \in DOMAIN saved.list : \E j \in DOMAIN backups : saved.list[i] = backups[j]
          /\ \A j \in DOMAIN backups : \E i \in DOMAIN saved.list : saved.list[i] = backups[j]
      BY <2>1 DEF SameList
    <3> QED
      BY <2>1, <3>1 DEF Matching
  <2>3. Matching(backups, files)' /\ SameList(saved.list, backups)' /\ saved'.lastFull = lastFull'
    BY <1>1, <2>2 DEF Matching, SameList
  <2>4. \A t \in BackupTasks : Pending(backupTask[t])'
    BY <1>4 DEF Pending
  <2> QED
    BY <1>4, <2>3, <2>4 DEF Quiet
<1> QED
  BY <1>5, <1>7, <1>8, <1>9, <1>10 DEF BackupInv

LEMMA BackupKept == BackupInv /\ Back!Next => BackupInv'
<1> SUFFICES ASSUME BackupInv, Back!Next PROVE BackupInv'
  OBVIOUS
<1>1. BackupTyped
  BY DEF BackupInv
<1>2. CASE Back!Tick
  BY <1>2, ClockKeepsBackup
<1>3. CASE Back!Modify
  <2>1. PICK c \in Nat \ {0} : c = env.content + 1
    BY <1>1 DEF BackupTyped
  <2>2. /\ env' = [content |-> c, mtime |-> now]
        /\ UNCHANGED <<now, backups, made, lastFull, files, saved, backupTask, concurrent>>
    BY <1>3, <2>1 DEF Back!Modify
  <2> QED
    BY <2>2, EnvironmentKeepsBackup
<1>4. CASE Back!Crash
  BY <1>4, CrashKeepsBackup
<1>5. CASE \E t \in BackupTasks : Back!Collect(t)
  BY <1>5, CollectKeepsBackup
<1>6. CASE \E t \in BackupTasks : Back!Save(t)
  BY <1>6, SaveKeepsBackup
<1>7. CASE \E t \in BackupTasks : \/ Back!Cleanup(t)
                                  \/ \E b \in Back!Ids : Back!DeleteBackup(t, b)
  BY <1>7, DeletesKeepBackup
<1>8. CASE \E t \in BackupTasks : Back!Unlinked(t)
  BY <1>8, UnlinkedKeepsBackup
<1>9. CASE \E t \in BackupTasks, x \in BOOLEAN : Back!CreateBackup(t, x)
  BY <1>9, CreateKeepsBackup
<1>10. CASE \E t \in BackupTasks, x \in BOOLEAN : Back!WriteBackup(t, x)
  BY <1>10, WriteKeepsBackup
<1>11. CASE \E t \in BackupTasks, b \in Back!Ids, large \in BOOLEAN :
              Back!VerifyBackup(t, b, large)
  BY <1>11, VerifyKeepsBackup
<1>12. CASE \E b \in Back!Ids : Back!RestoreBackup(b)
  <2>1. PICK b \in Back!Ids : Back!RestoreBackup(b)
    BY <1>12
  <2>2. PICK c \in Nat \ {0} : c = made[b].got
    <3>1. made \in Seq(MadeBackup) /\ b \in DOMAIN made /\ made[b].got # 0
      BY <1>1, <2>1 DEF BackupTyped, Back!Ids, Back!RestoreBackup, Back!Nothing
    <3>2. made[b] \in MadeBackup
      BY <3>1
    <3> QED
      BY <3>1, <3>2 DEF MadeBackup
  <2>3. /\ env' = [content |-> c, mtime |-> now]
        /\ UNCHANGED <<now, backups, made, lastFull, files, saved, backupTask, concurrent>>
    BY <2>1, <2>2 DEF Back!RestoreBackup
  <2> QED
    BY <2>3, EnvironmentKeepsBackup
<1> QED
  BY <1>2, <1>3, <1>4, <1>5, <1>6, <1>7, <1>8, <1>9, <1>10, <1>11, <1>12, Zenon
     DEF Back!Next

\* What the invariant says about the backups.
LEMMA BackupSound ==
  BackupInv => Back!IncrementalIsComplete /\ Back!MetadataMatchesFiles
<1> SUFFICES ASSUME BackupInv
             PROVE  Back!IncrementalIsComplete /\ Back!MetadataMatchesFiles
  OBVIOUS
<1>1. Back!IncrementalIsComplete
  <2>1. ASSUME NEW b \in DOMAIN made, made[b].seen # 0, made[b].got = 0
        PROVE  made[b].base # 0 /\ made[made[b].base].got = made[b].seen
    <3>1. made[b].base \in FullBackups /\ made[made[b].base].got = made[b].seen
      BY <2>1 DEF BackupInv, Recorded
    <3>2. DOMAIN made = 1..Len(made) /\ Len(made) \in Nat
      BY DEF BackupInv, BackupTyped
    <3> QED
      BY <3>1, <3>2 DEF FullBackups
  <2> QED
    BY <2>1 DEF Back!IncrementalIsComplete, Back!Ids, Back!Nothing
<1>2. ASSUME ~concurrent, \A t \in BackupTasks : backupTask[t] = Back!Idle
      PROVE  /\ {b \in Back!Ids : Back!HasStatus(b, {"completed", "verified"})} = files
             /\ Back!Range(saved.list) = Back!Range(backups) /\ saved.lastFull = lastFull
  <2>1. /\ Matching(backups, files) /\ SameList(saved.list, backups)
        /\ saved.lastFull = lastFull
    BY <1>2, IdleOp DEF BackupInv, Quiet
  <2>2. files \subseteq Back!Ids
    BY DEF BackupInv, BackupTyped, Back!Ids
  <2>3. \A b : Back!HasStatus(b, {"completed", "verified"}) <=>
                 \E i \in DOMAIN backups : /\ backups[i].id = b
                                           /\ backups[i].status \in {"completed", "verified"}
    BY DEF Back!HasStatus, Back!Listed
  <2>4. \A b : Back!HasStatus(b, {"completed", "verified"}) <=> b \in files
    BY <2>1, <2>3 DEF Matching
  <2>5. Back!Range(saved.list) = Back!Range(backups)
    BY <2>1 DEF SameList, Back!Range
  <2> QED
    BY <2>1, <2>2, <2>4, <2>5
<1>3. Back!MetadataMatchesFiles
  BY <1>2, Zenon DEF Back!MetadataMatchesFiles
<1> QED
  BY <1>1, <1>3

-----------------------------------------------------------------------------
(* The three of them                                                         *)

StoredInv ==
    /\ part = "startup" => StartInv
    /\ part = "store" => StoreInv
    /\ part = "backups" => BackupInv

LEMMA StoredInitially == Init => StoredInv
BY StartInitially, StoreInitially, BackupInitially DEF Init, StoredInv

\* A step is one of the part that was chosen at first, or leaves the rest alone.
LEMMA StepOfStored ==
  ASSUME [Next]_vars
  PROVE  /\ part' = part
         /\ part = "startup" => Start!Next \/ UNCHANGED startupVars
         /\ part = "store" => Store!Next \/ UNCHANGED storeVars
         /\ part = "backups" => Back!Next \/ UNCHANGED backupVars
<1>1. CASE UNCHANGED vars
  BY <1>1 DEF vars
<1>2. CASE Only("startup") /\ Start!Next
  BY <1>2 DEF Only
<1>3. CASE Only("store") /\ Store!Next
  BY <1>3 DEF Only
<1>4. CASE Only("backups") /\ Back!Next
  BY <1>4 DEF Only
<1>5. CASE \E p \in Parts \ {"startup", "store", "backups"} : Only(p)
  BY <1>5 DEF Only
<1>6. Next => \/ Only("startup") /\ Start!Next
              \/ Only("store") /\ Store!Next
              \/ Only("backups") /\ Back!Next
              \/ \E p \in Parts \ {"startup", "store", "backups"} : Only(p)
  <2> DEFINE S == Parts \ {"startup", "store", "backups"}
  <2>1. /\ "manager" \in S /\ "healing" \in S /\ "scaling" \in S /\ "tuning" \in S
        /\ "advice" \in S /\ "channels" \in S /\ "pair" \in S /\ "handshake" \in S
        /\ "cipher" \in S /\ "wire" \in S /\ "logins" \in S /\ "keys" \in S
        /\ "roles" \in S /\ "http" \in S /\ "ipc" \in S
    BY DEF Parts
  <2> HIDE DEF S
  <2>2. Next => \/ Only("startup") /\ Start!Next
                \/ Only("store") /\ Store!Next
                \/ Only("backups") /\ Back!Next
                \/ \E p \in S : Only(p)
    BY <2>1, Zenon DEF Next
  <2> QED
    BY <2>2 DEF S
<1> QED
  BY <1>1, <1>2, <1>3, <1>4, <1>5, <1>6, Zenon

LEMMA StartStays ==
  ASSUME StartInv, UNCHANGED startupVars
  PROVE  StartInv'
<1>1. UNCHANGED <<home, pc, work, fresh, promised, cut>>
  BY DEF startupVars
<1>2. HomeTyped' /\ OnePhrase'
  BY <1>1 DEF StartInv, HomeTyped, OnePhrase, Holds
<1>3. Loading' /\ Sealing'
  BY <1>1 DEF StartInv, Loading, Sealing, Holds, InSeed, InEnc
<1>4. Beginning' /\ Kept'
  BY <1>1 DEF StartInv, Beginning, Kept, InSeed, InEnc
<1> QED
  BY <1>2, <1>3, <1>4 DEF StartInv

LEMMA StoreStays ==
  ASSUME StoreInv, UNCHANGED storeVars
  PROVE  StoreInv'
<1>1. UNCHANGED <<disk, tmp, cache, call, agreed, mixed>>
  BY DEF storeVars
<1>2. StoreTyped'
  BY <1>1 DEF StoreInv, StoreTyped, CacheFits, FilesTyped
<1>3. ASSUME NEW k \in StoreKeys \ mixed' PROVE KeyInv(k)'
  <2>1. KeyInv(k)
    BY <1>1, <1>3 DEF StoreInv
  <2> QED
    BY <1>1, <2>1 DEF KeyInv, Uses, Done, Stale, CacheAgrees
<1> QED
  BY <1>2, <1>3 DEF StoreInv

LEMMA BackupStays ==
  ASSUME BackupInv, UNCHANGED backupVars
  PROVE  BackupInv'
<1>1. UNCHANGED <<now, env, backups, made, lastFull, files, saved, backupTask, concurrent>>
  BY DEF backupVars
<1>2. BackupTyped'
  BY <1>1 DEF BackupInv, BackupTyped
<1>3. FullBackups' = FullBackups /\ FullDates' = FullDates /\ Finished' = Finished
  BY <1>1 DEF FullBackups, FullDates, Finished, Making
<1>4. Recorded' /\ BeingMade'
  BY <1>1, <1>3 DEF BackupInv, Recorded, BeingMade, BackupFits, Making
<1>5. Filed' /\ (~concurrent' => Quiet')
  BY <1>1, <1>3 DEF BackupInv, Filed, Quiet, Pending
<1> QED
  BY <1>2, <1>4, <1>5 DEF BackupInv

LEMMA StoredKept == StoredInv /\ [Next]_vars => StoredInv'
<1> SUFFICES ASSUME StoredInv, [Next]_vars PROVE StoredInv'
  OBVIOUS
<1>1. /\ part' = part
      /\ part = "startup" => Start!Next \/ UNCHANGED startupVars
      /\ part = "store" => Store!Next \/ UNCHANGED storeVars
      /\ part = "backups" => Back!Next \/ UNCHANGED backupVars
  BY StepOfStored
<1>2. CASE part = "startup"
  <2>1. StartInv'
    BY <1>1, <1>2, StartKept, StartStays DEF StoredInv
  <2> QED
    BY <1>1, <1>2, <2>1 DEF StoredInv
<1>3. CASE part = "store"
  <2>1. StoreInv'
    BY <1>1, <1>3, StoreKept, StoreStays DEF StoredInv
  <2> QED
    BY <1>1, <1>3, <2>1 DEF StoredInv
<1>4. CASE part = "backups"
  <2>1. BackupInv'
    BY <1>1, <1>4, BackupKept, BackupStays DEF StoredInv
  <2> QED
    BY <1>1, <1>4, <2>1 DEF StoredInv
<1>5. CASE part \notin {"startup", "store", "backups"}
  BY <1>1, <1>5 DEF StoredInv
<1> QED
  BY <1>2, <1>3, <1>4, <1>5

\* StoredIsKept: a migrated phrase is in the home directory whatever the crash,
\* and the keys derive from one phrase; a value that set() stored is read again
\* after a restart; an incremental backup and its full one hold the environment
\* as it was; and the metadata of backups lists the files there are.
THEOREM StoredStaysKept == Spec => []StoredIsKept
<1>1. Init => StoredInv
  BY StoredInitially
<1>2. StoredInv /\ [Next]_vars => StoredInv'
  BY StoredKept
<1>3. StoredInv => StoredIsKept
  BY StartSound, StoreSound, BackupSound DEF StoredInv, StoredIsKept
<1> QED
  BY <1>1, <1>2, <1>3, PTL DEF Spec

===============================================================================
