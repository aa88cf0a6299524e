------------------------------- MODULE Startup -------------------------------
(* The files of a node's environment: the checks of a start, the bootstrap,  *)
(* the loading of the keys, the two migrations of a plaintext seed, and the  *)
(* commands reset and recover (core.js, core/startup, core/crypto/keys.js,   *)
(* master.js and seed-protector.js).  A file is its content, a number; the   *)
(* process may end at any await, and tears the file that it is writing.      *)
(* Passwords are left out: they are what their owner remembers; a phrase is  *)
(* generated, or one that its owner has.                                     *)
EXTENDS Integers

CONSTANT MaxFresh        \* phrases and salts of the run (bound)

VARIABLES disk,          \* what the files of env/ hold
          pc,            \* what the process does next; "off" if there is none
          work,          \* the phrase and the key in its memory, and the key it was given
          fresh,         \* the last salt and phrase that were generated
          promised,      \* the phrase of seed.txt that a migration took on (history)
          cut            \* an overwritten seed.txt was left behind (history)

vars == <<disk, pc, work, fresh, promised, cut>>

Missing == 0
Torn == -1               \* also what has another length than it should
Noise == -2              \* what a plaintext seed is overwritten with
Content == Noise .. MaxFresh
Phrases == 1 .. MaxFresh

\* Key n is derived from salt n; the key and the phrase of the installation that
\* exists at first are 1.
Unsealed == [version |-> Missing, phrase |-> Missing, key |-> Missing]
NoWork == [phrase |-> Missing, key |-> Missing, given |-> Missing]
Empty == [env |-> FALSE, keys |-> FALSE, salt |-> Missing, master |-> Missing, seed |-> Missing,
          enc |-> Unsealed, identity |-> Missing, ecdh |-> Missing, trust |-> Missing]
Legacy == [env |-> TRUE, keys |-> TRUE, salt |-> Missing, master |-> 1, seed |-> 1,
           enc |-> Unsealed, identity |-> 1, ecdh |-> 1, trust |-> 1]

Init == /\ disk \in {Empty, Legacy}
        /\ pc = "off" /\ work = NoWork
        /\ fresh = 1
        /\ promised = Missing /\ cut = FALSE

-----------------------------------------------------------------------------
\* runStartupChecks() knows of seed.txt only, whatever seed.enc holds.
ChecksPass ==
    /\ disk.env /\ disk.keys
    /\ \A f \in {"master", "seed", "trust", "identity", "ecdh"} : disk[f] >= 1

\* startCore(): with everything in place it loads the keys, without a master key.
StartCore ==
    /\ pc = "off"
    /\ pc' = IF ChecksPass THEN "load" ELSE "ask"
    /\ work' = NoWork
    /\ UNCHANGED <<disk, fresh, promised, cut>>

\* A phrase is generated or entered, with a password, and replaces what there was.
Accepted ==
    /\ fresh < MaxFresh /\ fresh' = fresh + 1
    /\ \E p \in Phrases : work' = [NoWork EXCEPT !.phrase = p, !.key = fresh']
    /\ pc' = "salt" /\ promised' = Missing /\ cut' = FALSE

\* A phrase or a password that is refused ends the process.
Refused == pc' = "off" /\ UNCHANGED <<work, fresh, promised, cut>>

\* interactiveBootstrap()
Bootstrap ==
    /\ pc = "ask"
    /\ disk' = [disk EXCEPT !.env = TRUE, !.keys = TRUE]
    /\ Accepted \/ Refused

Writes(at, file, content, next) ==
    /\ pc = at /\ disk' = [disk EXCEPT ![file] = content]
    /\ pc' = next
    /\ UNCHANGED <<work, fresh, promised, cut>>

SaveSalt == Writes("salt", "salt", work.key, "master")
SaveMasterKey == Writes("master", "master", work.key, "seal")

Sealed(version) == [version |-> version, phrase |-> work.phrase, key |-> work.key]

\* The bootstrap loads the keys after this, and what it loads is always refused
\* (SeedOf): the rest of it, trust.json and the phrase on the screen, is never
\* reached.
SaveEncryptedSeed ==
    \/ Writes("seal", "enc", Sealed(1), "load")
    \/ Writes("seal1", "enc", Sealed(1), "unlink")

\* decryptSeedPhrase(): with another key it throws.
Decrypted(given) == IF disk.enc.key = given THEN disk.enc.phrase ELSE Missing

\* loadAllKeys(): what it takes the keys from; below 1 it throws.
SeedOf(given) ==
    IF disk.enc.version = 2 /\ given # Missing THEN Decrypted(given)
    ELSE IF disk.enc.version = 1 THEN Missing ELSE disk.seed

\* Given no master key, it is the start that loads them, and goes on to the
\* supervisor.
Loaded == IF work.given = Missing THEN "online" ELSE "off"
Unkeyed(file, next) == IF disk[file] >= 1 THEN next ELSE file

LoadAllKeys ==
    /\ pc = "load"
    /\ LET p == SeedOf(work.given)
       IN IF p >= 1
          THEN /\ work' = [work EXCEPT !.phrase = p]
               /\ pc' = Unkeyed("identity", Unkeyed("ecdh", Loaded))
          ELSE /\ work' = NoWork /\ pc' = "off"
    /\ UNCHANGED <<disk, fresh, promised, cut>>

SaveIdentity == Writes("identity", "identity", work.phrase, Unkeyed("ecdh", Loaded))
SaveEcdh == Writes("ecdh", "ecdh", work.phrase, Loaded)

-----------------------------------------------------------------------------
\* A migration takes on what seed.txt holds.
Promise == promised' = IF disk.seed >= 1 THEN disk.seed ELSE promised

\* deriveMasterKey() and loadMasterKey(): a torn salt or key is refused.
Derivable == disk.salt >= 1
HasMasterKey == disk.master >= 1

\* Faulty variant: where there is a seed.enc, the plaintext is removed.
MigrateRemoving ==
    /\ pc = "off" /\ Derivable /\ disk.seed # Missing
    /\ work' = [NoWork EXCEPT !.phrase = disk.seed, !.key = disk.salt]
    /\ pc' = IF disk.enc = Unsealed THEN "seal1" ELSE "unlink"
    /\ Promise
    /\ UNCHANGED <<disk, fresh, cut>>

\* migratePlaintextSeed(): with the key that the password and the salt give.
MigratePlaintextSeed ==
    /\ pc = "off" /\ Derivable /\ disk.seed # Missing /\ disk.enc = Unsealed
    /\ work' = [NoWork EXCEPT !.phrase = disk.seed, !.key = disk.salt]
    /\ pc' = "seal1"
    /\ Promise
    /\ UNCHANGED <<disk, fresh, cut>>

\* loadAllKeys() with the master key: migrateLegacySeed() comes first, and takes
\* whatever is in seed.txt (a torn file may be empty).
LoadWithMasterKey ==
    /\ pc = "off" /\ HasMasterKey
    /\ disk' = [disk EXCEPT !.keys = TRUE]
    /\ work' = [phrase |-> disk.seed, key |-> disk.master, given |-> disk.master]
    /\ \/ disk.seed # Missing /\ pc' = "seal2" /\ Promise
       \/ disk.seed \in {Missing, Torn} /\ pc' = "load" /\ UNCHANGED promised
    /\ UNCHANGED <<fresh, cut>>

SaveMigratedSeed == Writes("seal2", "enc", Sealed(2), "wipe")
OverwriteLegacy == Writes("wipe", "seed", Noise, "unlink")
UnlinkLegacy ==
    Writes("unlink", "seed", Missing, IF work.given = Missing THEN "off" ELSE "load")

-----------------------------------------------------------------------------
Fresh == [Empty EXCEPT !.env = TRUE, !.keys = TRUE]

\* resetEnvironment(), which recover begins with; recoverFromSeed() writes a
\* master.key that has the wrong length and a trust.json without peers.
ResetEnvironment ==
    /\ pc = "off"
    /\ disk' = Fresh
    /\ promised' = Missing /\ cut' = FALSE
    /\ UNCHANGED <<pc, work, fresh>>

\* Faulty variant: recovers over what there is.
RecoverOver ==
    /\ pc = "off"
    /\ disk' = [disk EXCEPT !.env = TRUE, !.keys = TRUE]
    /\ \E p \in Phrases : work' = [NoWork EXCEPT !.phrase = p]
    /\ pc' = "rmaster"
    /\ promised' = Missing /\ cut' = FALSE
    /\ UNCHANGED fresh

FullRecovery ==
    /\ pc = "off"
    /\ disk' = Fresh
    /\ \E p \in Phrases : work' = [NoWork EXCEPT !.phrase = p]
    /\ pc' = "rmaster"
    /\ promised' = Missing /\ cut' = FALSE
    /\ UNCHANGED fresh

RecoverFromSeed ==
    \/ Writes("rmaster", "master", Torn, "rseed")
    \/ Writes("rseed", "seed", work.phrase, "rtrust")
    \/ Writes("rtrust", "trust", Torn, "off")

Removable == {"salt", "master", "seed", "identity", "ecdh", "trust"}

\* The process ends in the middle of the removal.
ResetCut ==
    /\ pc = "off"
    /\ \E F \in SUBSET Removable, e \in {disk.enc, Unsealed} :
           disk' = [f \in DOMAIN disk |->
                        IF f = "enc" THEN e ELSE IF f \in F THEN Missing ELSE disk[f]]
    /\ promised' = Missing /\ cut' = FALSE
    /\ UNCHANGED <<pc, work, fresh>>

-----------------------------------------------------------------------------
WrittenAt == [salt |-> "salt", master |-> "master", seal |-> "enc", seal1 |-> "enc", seal2 |-> "enc",
              identity |-> "identity", ecdh |-> "ecdh", wipe |-> "seed",
              rmaster |-> "master", rseed |-> "seed", rtrust |-> "trust"]

\* The process ends: a write in progress has done nothing or tears its file.
Crash ==
    /\ pc # "off" /\ pc' = "off"
    /\ \/ UNCHANGED disk
       \/ /\ pc \in DOMAIN WrittenAt
          /\ disk' = [disk EXCEPT ![WrittenAt[pc]] =
                          IF WrittenAt[pc] = "enc" THEN [Unsealed EXCEPT !.version = Torn] ELSE Torn]
    /\ work' = NoWork
    /\ cut' = (cut \/ (pc \in {"wipe", "unlink"} /\ disk'.seed < Missing))
    /\ UNCHANGED <<fresh, promised>>

Next ==
    \/ StartCore \/ Bootstrap \/ SaveSalt \/ SaveMasterKey \/ SaveEncryptedSeed
    \/ LoadAllKeys \/ SaveIdentity \/ SaveEcdh
    \/ MigratePlaintextSeed \/ LoadWithMasterKey \/ SaveMigratedSeed \/ OverwriteLegacy
    \/ UnlinkLegacy
    \/ ResetEnvironment \/ FullRecovery \/ RecoverFromSeed \/ ResetCut
    \/ Crash

-----------------------------------------------------------------------------
TypeOK ==
    /\ disk \in [env : BOOLEAN, keys : BOOLEAN, salt : Content, master : Content, seed : Content,
                 enc : [version : {Torn, Missing, 1, 2}, phrase : Content, key : Content],
                 identity : Content, ecdh : Content, trust : Content]
    /\ pc \in {"off", "ask", "load", "unlink", "online"} \cup DOMAIN WrittenAt
    /\ work \in [phrase : Content, key : Content, given : Content]
    /\ fresh \in 1 .. MaxFresh /\ promised \in Content /\ cut \in BOOLEAN

\* The phrase that a migration took on is in seed.txt, or in seed.enc under a
\* key that the files give, wherever the process ended and whatever ran since
\* (migrateToEncryptedSeed, migrateLegacySeed) - unless it ended between the
\* overwriting of seed.txt and its removal: the next migration then takes the
\* noise for a phrase and seals it over the phrase.
SeedKept ==
    promised = Missing \/ cut
    \/ disk.seed = promised
    \/ /\ disk.enc.phrase = promised
       /\ disk.enc.key \in {disk.salt, disk.master}

\* Two keys that are on the disk come from one phrase, and a node that is
\* online has those of its seed.txt, however often it crashed, was reset or
\* recovered (loadAllKeys keeps what it finds).
KeysAgree ==
    /\ disk.identity >= 1 /\ disk.ecdh >= 1 => disk.identity = disk.ecdh
    /\ pc = "online" => disk.identity = disk.seed /\ disk.ecdh = disk.seed

=============================================================================
