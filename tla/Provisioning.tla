---------------------------- MODULE Provisioning ----------------------------
(***************************************************************************)
(* core/vault/provision.go and registry.go: how a profile name becomes a   *)
(* usable vault and how it is forgotten.  Several processes (CLI commands, *)
(* MCP servers) share the registry file vaults.yaml, guarded by a file     *)
(* lock, and one directory per profile with recovery.seed, state.json and  *)
(* cache.db.                                                               *)
(*                                                                         *)
(* A file operation, the taking of the lock with the reads and checks up   *)
(* to the next write, the browser approval and the cache rebuild are one   *)
(* action each.  A process may die between any two of them: the kernel     *)
(* drops its lock and the files stay as they are.                          *)
(***************************************************************************)
EXTENDS FiniteSets

CONSTANTS Procs,     \* processes, each running one call at a time
          Profiles,  \* profile names
          Vaults,    \* vaults; a mnemonic determines its vault
          Foreign,   \* vaults that were made on other machines
          Faults     \* which calls to the outside may fail

Absent  == "absent"   \* the registry has no entry for the profile
Pending == "pending"  \* its entry has an empty VaultID
None    == "none"     \* no file, no holder, no default

FaultKinds == {"approval", "state", "db", "save", "chmod", "removeAll", "unlink", "crash"}

ASSUME VaultsAssumption  == {Absent, Pending, None} \cap (Vaults \cup Profiles \cup Procs) = {}
ASSUME ForeignAssumption == Foreign \subseteq Vaults
ASSUME FaultsAssumption  == Faults \subseteq FaultKinds

VARIABLES
  registry, \* vaults.yaml: [vault |-> [profile -> VaultID], keep, default]
  seed,     \* [profile -> vault]  whose mnemonic recovery.seed holds
  state,    \* [profile -> vault]  whose app key state.json holds
  dbs,      \* profiles with a cache.db
  rows,     \* [profile -> vaults]  whose files the cache.db lists
  lock,     \* holder of the registry lock
  call,     \* [process -> where its call is, and the call's locals]
  minted,   \* vaults whose mnemonic exists
  leftDir,  \* profiles with files a cut-short call left (history)
  leftSeed  \* profiles whose seed a restore left: cut short, or unable to remove it (history)

fileVars == <<seed, state, dbs, rows>>
history  == <<leftDir, leftSeed>>
vars == <<registry, fileVars, lock, call, minted, history>>

EmptyRegistry == [vault |-> [p \in Profiles |-> Absent], keep |-> {}, default |-> None]

Idle == [pc |-> "idle", op |-> "none", profile |-> None, vault |-> None, reg |-> EmptyRegistry]

Init ==
  /\ registry = EmptyRegistry
  /\ seed  = [p \in Profiles |-> None]
  /\ state = [p \in Profiles |-> None]
  /\ dbs   = {}
  /\ rows  = [p \in Profiles |-> {}]
  /\ lock  = None
  /\ call  = [c \in Procs |-> Idle]
  /\ minted = Foreign
  /\ leftDir = {} /\ leftSeed = {}

Registered(r, p) == r.vault[p] # Absent
Active(r, p)     == r.vault[p] \in Vaults

At(c, pc)   == call[c].pc = pc
Goto(c, pc) == call' = [call EXCEPT ![c].pc = pc]
Return(c)   == call' = [call EXCEPT ![c] = Idle]

NewCall(pc, op, p, v) == [Idle EXCEPT !.pc = pc, !.op = op, !.profile = p, !.vault = v]

Begin(c, pc, op, p, v) == call' = [call EXCEPT ![c] = NewCall(pc, op, p, v)]

(* The call goes on without the lock and the snapshot.                     *)
Finish(c, pc) == Begin(c, pc, call[c].op, call[c].profile, None)

Unlock == lock' = None

LoadWithoutLock(c, m) ==
  /\ call' = [call EXCEPT ![c] = [m EXCEPT !.reg = registry]]
  /\ UNCHANGED lock

(* lockRegistry and LoadRegistry: call m goes on with the freshest         *)
(* snapshot, under the lock.                                               *)
LockAndLoad(c, m) ==
  /\ lock = None
  /\ lock' = c
  /\ call' = [call EXCEPT ![c] = [m EXCEPT !.reg = registry]]

(* An entry of the snapshot, with the default it gets if there is none.    *)
Upsert(r, p, v, kept) ==
  [vault   |-> [r.vault EXCEPT ![p] = v],
   keep    |-> IF kept THEN r.keep \cup {p} ELSE r.keep \ {p},
   default |-> IF r.default = None THEN p ELSE r.default]

(* SaveRegistry(r), temp file and rename.  It fails before the rename, or  *)
(* after it, when the file system rejects the final chmod: then the        *)
(* registry is written and the caller gets an error all the same.          *)
Saved(r) == registry' = r

SaveFailed(r) ==
  \/ "save"  \in Faults /\ UNCHANGED registry
  \/ "chmod" \in Faults /\ registry' = r

(* os.Remove of recovery.seed, by name.  Whoever ignores its error goes on *)
(* with the file still there.                                              *)
RemoveSeed(p) ==
  \/ seed' = [seed EXCEPT ![p] = None]
  \/ "unlink" \in Faults /\ UNCHANGED seed

-----------------------------------------------------------------------------
(* Create: the checks ...                                                  *)
CreateCheck(c, p) ==
  /\ At(c, "idle")
  /\ ~Active(registry, p)
  /\ seed[p] = None
  /\ Begin(c, "seed", "create", p, None)
  /\ UNCHANGED <<registry, fileVars, lock, minted, history>>

(* ... and the fresh mnemonic in the seed file, outside the lock.          *)
CreateWriteSeed(c) ==
  /\ At(c, "seed")
  /\ \E v \in Vaults \ minted :
       /\ minted' = minted \cup {v}
       /\ seed'   = [seed EXCEPT ![call[c].profile] = v]
       /\ call'   = [call EXCEPT ![c] = [@ EXCEPT !.pc = "approve", !.vault = v]]
  /\ UNCHANGED <<registry, state, dbs, rows, lock, history>>

(* Restore: the human types the mnemonic of any vault there is.            *)
RestoreCheck(c, p, v) ==
  /\ At(c, "idle")
  /\ ~Active(registry, p)
  /\ v \in minted
  /\ Begin(c, "approve", "restore", p, v)
  /\ UNCHANGED <<registry, fileVars, lock, minted, history>>

(* What follows an error of driveApproval or finishRestoreLocked: Create   *)
(* removes the seed file.                                                  *)
AfterError(c) == IF call[c].op = "create" THEN Finish(c, "rollback") ELSE Return(c)

(* driveApproval: Request and WaitAndRegister.                             *)
DriveApproval(c) ==
  /\ At(c, "approve")
  /\ \/ Goto(c, "finish")
     \/ "approval" \in Faults /\ AfterError(c)
  /\ UNCHANGED <<registry, fileVars, lock, minted, history>>

CreateRollback(c) ==
  /\ At(c, "rollback")
  /\ RemoveSeed(call[c].profile)
  /\ Return(c)
  /\ UNCHANGED <<registry, state, dbs, rows, lock, minted, history>>

-----------------------------------------------------------------------------
(* finishRestoreLocked                                                     *)

(* ProfileVaultID, or the registry's VaultID if there is no state.json.    *)
ExistingID(q) == IF state[q] # None THEN state[q] ELSE registry.vault[q]

AlreadyActiveHere(p, v) == registry.vault[p] = v

AlreadyConfigured(p, v) ==
  \E q \in Profiles \ {p} : Registered(registry, q) /\ ExistingID(q) = v

Consumed == {q \in Profiles : Active(registry, q)} \ registry.keep

(* reconcileLocked: the consumed seeds of active profiles are removed, as  *)
(* many of them as the directory can be read and the files deleted.        *)
ReconcileLocked ==
  \E R \in SUBSET {q \in Consumed : seed[q] # None} :
    /\ "unlink" \in Faults \/ R = {q \in Consumed : seed[q] # None}
    /\ seed'     = [q \in Profiles |-> IF q \in R THEN None ELSE seed[q]]
    /\ leftSeed' = {q \in leftSeed : q \in Consumed => seed'[q] # None}

FinishWithoutRecheck(c) ==
  LET p == call[c].profile IN
  /\ At(c, "finish")
  /\ ReconcileLocked
  /\ \/ AlreadyConfigured(p, call[c].vault) /\ lock = None /\ AfterError(c) /\ UNCHANGED lock
     \/ ~AlreadyConfigured(p, call[c].vault) /\ LockAndLoad(c, [call[c] EXCEPT !.pc = "state"])
  /\ UNCHANGED <<registry, state, dbs, rows, minted, leftDir>>

(* The lock, the reconciliation and the checks.                            *)
FinishLock(c) ==
  LET p == call[c].profile
      rejected == Active(registry, p) \/ AlreadyConfigured(p, call[c].vault)
  IN /\ At(c, "finish")
     /\ ReconcileLocked
     /\ \/ rejected /\ lock = None /\ AfterError(c) /\ UNCHANGED lock
        \/ ~rejected /\ LockAndLoad(c, [call[c] EXCEPT !.pc = "state"])
     /\ UNCHANGED <<registry, state, dbs, rows, minted, leftDir>>

SaveRegistryIDInState(c) ==
  /\ At(c, "state")
  /\ state' = [state EXCEPT ![call[c].profile] = registry.vault[call[c].profile]]
  /\ Goto(c, "db")
  /\ UNCHANGED <<registry, seed, dbs, rows, lock, minted, history>>

(* SaveProfileState writes state.json the way SaveRegistry writes its file. *)
SaveProfileState(c) ==
  LET written == [state EXCEPT ![call[c].profile] = call[c].vault] IN
  /\ At(c, "state")
  /\ \/ state' = written /\ Goto(c, "db") /\ UNCHANGED lock
     \/ /\ \/ "state" \in Faults /\ UNCHANGED state
           \/ "chmod" \in Faults /\ state' = written
        /\ AfterError(c)
        /\ Unlock
  /\ UNCHANGED <<registry, seed, dbs, rows, minted, history>>

(* OpenDB creates cache.db or opens the one that is there.                 *)
OpenDB(c) ==
  LET p == call[c].profile IN
  /\ At(c, "db")
  /\ \/ /\ dbs' = dbs \cup {p}
        /\ Goto(c, "commit")
        /\ UNCHANGED <<lock, leftDir>>
     \/ /\ "db" \in Faults
        /\ dbs' \in {dbs, dbs \cup {p}}
        /\ AfterError(c)
        /\ Unlock
        /\ leftDir' = leftDir \cup {p}
  /\ UNCHANGED <<registry, seed, state, rows, minted, leftSeed>>

(* The upsert: the commit point.  A restore goes on without the lock.      *)
CommitActive(c) ==
  LET m == call[c]
      new == Upsert(m.reg, m.profile, m.vault, m.op = "create")
  IN /\ At(c, "commit")
     /\ \/ /\ Saved(new)
           /\ IF m.op = "create" THEN Return(c) ELSE Finish(c, "sync")
           /\ UNCHANGED history
        \/ /\ SaveFailed(new)
           /\ AfterError(c)
           /\ leftSeed' = leftSeed \cup {m.profile}
           /\ leftDir'  = leftDir \cup {m.profile}
     /\ Unlock
     /\ UNCHANGED <<fileVars, minted>>

(* The files of the vault whose key is in state.json reach the cache.      *)
FillCache(p) ==
  rows' = IF state[p] # None /\ p \in dbs THEN [rows EXCEPT ![p] = @ \cup {state[p]}] ELSE rows

(* The cache rebuild of a restore: skipped, failed or done.                *)
RebuildCache(c) ==
  /\ At(c, "sync")
  /\ FillCache(call[c].profile) \/ UNCHANGED rows
  /\ Goto(c, "consume")
  /\ UNCHANGED <<registry, seed, state, dbs, lock, minted, history>>

ReturnUnconsumed(c) ==
  /\ At(c, "consume")
  /\ Return(c)
  /\ UNCHANGED <<registry, fileVars, lock, minted, history>>

(* Consume the one-time recovery seed; the restore has succeeded even if   *)
(* the file stays.                                                         *)
ConsumeSeed(c) ==
  LET p == call[c].profile IN
  /\ At(c, "consume")
  /\ RemoveSeed(p)
  /\ leftSeed' = IF seed'[p] = None THEN leftSeed ELSE leftSeed \cup {p}
  /\ Return(c)
  /\ UNCHANGED <<registry, state, dbs, rows, lock, minted, leftDir>>

-----------------------------------------------------------------------------
(* CreatePending, under the lock: the checks and the seed file ...         *)
CreatePendingSeed(c, p) ==
  /\ At(c, "idle")
  /\ seed[p] = None
  /\ ~Active(registry, p)
  /\ \E v \in Vaults \ minted :
       /\ minted' = minted \cup {v}
       /\ seed'   = [seed EXCEPT ![p] = v]
       /\ LockAndLoad(c, NewCall("pending", "createPending", p, v))
  /\ UNCHANGED <<registry, state, dbs, rows, history>>

(* ... then the pending entry; its seed is removed if that fails, but not  *)
(* a seed another call wrote.                                              *)
CommitPending(c) ==
  LET m == call[c]
      new == Upsert(m.reg, m.profile, Pending, FALSE)
  IN /\ At(c, "pending")
     /\ \/ Saved(new) /\ UNCHANGED seed
        \/ /\ SaveFailed(new)
           /\ IF seed[m.profile] = m.vault THEN RemoveSeed(m.profile) ELSE UNCHANGED seed
     /\ Unlock
     /\ Return(c)
     /\ UNCHANGED <<state, dbs, rows, minted, history>>

(* RemoveProfile: first the registry ...                                   *)
ForgetLock(c, p) ==
  /\ At(c, "idle")
  /\ Registered(registry, p)
  /\ LockAndLoad(c, NewCall("forget", "forget", p, None))
  /\ UNCHANGED <<registry, fileVars, minted, history>>

WithoutProfile(r, p) ==
  [vault   |-> [r.vault EXCEPT ![p] = Absent],
   keep    |-> r.keep \ {p},
   default |-> IF r.default = p THEN None ELSE r.default]

ForgetSave(c) ==
  LET p == call[c].profile
      new == WithoutProfile(call[c].reg, p)
  IN /\ At(c, "forget")
     /\ \/ Saved(new) /\ Goto(c, "removeAll") /\ UNCHANGED <<lock, leftDir>>
        \/ /\ SaveFailed(new)
           /\ Return(c) /\ Unlock
           /\ leftDir' = IF registry' = new THEN leftDir \cup {p} ELSE leftDir
     /\ UNCHANGED <<fileVars, minted, leftSeed>>

RemoveSecrets(S, D, K, p) ==
  /\ seed'  = IF p \in S THEN [seed EXCEPT ![p] = None] ELSE seed
  /\ state' = IF p \in K THEN [state EXCEPT ![p] = None] ELSE state
  /\ UNCHANGED <<dbs, rows>>

RemoveFiles(S, D, K, p) ==
  /\ seed'  = IF p \in S THEN [seed EXCEPT ![p] = None] ELSE seed
  /\ state' = IF p \in K THEN [state EXCEPT ![p] = None] ELSE state
  /\ IF p \in D THEN dbs' = dbs \ {p} /\ rows' = [rows EXCEPT ![p] = {}]
               ELSE UNCHANGED <<dbs, rows>>

(* ... then the directory, all of it or as much as can be removed.         *)
RemoveAll(c) ==
  LET p == call[c].profile IN
  /\ At(c, "removeAll")
  /\ \/ RemoveFiles({p}, {p}, {p}, p) /\ leftDir' = leftDir \ {p}
     \/ /\ "removeAll" \in Faults
        /\ \E S, D, K \in {{}, {p}} : RemoveFiles(S, D, K, p)
        /\ leftDir' = leftDir \cup {p}
  /\ Unlock
  /\ Return(c)
  /\ UNCHANGED <<registry, minted, leftSeed>>

(* SetDefaultProfile                                                       *)
SetDefaultLock(c, p) ==
  /\ At(c, "idle")
  /\ Registered(registry, p)
  /\ LockAndLoad(c, NewCall("default", "setDefault", p, None))
  /\ UNCHANGED <<registry, fileVars, minted, history>>

SetDefaultSave(c) ==
  LET new == [call[c].reg EXCEPT !.default = call[c].profile] IN
  /\ At(c, "default")
  /\ Saved(new) \/ SaveFailed(new)
  /\ Unlock
  /\ Return(c)
  /\ UNCHANGED <<fileVars, minted, history>>

(* MarkSeedRetrieved, once the human has taken the seed of a created       *)
(* vault: the file first, then the KeepSeed mark.                          *)
RetrievedRemoveSeed(c, p) ==
  /\ At(c, "idle")
  /\ p \in registry.keep
  /\ seed' = [seed EXCEPT ![p] = None]
  /\ LockAndLoad(c, NewCall("retrieved", "retrieved", p, None))
  /\ UNCHANGED <<registry, state, dbs, rows, minted, history>>

RetrievedSave(c) ==
  LET new == [call[c].reg EXCEPT !.keep = @ \ {call[c].profile}] IN
  /\ At(c, "retrieved")
  /\ Saved(new) \/ SaveFailed(new)
  /\ Unlock
  /\ Return(c)
  /\ UNCHANGED <<fileVars, minted, history>>

-----------------------------------------------------------------------------
(* A service of an active profile puts and syncs files.                    *)
UseProfile(p) ==
  /\ Active(registry, p)
  /\ FillCache(p)
  /\ UNCHANGED <<registry, seed, state, dbs, lock, call, minted, history>>

(* A process dies; flock lets go of its lock.                              *)
Crash(c) ==
  LET p == call[c].profile IN
  /\ "crash" \in Faults
  /\ ~At(c, "idle")
  /\ Return(c)
  /\ lock'     = IF lock = c THEN None ELSE lock
  /\ leftDir'  = IF call[c].pc \in {"db", "commit", "removeAll"} THEN leftDir \cup {p} ELSE leftDir
  /\ leftSeed' = IF call[c].pc \in {"sync", "consume"} THEN leftSeed \cup {p} ELSE leftSeed
  /\ UNCHANGED <<registry, fileVars, minted>>

Step(c) ==
  \/ CreateWriteSeed(c) \/ CreateRollback(c)
  \/ SaveProfileState(c) \/ OpenDB(c) \/ CommitActive(c) \/ ConsumeSeed(c)
  \/ CommitPending(c) \/ ForgetSave(c) \/ RemoveAll(c)
  \/ SetDefaultSave(c) \/ RetrievedSave(c)

Start(c, p) ==
  \/ CreateCheck(c, p) \/ (\E v \in Vaults : RestoreCheck(c, p, v))
  \/ CreatePendingSeed(c, p) \/ ForgetLock(c, p)
  \/ SetDefaultLock(c, p) \/ RetrievedRemoveSeed(c, p)

Next ==
  \/ \E c \in Procs :
       \/ \E p \in Profiles : Start(c, p)
       \/ Step(c) \/ DriveApproval(c) \/ FinishLock(c) \/ RebuildCache(c) \/ Crash(c)
  \/ \E p \in Profiles : UseProfile(p)

Spec == Init /\ [][Next]_vars

-----------------------------------------------------------------------------
PCs == {"idle", "seed", "approve", "rollback", "finish", "state", "db", "commit", "sync",
        "consume", "pending", "forget", "removeAll", "default", "retrieved"}

Ops == {"none", "create", "restore", "createPending", "forget", "setDefault", "retrieved"}

Registries == [vault   : [Profiles -> Vaults \cup {Absent, Pending}],
               keep    : SUBSET Profiles,
               default : Profiles \cup {None}]

TypeOK ==
  /\ registry \in Registries
  /\ seed  \in [Profiles -> Vaults \cup {None}]
  /\ state \in [Profiles -> Vaults \cup {None}]
  /\ dbs   \in SUBSET Profiles
  /\ rows  \in [Profiles -> SUBSET Vaults]
  /\ lock  \in Procs \cup {None}
  /\ call  \in [Procs -> [pc : PCs, op : Ops, profile : Profiles \cup {None},
                          vault : Vaults \cup {None}, reg : Registries]]
  /\ minted \in SUBSET Vaults
  /\ leftDir \in SUBSET Profiles /\ leftSeed \in SUBSET Profiles

(* No vault is active under two profile names.                             *)
OneVaultOneProfile ==
  \A p, q \in Profiles : Active(registry, p) /\ registry.vault[p] = registry.vault[q] => p = q

(* An active profile has its database, and the credentials in state.json   *)
(* are those of the vault the registry names.                              *)
ActiveHasItsKey ==
  \A p \in Profiles : Active(registry, p) => p \in dbs /\ state[p] = registry.vault[p]

(* The default profile, if there is one, is registered.                    *)
DefaultIsRegistered == registry.default # None => Registered(registry, registry.default)

(* An active profile leaves the registry, or changes its vault, only when  *)
(* it is forgotten: no writer saves a stale snapshot.                      *)
OnlyForgetRemoves ==
  [][\A p \in Profiles :
       Active(registry, p) /\ registry'.vault[p] # registry.vault[p] =>
         \E c \in Procs : At(c, "forget") /\ call[c].profile = p]_vars

(* The cache of an active profile lists files of its own vault only,       *)
(* unless a cut-short call left files of another one in the directory.     *)
NoForeignRows ==
  \A p \in Profiles :
    Active(registry, p) /\ p \notin leftDir => rows[p] \subseteq {registry.vault[p]}

(* "The plaintext master mnemonic must not persist on disk after use"      *)
(* (provision.go:566): a consumed mnemonic stays only while its restore is *)
(* still to remove it, or if that restore was cut short or could not       *)
(* remove the file (its error is ignored, provision.go:570), and then only *)
(* until the reconciliation of a later Create or Restore can remove it.    *)
ConsumedSeedGoes ==
  \A p \in Consumed \ leftSeed :
    seed[p] = registry.vault[p] =>
      \E c \in Procs : call[c].profile = p /\ call[c].pc \in {"sync", "consume"}

(* The holder of the lock never waits for a human or for the network, and  *)
(* whoever is between the lock and a write of the registry holds it with   *)
(* a snapshot that is still the registry.                                  *)
LockedPCs == {"state", "db", "commit", "pending", "forget", "default", "retrieved"}

LockGuardsSnapshot ==
  \A c \in Procs :
    /\ lock = c => call[c].pc \in LockedPCs \cup {"removeAll"}
    /\ call[c].pc \in LockedPCs => lock = c /\ call[c].reg = registry

(* When Create commits, recovery.seed holds the mnemonic of its vault, and *)
(* the file stays until the human has retrieved it or forgets the profile. *)
KeptSeedIsTheVaults ==
  [][\A p \in Profiles :
       /\ p \in registry'.keep
       /\ seed'[p] # registry'.vault[p]
       => \/ p \in registry.keep /\ seed[p] # registry.vault[p]
          \/ \E c \in Procs : call'[c].pc = "retrieved" /\ call'[c].profile = p]_vars
=============================================================================
