------------------------- MODULE ProvisioningProofs -------------------------
(***************************************************************************)
(* The safety properties of Provisioning hold for every set of processes,  *)
(* profiles, vaults and faults.                                            *)
(***************************************************************************)
EXTENDS Provisioning, TLAPS

Calls == [pc : PCs, op : Ops, profile : Profiles \cup {None},
          vault : Vaults \cup {None}, reg : Registries]

HolderPCs == LockedPCs \cup {"removeAll"}

(* Where a call is tells whether it holds the lock, and its locals are     *)
(* valid there.                                                            *)
CallOK(c) ==
  /\ ~At(c, "idle") => call[c].profile \in Profiles
  /\ call[c].pc \in {"approve", "finish", "state", "db", "commit", "pending"} =>
       call[c].vault \in minted
  /\ call[c].pc \in HolderPCs <=> lock = c
  /\ call[c].pc \in LockedPCs => call[c].reg = registry

CallInv == \A c \in Procs : CallOK(c)

(* What the checks made under the lock found still holds for its holder.   *)
HolderOK(c) ==
  LET p == call[c].profile
      v == call[c].vault
  IN /\ call[c].pc \in {"state", "db", "commit"} =>
          /\ ~Active(registry, p)
          /\ ~AlreadyConfigured(p, v)
     /\ call[c].pc \in {"db", "commit"} => state[p] = v
     /\ At(c, "commit")    => p \in dbs
     /\ At(c, "pending")   => ~Active(registry, p)
     /\ call[c].pc \in {"forget", "default"} => Registered(registry, p)
     /\ At(c, "removeAll") => ~Registered(registry, p)
     /\ At(c, "retrieved") => seed[p] # registry.vault[p]

HolderInv == \A c \in Procs : HolderOK(c)

RegistryInv ==
  /\ \A p \in Profiles : Active(registry, p) => registry.vault[p] \in minted
  /\ ActiveHasItsKey
  /\ OneVaultOneProfile
  /\ DefaultIsRegistered

(* A directory nobody left files in lists files of one vault only, and has *)
(* no database unless it is active or about to be, or about to go.         *)
RowsInv ==
  \A p \in Profiles \ leftDir :
    /\ rows[p] \subseteq {state[p]}
    /\ rows[p] # {} => p \in dbs
    /\ p \in dbs => \/ Active(registry, p)
                    \/ \E c \in Procs :
                         call[c].profile = p /\ call[c].pc \in {"commit", "removeAll"}

IInv == TypeOK /\ CallInv /\ HolderInv /\ RegistryInv /\ RowsInv /\ ConsumedSeedGoes

-----------------------------------------------------------------------------
(* The constants and the names of the special values are different things. *)
LEMMA Names ==
  /\ None \notin Vaults /\ None \notin Profiles /\ None \notin Procs
  /\ Absent \notin Vaults /\ Pending \notin Vaults
  /\ Absent # Pending /\ Absent # None /\ Pending # None
BY VaultsAssumption DEF None, Absent, Pending

LEMMA IdleIsCall == EmptyRegistry \in Registries /\ Idle \in Calls
BY DEF EmptyRegistry, Registries, Idle, Calls, PCs, Ops

LEMMA NewCallIsCall ==
  ASSUME NEW pc \in PCs, NEW op \in Ops, NEW p \in Profiles \cup {None},
         NEW v \in Vaults \cup {None}
  PROVE  /\ NewCall(pc, op, p, v) \in Calls
         /\ NewCall(pc, op, p, v).pc = pc
         /\ NewCall(pc, op, p, v).op = op
         /\ NewCall(pc, op, p, v).profile = p
         /\ NewCall(pc, op, p, v).vault = v
BY IdleIsCall DEF NewCall, Calls, Idle

LEMMA UpsertIsRegistry ==
  ASSUME NEW r \in Registries, NEW p \in Profiles, NEW v \in Vaults \cup {Absent, Pending},
         NEW kept \in BOOLEAN
  PROVE  Upsert(r, p, v, kept) \in Registries
BY DEF Upsert, Registries

LEMMA WithoutProfileIsRegistry ==
  ASSUME NEW r \in Registries, NEW p \in Profiles
  PROVE  WithoutProfile(r, p) \in Registries
BY DEF WithoutProfile, Registries

(* A step of process c moves its own call only.                            *)
Moves(c, pc) ==
  /\ call' \in [Procs -> Calls]
  /\ \A d \in Procs \ {c} : call'[d] = call[d]
  /\ call'[c].pc = pc

LEMMA GotoMoves ==
  ASSUME TypeOK, NEW c \in Procs, NEW pc \in PCs, Goto(c, pc)
  PROVE  /\ Moves(c, pc)
         /\ call'[c].op = call[c].op
         /\ call'[c].profile = call[c].profile
         /\ call'[c].vault = call[c].vault
         /\ call'[c].reg = call[c].reg
<1>1. call \in [Procs -> Calls]
  BY DEF TypeOK, Calls
<1>2. [call[c] EXCEPT !.pc = pc] \in Calls
  BY <1>1 DEF Calls
<1>3. call' = [call EXCEPT ![c] = [call[c] EXCEPT !.pc = pc]]
  BY DEF Goto
<1> QED BY <1>1, <1>2, <1>3 DEF Moves, Calls

LEMMA ReturnMoves ==
  ASSUME TypeOK, NEW c \in Procs, Return(c)
  PROVE  Moves(c, "idle")
<1>1. call \in [Procs -> Calls]
  BY DEF TypeOK, Calls
<1> QED BY <1>1, IdleIsCall DEF Return, Moves, Idle

LEMMA BeginMoves ==
  ASSUME TypeOK, NEW c \in Procs, NEW pc \in PCs, NEW op \in Ops,
         NEW p \in Profiles \cup {None}, NEW v \in Vaults \cup {None},
         Begin(c, pc, op, p, v)
  PROVE  /\ Moves(c, pc)
         /\ call'[c].op = op
         /\ call'[c].profile = p
         /\ call'[c].vault = v
<1>1. call \in [Procs -> Calls]
  BY DEF TypeOK, Calls
<1> QED BY <1>1, NewCallIsCall DEF Begin, Moves

LEMMA FinishMoves ==
  ASSUME TypeOK, NEW c \in Procs, NEW pc \in PCs, Finish(c, pc)
  PROVE  /\ Moves(c, pc)
         /\ call'[c].op = call[c].op
         /\ call'[c].profile = call[c].profile
<1>1. /\ call[c].op \in Ops
      /\ call[c].profile \in Profiles \cup {None}
  BY DEF TypeOK
<1> QED BY <1>1, BeginMoves DEF Finish

LEMMA AfterErrorMoves ==
  ASSUME TypeOK, NEW c \in Procs, AfterError(c)
  PROVE  \/ Moves(c, "idle")
         \/ Moves(c, "rollback") /\ call'[c].profile = call[c].profile
<1>1. "rollback" \in PCs
  BY DEF PCs
<1> QED BY <1>1, FinishMoves, ReturnMoves DEF AfterError

LEMMA LockAndLoadMoves ==
  ASSUME TypeOK, NEW c \in Procs, NEW m \in Calls, LockAndLoad(c, m)
  PROVE  /\ Moves(c, m.pc)
         /\ call'[c].op = m.op
         /\ call'[c].profile = m.profile
         /\ call'[c].vault = m.vault
         /\ call'[c].reg = registry
         /\ lock = None /\ lock' = c
<1>1. call \in [Procs -> Calls] /\ registry \in Registries
  BY DEF TypeOK, Calls
<1>2. [m EXCEPT !.reg = registry] \in Calls
  BY <1>1 DEF Calls
<1> QED BY <1>1, <1>2 DEF LockAndLoad, Moves, Calls

-----------------------------------------------------------------------------
(* The other calls stay valid when a process changes what the lock guards  *)
(* only under the lock, and a seed file only to what is not active.        *)
Guarded(c) ==
  /\ minted \subseteq minted'
  /\ \A d \in Procs \ {c} : lock' = d <=> lock = d
  /\ lock = c \/ UNCHANGED <<registry, state, dbs>>
  /\ \A q \in Profiles :
       seed'[q] = seed[q] \/ seed'[q] = None \/ seed'[q] \in Vaults \ minted

LEMMA OthersKept ==
  ASSUME TypeOK, CallInv, HolderInv, RegistryInv, NEW c \in Procs, NEW pc, Moves(c, pc), Guarded(c),
         NEW d \in Procs \ {c}
  PROVE  CallOK(d)' /\ HolderOK(d)'
<1>1. CallOK(d) /\ HolderOK(d) /\ CallOK(c) /\ call'[d] = call[d]
  BY DEF CallInv, HolderInv, Moves
<1>2. CallOK(d)'
  <2>1. call[d].pc \in LockedPCs => registry' = registry
    BY <1>1 DEF Guarded, CallOK, HolderPCs
  <2> QED BY <1>1, <2>1 DEF Guarded, CallOK, At
<1>3. CASE call[d].pc \in HolderPCs
  <2>1. lock = d /\ UNCHANGED <<registry, state, dbs>>
    BY <1>1, <1>3 DEF CallOK, Guarded
  <2>2. At(d, "retrieved") => seed'[call[d].profile] # registry.vault[call[d].profile]
    <3>1. SUFFICES ASSUME At(d, "retrieved")
                   PROVE  seed'[call[d].profile] # registry.vault[call[d].profile]
      OBVIOUS
    <3>2. call[d].profile \in Profiles
      BY <1>1, <3>1 DEF CallOK, At
    <3>3. registry.vault[call[d].profile] \in Vaults \cup {Absent, Pending}
      BY <3>2 DEF TypeOK, Registries
    <3>4. seed[call[d].profile] # registry.vault[call[d].profile]
      BY <1>1, <3>1 DEF HolderOK
    <3>5. registry.vault[call[d].profile] # None
      BY <3>3, Names
    <3>6. registry.vault[call[d].profile] \in Vaults => registry.vault[call[d].profile] \in minted
      BY <3>2 DEF RegistryInv, Active
    <3>7. LET q == call[d].profile
          IN  seed'[q] = seed[q] \/ seed'[q] = None \/ seed'[q] \in Vaults \ minted
      BY <3>2 DEF Guarded
    <3> QED BY <3>3, <3>4, <3>5, <3>6, <3>7, Names
  <2>3. HolderOK(d)'
    BY <1>1, <2>1, <2>2 DEF HolderOK, At, Active, Registered, AlreadyConfigured, ExistingID
  <2> QED BY <1>2, <2>3
<1>4. CASE call[d].pc \notin HolderPCs
  BY <1>1, <1>2, <1>4 DEF HolderOK, At, HolderPCs, LockedPCs
<1> QED BY <1>2, <1>3, <1>4

(* The invariant is kept by the steps that write no file but a seed.       *)
SeedsQuiet(c) ==
  /\ UNCHANGED registry
  /\ \A q \in leftSeed : q \in leftSeed' \/ seed'[q] = None
  /\ call[c].pc \in {"sync", "consume"} =>
       \/ call[c].profile \in leftSeed'
       \/ seed'[call[c].profile] = None
       \/ call'[c].pc \in {"sync", "consume"} /\ call'[c].profile = call[c].profile

Quiet(c) ==
  /\ UNCHANGED <<state, dbs, rows>>
  /\ leftDir \subseteq leftDir'
  /\ call[c].pc \in {"commit", "removeAll"} => call[c].profile \in leftDir'
  /\ SeedsQuiet(c)

LEMMA QuietRows ==
  ASSUME TypeOK, RowsInv, NEW c \in Procs, NEW pc, Moves(c, pc), Quiet(c)
  PROVE  RowsInv'
<1> SUFFICES ASSUME NEW p \in Profiles \ leftDir'
             PROVE  /\ rows'[p] \subseteq {state'[p]}
                    /\ rows'[p] # {} => p \in dbs'
                    /\ p \in dbs' =>
                         \/ Active(registry', p)
                         \/ \E d \in Procs : call'[d].profile = p
                                             /\ call'[d].pc \in {"commit", "removeAll"}
  BY DEF RowsInv, Active
<1>1. p \in Profiles \ leftDir /\ UNCHANGED <<registry, state, dbs, rows>>
  BY DEF Quiet, SeedsQuiet
<1>2. rows'[p] \subseteq {state'[p]} /\ (rows'[p] # {} => p \in dbs')
  BY <1>1 DEF RowsInv
<1>3. ASSUME p \in dbs', ~Active(registry', p)
      PROVE  \E d \in Procs : call'[d].profile = p /\ call'[d].pc \in {"commit", "removeAll"}
  <2>1. PICK d \in Procs : call[d].profile = p /\ call[d].pc \in {"commit", "removeAll"}
    BY <1>1, <1>3 DEF RowsInv, Active
  <2>2. d # c
    BY <2>1 DEF Quiet
  <2> QED BY <2>1, <2>2 DEF Moves
<1> QED BY <1>2, <1>3

LEMMA QuietSeeds ==
  ASSUME TypeOK, RegistryInv, ConsumedSeedGoes,
         NEW c \in Procs, NEW pc, Moves(c, pc), Guarded(c), SeedsQuiet(c)
  PROVE  ConsumedSeedGoes'
<1> SUFFICES ASSUME NEW p \in Consumed' \ leftSeed', seed'[p] = registry'.vault[p]
             PROVE  \E d \in Procs : call'[d].profile = p /\ call'[d].pc \in {"sync", "consume"}
  BY DEF ConsumedSeedGoes
<1>1. p \in Profiles /\ p \in Consumed /\ registry' = registry
  BY DEF SeedsQuiet, Consumed, Active
<1>2. registry.vault[p] \in Vaults /\ registry.vault[p] \in minted
  BY <1>1 DEF RegistryInv, Consumed, Active
<1>3. seed'[p] # None
  BY <1>1, <1>2, Names
<1>4. seed'[p] = seed[p]
  BY <1>1, <1>2, <1>3 DEF Guarded
<1>5. p \notin leftSeed
  BY <1>3 DEF SeedsQuiet
<1>6. PICK d \in Procs : call[d].profile = p /\ call[d].pc \in {"sync", "consume"}
  BY <1>1, <1>4, <1>5 DEF ConsumedSeedGoes
<1>7. CASE d = c
  BY <1>3, <1>6, <1>7 DEF SeedsQuiet
<1>8. CASE d # c
  BY <1>6, <1>8 DEF Moves
<1> QED BY <1>7, <1>8

LEMMA QuietStep ==
  ASSUME IInv, NEW c \in Procs, NEW pc, Moves(c, pc), Guarded(c), Quiet(c),
         TypeOK', CallOK(c)', HolderOK(c)'
  PROVE  IInv'
<1>1. CallInv' /\ HolderInv'
  BY OthersKept DEF IInv, CallInv, HolderInv
<1>2. RegistryInv'
  <2>1. UNCHANGED <<registry, state, dbs>> /\ minted \subseteq minted'
    BY DEF Quiet, SeedsQuiet, Guarded
  <2> QED BY <2>1 DEF IInv, RegistryInv, Active, ActiveHasItsKey, OneVaultOneProfile,
                      DefaultIsRegistered, Registered
<1>3. RowsInv' /\ ConsumedSeedGoes'
  BY QuietRows, QuietSeeds DEF IInv, Quiet
<1> QED BY <1>1, <1>2, <1>3 DEF IInv

-----------------------------------------------------------------------------
(* Create's and Restore's way to the lock.                                 *)
LEMMA CreateCheckStep ==
  ASSUME IInv, NEW c \in Procs, NEW p \in Profiles, CreateCheck(c, p)
  PROVE  IInv'
<1> USE DEF CreateCheck, fileVars, history
<1>1. Moves(c, "seed") /\ call'[c].profile = p
  BY BeginMoves DEF PCs, Ops, IInv
<1>2. TypeOK'
  BY <1>1 DEF IInv, TypeOK, Calls, Moves
<1>3. Guarded(c) /\ Quiet(c)
  BY DEF Guarded, Quiet, SeedsQuiet, At
<1>4. CallOK(c)' /\ HolderOK(c)'
  BY <1>1 DEF Moves, CallOK, HolderOK, At, HolderPCs, LockedPCs, IInv, CallInv
<1> QED BY <1>1, <1>2, <1>3, <1>4, QuietStep

LEMMA CreateWriteSeedStep ==
  ASSUME IInv, NEW c \in Procs, CreateWriteSeed(c)
  PROVE  IInv'
<1> USE DEF CreateWriteSeed, fileVars, history
<1>1. PICK v \in Vaults \ minted :
        /\ minted' = minted \cup {v}
        /\ seed' = [seed EXCEPT ![call[c].profile] = v]
        /\ call' = [call EXCEPT ![c] = [@ EXCEPT !.pc = "approve", !.vault = v]]
  OBVIOUS
<1>2. CallOK(c) /\ call \in [Procs -> Calls]
  BY DEF IInv, CallInv, TypeOK, Calls
<1>3. [call[c] EXCEPT !.pc = "approve", !.vault = v] \in Calls
  <2> "approve" \in PCs
    BY DEF PCs
  <2> HIDE DEF CreateWriteSeed
  <2> QED BY <1>2 DEF Calls
<1>4. Moves(c, "approve") /\ call'[c].profile = call[c].profile /\ call'[c].vault = v
  BY <1>1, <1>2, <1>3 DEF Moves, Calls
<1>5. TypeOK'
  BY <1>1, <1>4 DEF IInv, TypeOK, Calls, Moves
<1>6. Guarded(c)
  <2>1. seed \in [Profiles -> Vaults \cup {None}]
    BY DEF IInv, TypeOK
  <2>2. \A q \in Profiles : seed'[q] = seed[q] \/ seed'[q] = v
    BY <1>1, <2>1
  <2> QED BY <1>1, <2>2 DEF Guarded
<1>7. Quiet(c)
  BY <1>1 DEF Quiet, SeedsQuiet, At
<1>8. CallOK(c)' /\ HolderOK(c)'
  BY <1>1, <1>2, <1>4 DEF Moves, CallOK, HolderOK, At, HolderPCs, LockedPCs
<1> QED BY <1>4, <1>5, <1>6, <1>7, <1>8, QuietStep

LEMMA RestoreCheckStep ==
  ASSUME IInv, NEW c \in Procs, NEW p \in Profiles, NEW v \in Vaults, RestoreCheck(c, p, v)
  PROVE  IInv'
<1> USE DEF RestoreCheck, fileVars, history
<1>1. Moves(c, "approve") /\ call'[c].profile = p /\ call'[c].vault = v
  BY BeginMoves DEF PCs, Ops, IInv
<1>2. TypeOK'
  BY <1>1 DEF IInv, TypeOK, Calls, Moves
<1>3. Guarded(c) /\ Quiet(c)
  BY DEF Guarded, Quiet, SeedsQuiet, At
<1>4. CallOK(c)' /\ HolderOK(c)'
  BY <1>1 DEF Moves, CallOK, HolderOK, At, HolderPCs, LockedPCs, IInv, CallInv
<1> QED BY <1>1, <1>2, <1>3, <1>4, QuietStep

LEMMA DriveApprovalStep ==
  ASSUME IInv, NEW c \in Procs, DriveApproval(c)
  PROVE  IInv'
<1> USE DEF DriveApproval, fileVars, history
<1>1. CallOK(c)
  BY DEF IInv, CallInv
<1>2. \/ Moves(c, "finish") /\ call'[c].profile = call[c].profile /\ call'[c].vault = call[c].vault
      \/ Moves(c, "idle")
      \/ Moves(c, "rollback") /\ call'[c].profile = call[c].profile
  BY GotoMoves, AfterErrorMoves DEF PCs, IInv
<1>3. PICK pc : Moves(c, pc) /\ pc \in {"finish", "idle", "rollback"}
  BY <1>2
<1>4. TypeOK'
  BY <1>3 DEF IInv, TypeOK, Calls, Moves
<1>5. Guarded(c) /\ Quiet(c)
  BY DEF Guarded, Quiet, SeedsQuiet, At
<1>6. CallOK(c)' /\ HolderOK(c)'
  BY <1>1, <1>2 DEF Moves, CallOK, HolderOK, At, HolderPCs, LockedPCs
<1> QED BY <1>3, <1>4, <1>5, <1>6, QuietStep

LEMMA CreateRollbackStep ==
  ASSUME IInv, NEW c \in Procs, CreateRollback(c)
  PROVE  IInv'
<1> USE DEF CreateRollback, RemoveSeed, fileVars, history
<1>1. CallOK(c)
  BY DEF IInv, CallInv
<1>2. Moves(c, "idle")
  BY ReturnMoves DEF IInv
<1>3. TypeOK'
  BY <1>2 DEF IInv, TypeOK, Calls, Moves
<1>4. Guarded(c) /\ Quiet(c)
  BY DEF Guarded, Quiet, SeedsQuiet, At, IInv, TypeOK
<1>5. CallOK(c)' /\ HolderOK(c)'
  BY <1>1, <1>2 DEF Moves, CallOK, HolderOK, At, HolderPCs, LockedPCs
<1> QED BY <1>2, <1>3, <1>4, <1>5, QuietStep

-----------------------------------------------------------------------------
(* Under the lock: the checks, the app key, the database.                  *)
LEMMA FinishLockStep ==
  ASSUME IInv, NEW c \in Procs, FinishLock(c)
  PROVE  IInv'
<1> USE DEF fileVars, history
<1>1. CallOK(c) /\ call[c] \in Calls /\ [call[c] EXCEPT !.pc = "state"] \in Calls
  <2>1. CallOK(c) /\ call[c] \in Calls
    BY DEF IInv, CallInv, TypeOK, Calls
  <2>2. "state" \in PCs
    BY DEF PCs
  <2> QED BY <2>1, <2>2 DEF Calls
<1>2. /\ At(c, "finish") /\ ReconcileLocked
      /\ UNCHANGED <<registry, state, dbs, rows, minted, leftDir>>
  BY DEF FinishLock
<1>3. /\ seed' \in [Profiles -> Vaults \cup {None}]
      /\ \A q \in Profiles : seed'[q] = seed[q] \/ seed'[q] = None
      /\ \A q \in leftSeed : q \in leftSeed' \/ seed'[q] = None
      /\ leftSeed' \in SUBSET Profiles
  <2>1. PICK R \in SUBSET {q \in Consumed : seed[q] # None} :
          /\ seed'     = [q \in Profiles |-> IF q \in R THEN None ELSE seed[q]]
          /\ leftSeed' = {q \in leftSeed : q \in Consumed => seed'[q] # None}
    BY <1>2 DEF ReconcileLocked
  <2>2. seed \in [Profiles -> Vaults \cup {None}] /\ leftSeed \in SUBSET Profiles
    BY DEF IInv, TypeOK
  <2> QED BY <2>1, <2>2
<1>4. Quiet(c)
  BY <1>2, <1>3 DEF Quiet, SeedsQuiet, At
<1>5. CASE /\ Active(registry, call[c].profile) \/ AlreadyConfigured(call[c].profile, call[c].vault)
           /\ lock = None /\ AfterError(c) /\ UNCHANGED lock
  <2>1. \/ Moves(c, "idle")
        \/ Moves(c, "rollback") /\ call'[c].profile = call[c].profile
    BY <1>5, AfterErrorMoves DEF IInv
  <2>2. PICK pc : Moves(c, pc) /\ pc \in {"idle", "rollback"}
    BY <2>1
  <2>3. TypeOK'
    BY <1>2, <1>3, <1>5, <2>2 DEF IInv, TypeOK, Calls, Moves
  <2>4. Guarded(c)
    BY <1>2, <1>3, <1>5 DEF Guarded
  <2>5. CallOK(c)' /\ HolderOK(c)'
    BY <1>1, <1>2, <1>5, <2>1, Names DEF Moves, CallOK, HolderOK, At, HolderPCs, LockedPCs
  <2> QED BY <1>4, <2>2, <2>3, <2>4, <2>5, QuietStep
<1>6. CASE /\ ~Active(registry, call[c].profile)
           /\ ~AlreadyConfigured(call[c].profile, call[c].vault)
           /\ LockAndLoad(c, [call[c] EXCEPT !.pc = "state"])
  <2>1. /\ Moves(c, "state")
        /\ call'[c].op = call[c].op
        /\ call'[c].profile = call[c].profile
        /\ call'[c].vault = call[c].vault
        /\ call'[c].reg = registry
        /\ lock = None /\ lock' = c
    <3>1. /\ Moves(c, [call[c] EXCEPT !.pc = "state"].pc)
          /\ call'[c].op = [call[c] EXCEPT !.pc = "state"].op
          /\ call'[c].profile = [call[c] EXCEPT !.pc = "state"].profile
          /\ call'[c].vault = [call[c] EXCEPT !.pc = "state"].vault
          /\ call'[c].reg = registry /\ lock = None /\ lock' = c
      BY <1>1, <1>6, LockAndLoadMoves DEF IInv
    <3> QED BY <1>1, <3>1 DEF Calls
  <2>2. TypeOK'
    BY <1>2, <1>3, <2>1 DEF IInv, TypeOK, Calls, Moves
  <2>3. Guarded(c)
    BY <1>2, <1>3, <2>1, Names DEF Guarded
  <2>4. CallOK(c)'
    BY <1>1, <1>2, <2>1 DEF Moves, CallOK, At, HolderPCs, LockedPCs
  <2>5. HolderOK(c)'
    BY <1>2, <1>6, <2>1 DEF Moves, HolderOK, At, Active, AlreadyConfigured, ExistingID, Registered
  <2> QED BY <1>4, <2>1, <2>2, <2>3, <2>4, <2>5, QuietStep
<1> QED BY <1>5, <1>6 DEF FinishLock

(* Nobody else is where only the holder of the lock can be.                *)
LEMMA OnlyHolder ==
  ASSUME TypeOK, CallInv, NEW c \in Procs, lock = c, NEW d \in Procs \ {c}
  PROVE  call[d].pc \notin HolderPCs
BY DEF CallInv, CallOK

(* Before its database is open, the directory of a profile that is being   *)
(* provisioned lists nothing.                                              *)
LEMMA FreshDirectory ==
  ASSUME IInv, NEW c \in Procs, call[c].pc \in {"state", "db"}
  PROVE  call[c].profile \notin leftDir => call[c].profile \notin dbs /\ rows[call[c].profile] = {}
<1>1. CallOK(c) /\ HolderOK(c) /\ lock = c /\ call[c].profile \in Profiles
  BY DEF IInv, CallInv, HolderInv, CallOK, HolderPCs, LockedPCs, At
<1>2. ASSUME NEW d \in Procs PROVE call[d].pc \notin {"commit", "removeAll"}
  <2>1. CASE d = c  BY <2>1
  <2>2. CASE d # c  BY <1>1, <2>2, OnlyHolder DEF IInv, HolderPCs, LockedPCs
  <2> QED BY <2>1, <2>2
<1> QED BY <1>1, <1>2 DEF IInv, RowsInv, HolderOK

LEMMA SaveProfileStateStep ==
  ASSUME IInv, NEW c \in Procs, SaveProfileState(c)
  PROVE  IInv'
<1> USE DEF fileVars, history
<1> DEFINE p == call[c].profile
           v == call[c].vault
           written == [state EXCEPT ![p] = v]
<1>1. /\ CallOK(c) /\ HolderOK(c) /\ lock = c /\ p \in Profiles /\ v \in Vaults
      /\ At(c, "state") /\ ~Active(registry, p) /\ ~AlreadyConfigured(p, v)
  BY DEF SaveProfileState, IInv, CallInv, HolderInv, CallOK, HolderOK, HolderPCs, LockedPCs, At, TypeOK
<1>2. /\ UNCHANGED <<registry, seed, dbs, rows, minted, leftDir, leftSeed>>
      /\ state' = state \/ state' = written
      /\ \/ state' = written /\ Goto(c, "db") /\ UNCHANGED lock
         \/ AfterError(c) /\ lock' = None
  BY DEF SaveProfileState, Unlock
<1>3. /\ state' \in [Profiles -> Vaults \cup {None}]
      /\ \A q \in Profiles \ {p} : state'[q] = state[q]
  BY <1>1, <1>2 DEF IInv, TypeOK
<1>4. \/ /\ Moves(c, "db") /\ UNCHANGED lock /\ state' = written
         /\ call'[c].profile = p /\ call'[c].vault = v /\ call'[c].reg = call[c].reg
      \/ Moves(c, "idle") /\ lock' = None
      \/ Moves(c, "rollback") /\ call'[c].profile = p /\ lock' = None
  BY <1>2, GotoMoves, AfterErrorMoves DEF PCs, IInv
<1>5. PICK pc : Moves(c, pc) /\ pc \in {"db", "idle", "rollback"}
  BY <1>4
<1>6. TypeOK'
  BY <1>2, <1>3, <1>4, <1>5 DEF IInv, TypeOK, Calls, Moves
<1>7. Guarded(c)
  BY <1>1, <1>2, <1>4, Names DEF Guarded
<1>8. CallOK(c)'
  BY <1>1, <1>2, <1>4, Names DEF Moves, CallOK, At, HolderPCs, LockedPCs
<1>9. HolderOK(c)'
  <2>1. CASE Moves(c, "idle") \/ Moves(c, "rollback")
    BY <2>1 DEF Moves, HolderOK, At
  <2>2. CASE Moves(c, "db") /\ state' = written /\ call'[c].profile = p /\ call'[c].vault = v
    <3>1. state'[p] = v
      BY <1>1, <2>2 DEF IInv, TypeOK
    <3> QED BY <1>1, <1>2, <1>3, <2>2, <3>1
            DEF Moves, HolderOK, At, Active, AlreadyConfigured, ExistingID, Registered
  <2> QED BY <1>4, <2>1, <2>2
<1>10. RegistryInv'
  BY <1>1, <1>2, <1>3 DEF IInv, RegistryInv, Active, ActiveHasItsKey, OneVaultOneProfile,
                          DefaultIsRegistered, Registered
<1>11. RowsInv'
  <2> SUFFICES ASSUME NEW q \in Profiles \ leftDir
               PROVE  /\ rows[q] \subseteq {state'[q]}
                      /\ rows[q] # {} => q \in dbs
                      /\ q \in dbs => \/ Active(registry, q)
                                      \/ \E d \in Procs :
                                           call'[d].profile = q /\ call'[d].pc \in {"commit", "removeAll"}
    BY <1>2 DEF RowsInv, Active
  <2>1. CASE q = p
    BY <1>1, <2>1, FreshDirectory DEF At
  <2>2. CASE q # p
    <3>1. \A d \in Procs : call[d].pc \notin {"commit", "removeAll"}
      BY <1>1, OnlyHolder DEF IInv, HolderPCs, LockedPCs, At
    <3> QED BY <1>3, <2>2, <3>1 DEF IInv, RowsInv
  <2> QED BY <2>1, <2>2
<1>12. SeedsQuiet(c)
  BY <1>1, <1>2 DEF SeedsQuiet, At
<1> QED BY <1>5, <1>6, <1>7, <1>8, <1>9, <1>10, <1>11, <1>12, OthersKept, QuietSeeds
        DEF IInv, CallInv, HolderInv

LEMMA OpenDBStep ==
  ASSUME IInv, NEW c \in Procs, OpenDB(c)
  PROVE  IInv'
<1> USE DEF fileVars, history
<1> DEFINE p == call[c].profile
<1>1. /\ CallOK(c) /\ HolderOK(c) /\ lock = c /\ p \in Profiles /\ At(c, "db")
  BY DEF OpenDB, IInv, CallInv, HolderInv, CallOK, HolderPCs, LockedPCs, At
<1>2. /\ UNCHANGED <<registry, seed, state, rows, minted, leftSeed>>
      /\ dbs' \in {dbs, dbs \cup {p}} /\ leftDir' \in {leftDir, leftDir \cup {p}}
      /\ \/ dbs' = dbs \cup {p} /\ Goto(c, "commit") /\ UNCHANGED lock
         \/ AfterError(c) /\ lock' = None /\ p \in leftDir'
  BY DEF OpenDB, Unlock
<1>3. \/ /\ Moves(c, "commit") /\ UNCHANGED lock /\ dbs' = dbs \cup {p}
         /\ call'[c].profile = p /\ call'[c].vault = call[c].vault /\ call'[c].reg = call[c].reg
      \/ Moves(c, "idle") /\ lock' = None /\ p \in leftDir'
      \/ Moves(c, "rollback") /\ call'[c].profile = p /\ lock' = None /\ p \in leftDir'
  BY <1>2, GotoMoves, AfterErrorMoves DEF PCs, IInv
<1>4. PICK pc : Moves(c, pc) /\ pc \in {"commit", "idle", "rollback"}
  BY <1>3
<1>5. TypeOK'
  BY <1>1, <1>2, <1>3, <1>4 DEF IInv, TypeOK, Calls, Moves
<1>6. Guarded(c)
  BY <1>1, <1>2, <1>3, Names DEF Guarded
<1>7. CallOK(c)'
  BY <1>1, <1>2, <1>3, Names DEF Moves, CallOK, At, HolderPCs, LockedPCs
<1>8. HolderOK(c)'
  BY <1>1, <1>2, <1>3 DEF Moves, HolderOK, At, Active, AlreadyConfigured, ExistingID, Registered
<1>9. RegistryInv'
  BY <1>2 DEF IInv, RegistryInv, Active, ActiveHasItsKey, OneVaultOneProfile,
              DefaultIsRegistered, Registered
<1>10. RowsInv'
  <2> SUFFICES ASSUME NEW q \in Profiles \ leftDir'
               PROVE  /\ rows[q] \subseteq {state[q]}
                      /\ rows[q] # {} => q \in dbs'
                      /\ q \in dbs' => \/ Active(registry, q)
                                       \/ \E d \in Procs :
                                            call'[d].profile = q /\ call'[d].pc \in {"commit", "removeAll"}
    BY <1>2 DEF RowsInv, Active
  <2>1. CASE q = p
    <3>1. rows[p] = {}
      BY <1>1, <1>2, <2>1, FreshDirectory DEF At
    <3>2. Moves(c, "commit") /\ call'[c].profile = p
      BY <1>3, <2>1
    <3> QED BY <2>1, <3>1, <3>2 DEF Moves
  <2>2. CASE q # p
    <3>1. \A d \in Procs : call[d].pc \notin {"commit", "removeAll"}
      BY <1>1, OnlyHolder DEF IInv, HolderPCs, LockedPCs, At
    <3> QED BY <1>2, <2>2, <3>1 DEF IInv, RowsInv
  <2> QED BY <2>1, <2>2
<1>11. SeedsQuiet(c)
  BY <1>1, <1>2 DEF SeedsQuiet, At
<1> QED BY <1>4, <1>5, <1>6, <1>7, <1>8, <1>9, <1>10, <1>11, OthersKept, QuietSeeds
        DEF IInv, CallInv, HolderInv

(* The commit point: what the checks found under the lock makes the entry  *)
(* the only one of its vault.                                              *)
LEMMA CommitActiveStep ==
  ASSUME IInv, NEW c \in Procs, CommitActive(c)
  PROVE  IInv'
<1> USE DEF fileVars, history
<1> DEFINE p == call[c].profile
           v == call[c].vault
           new == Upsert(registry, p, v, call[c].op = "create")
<1>1. /\ CallOK(c) /\ HolderOK(c) /\ lock = c /\ p \in Profiles /\ v \in Vaults /\ v \in minted
      /\ At(c, "commit") /\ ~Active(registry, p) /\ ~AlreadyConfigured(p, v)
      /\ state[p] = v /\ p \in dbs /\ call[c].reg = registry
  BY DEF CommitActive, IInv, CallInv, HolderInv, CallOK, HolderOK, HolderPCs, LockedPCs, At, TypeOK
<1>2. /\ UNCHANGED <<seed, state, dbs, rows, minted>> /\ lock' = None
      /\ \/ /\ registry' = new /\ UNCHANGED <<leftDir, leftSeed>>
            /\ IF call[c].op = "create" THEN Return(c) ELSE Finish(c, "sync")
         \/ /\ registry' \in {registry, new} /\ AfterError(c)
            /\ leftSeed' = leftSeed \cup {p} /\ leftDir' = leftDir \cup {p}
  BY <1>1 DEF CommitActive, Unlock, Saved, SaveFailed
<1>3. new \in Registries /\ registry' \in {registry, new}
  BY <1>1, <1>2, UpsertIsRegistry DEF IInv, TypeOK
<1>4. /\ new.vault = [registry.vault EXCEPT ![p] = v]
      /\ new.keep = (IF call[c].op = "create" THEN registry.keep \cup {p} ELSE registry.keep \ {p})
      /\ new.default = (IF registry.default = None THEN p ELSE registry.default)
      /\ new.vault[p] = v
      /\ \A q \in Profiles \ {p} : new.vault[q] = registry.vault[q]
  BY <1>1 DEF Upsert, IInv, TypeOK, Registries
<1>5. \/ Moves(c, "idle")
      \/ Moves(c, "sync") /\ call'[c].profile = p
      \/ Moves(c, "rollback") /\ call'[c].profile = p
  <2>1. Return(c) \/ Finish(c, "sync") \/ AfterError(c)
    BY <1>2
  <2>2. "sync" \in PCs /\ TypeOK
    BY DEF PCs, IInv
  <2>3. CASE Return(c)  BY <2>2, <2>3, ReturnMoves
  <2>4. CASE Finish(c, "sync")  BY <2>2, <2>4, FinishMoves
  <2>5. CASE AfterError(c)  BY <2>2, <2>5, AfterErrorMoves
  <2> QED BY <2>1, <2>3, <2>4, <2>5
<1>6. PICK pc : Moves(c, pc) /\ pc \in {"idle", "sync", "rollback"}
  BY <1>5
<1>7. TypeOK'
  BY <1>1, <1>2, <1>3, <1>6 DEF IInv, TypeOK, Calls, Moves
<1>8. Guarded(c)
  BY <1>1, <1>2, Names DEF Guarded
<1>9. CallOK(c)' /\ HolderOK(c)'
  BY <1>1, <1>2, <1>5, Names DEF Moves, CallOK, HolderOK, At, HolderPCs, LockedPCs
<1>10. RegistryInv'
  <2> SUFFICES ASSUME registry' = new PROVE RegistryInv'
    BY <1>2, <1>3 DEF IInv, RegistryInv, Active, ActiveHasItsKey, OneVaultOneProfile,
                      DefaultIsRegistered, Registered
  <2>1. \A q \in Profiles : Active(registry', q) => registry'.vault[q] \in minted'
    BY <1>1, <1>2, <1>4 DEF IInv, RegistryInv, Active
  <2>2. ActiveHasItsKey'
    BY <1>1, <1>2, <1>4 DEF IInv, RegistryInv, Active, ActiveHasItsKey
  <2>3. \A q \in Profiles \ {p} : Active(registry, q) => registry.vault[q] # v
    BY <1>1, Names DEF AlreadyConfigured, ExistingID, Registered, Active, IInv, RegistryInv, ActiveHasItsKey
  <2>4. OneVaultOneProfile'
    BY <1>1, <1>4, <2>3 DEF IInv, RegistryInv, Active, OneVaultOneProfile
  <2>5. DefaultIsRegistered'
    BY <1>1, <1>4, Names DEF IInv, RegistryInv, DefaultIsRegistered, Registered, TypeOK, Registries
  <2> QED BY <2>1, <2>2, <2>4, <2>5 DEF RegistryInv, Active
<1>11. RowsInv'
  <2> SUFFICES ASSUME NEW q \in Profiles \ leftDir'
               PROVE  /\ rows[q] \subseteq {state[q]}
                      /\ rows[q] # {} => q \in dbs
                      /\ q \in dbs => Active(registry', q)
    BY <1>2 DEF RowsInv, Active
  <2>1. q \notin leftDir
    BY <1>2
  <2>2. \A d \in Procs \ {c} : call[d].pc \notin {"commit", "removeAll"}
    BY <1>1, OnlyHolder DEF IInv, HolderPCs, LockedPCs
  <2>3. CASE q = p
    BY <1>1, <1>2, <1>4, <2>1, <2>3 DEF IInv, RowsInv, Active
  <2>4. CASE q # p
    BY <1>2, <1>3, <1>4, <2>1, <2>2, <2>4 DEF IInv, RowsInv, Active
  <2> QED BY <2>3, <2>4
<1>12. ConsumedSeedGoes'
  <2> SUFFICES ASSUME NEW q \in Consumed' \ leftSeed', seed[q] = registry'.vault[q]
               PROVE  \E d \in Procs : call'[d].profile = q /\ call'[d].pc \in {"sync", "consume"}
    BY <1>2 DEF ConsumedSeedGoes
  <2>1. CASE q = p
    <3>1. registry' = new /\ (IF call[c].op = "create" THEN Return(c) ELSE Finish(c, "sync"))
      BY <1>2, <2>1
    <3>2. call[c].op # "create"
      BY <1>4, <2>1, <3>1 DEF Consumed
    <3>3. Moves(c, "sync") /\ call'[c].profile = p
      BY <3>1, <3>2, FinishMoves DEF PCs, IInv
    <3> QED BY <2>1, <3>3 DEF Moves
  <2>2. CASE q # p
    <3>1. q \in Consumed \ leftSeed /\ seed[q] = registry.vault[q]
      BY <1>2, <1>3, <1>4, <2>2 DEF Consumed, Active
    <3>2. PICK d \in Procs : call[d].profile = q /\ call[d].pc \in {"sync", "consume"}
      BY <3>1 DEF IInv, ConsumedSeedGoes
    <3> QED BY <1>6, <2>2, <3>2 DEF Moves
  <2> QED BY <2>1, <2>2
<1> QED BY <1>6, <1>7, <1>8, <1>9, <1>10, <1>11, <1>12, OthersKept DEF IInv, CallInv, HolderInv

-----------------------------------------------------------------------------
(* The cache, and the consumed seed.                                       *)
LEMMA FillCacheRows ==
  ASSUME TypeOK, RowsInv, NEW p \in Profiles, FillCache(p) \/ UNCHANGED rows,
         UNCHANGED <<registry, state, dbs, leftDir>>,
         \A d \in Procs : call[d].pc \in {"commit", "removeAll"} => call'[d] = call[d]
  PROVE  RowsInv' /\ rows' \in [Profiles -> SUBSET Vaults]
<1>1. /\ rows \in [Profiles -> SUBSET Vaults] /\ rows' \in [Profiles -> SUBSET Vaults]
      /\ \A q \in Profiles \ {p} : rows'[q] = rows[q]
      /\ \/ rows'[p] = rows[p]
         \/ rows'[p] = rows[p] \cup {state[p]} /\ p \in dbs
  BY DEF FillCache, TypeOK
<1>2. SUFFICES ASSUME NEW q \in Profiles \ leftDir
               PROVE  /\ rows'[q] \subseteq {state[q]}
                      /\ rows'[q] # {} => q \in dbs
                      /\ q \in dbs => \/ Active(registry, q)
                                      \/ \E d \in Procs :
                                           call'[d].profile = q /\ call'[d].pc \in {"commit", "removeAll"}
  BY <1>1 DEF RowsInv, Active
<1>3. rows[q] \subseteq {state[q]} /\ (rows[q] # {} => q \in dbs)
  BY DEF RowsInv
<1>4. q \in dbs => \/ Active(registry, q)
                   \/ \E d \in Procs :
                        call'[d].profile = q /\ call'[d].pc \in {"commit", "removeAll"}
  BY DEF RowsInv
<1>5. CASE q = p  BY <1>1, <1>3, <1>4, <1>5
<1>6. CASE q # p  BY <1>1, <1>3, <1>4, <1>6
<1> QED BY <1>5, <1>6

LEMMA RebuildCacheStep ==
  ASSUME IInv, NEW c \in Procs, RebuildCache(c)
  PROVE  IInv'
<1> USE DEF fileVars, history
<1>1. CallOK(c) /\ At(c, "sync") /\ call[c].profile \in Profiles
  BY DEF RebuildCache, IInv, CallInv, CallOK, At
<1>2. /\ UNCHANGED <<registry, seed, state, dbs, lock, minted, leftDir, leftSeed>>
      /\ FillCache(call[c].profile) \/ UNCHANGED rows
  BY DEF RebuildCache
<1>3. Moves(c, "consume") /\ call'[c].profile = call[c].profile
  BY GotoMoves DEF RebuildCache, PCs, IInv
<1>4. RowsInv' /\ rows' \in [Profiles -> SUBSET Vaults]
  BY <1>1, <1>2, <1>3, FillCacheRows DEF IInv, Moves, At
<1>5. TypeOK'
  BY <1>2, <1>3, <1>4 DEF IInv, TypeOK, Calls, Moves
<1>6. Guarded(c) /\ SeedsQuiet(c)
  BY <1>2, <1>3 DEF Guarded, SeedsQuiet, Moves
<1>7. CallOK(c)' /\ HolderOK(c)'
  BY <1>1, <1>2, <1>3 DEF Moves, CallOK, HolderOK, At, HolderPCs, LockedPCs
<1>8. RegistryInv'
  BY <1>2 DEF IInv, RegistryInv, Active, ActiveHasItsKey, OneVaultOneProfile,
              DefaultIsRegistered, Registered
<1> QED BY <1>3, <1>4, <1>5, <1>6, <1>7, <1>8, OthersKept, QuietSeeds DEF IInv, CallInv, HolderInv

LEMMA UseProfileStep ==
  ASSUME IInv, NEW p \in Profiles, UseProfile(p)
  PROVE  IInv'
<1> USE DEF UseProfile, fileVars, history
<1>1. RowsInv' /\ rows' \in [Profiles -> SUBSET Vaults]
  BY FillCacheRows DEF IInv
<1>2. TypeOK'
  BY <1>1 DEF IInv, TypeOK
<1>3. CallInv' /\ HolderInv' /\ RegistryInv'
  BY DEF IInv, CallInv, CallOK, HolderInv, HolderOK, RegistryInv, At, Active, Registered,
         AlreadyConfigured, ExistingID, ActiveHasItsKey, OneVaultOneProfile, DefaultIsRegistered
<1>4. ConsumedSeedGoes'
  BY DEF IInv, ConsumedSeedGoes, Consumed, Active
<1> QED BY <1>1, <1>2, <1>3, <1>4 DEF IInv

LEMMA ConsumeSeedStep ==
  ASSUME IInv, NEW c \in Procs, ConsumeSeed(c)
  PROVE  IInv'
<1> USE DEF ConsumeSeed, RemoveSeed, fileVars, history
<1>1. CallOK(c) /\ call[c].profile \in Profiles
  BY DEF IInv, CallInv, CallOK, At
<1>2. Moves(c, "idle")
  BY ReturnMoves DEF IInv
<1>3. /\ TypeOK' /\ leftSeed \subseteq leftSeed'
      /\ seed'[call[c].profile] = None \/ call[c].profile \in leftSeed'
  BY <1>1, <1>2 DEF IInv, TypeOK, Calls, Moves
<1>4. Guarded(c) /\ Quiet(c)
  BY <1>3 DEF Guarded, Quiet, SeedsQuiet, At, IInv, TypeOK
<1>5. CallOK(c)' /\ HolderOK(c)'
  BY <1>1, <1>2 DEF Moves, CallOK, HolderOK, At, HolderPCs, LockedPCs
<1> QED BY <1>2, <1>3, <1>4, <1>5, QuietStep

-----------------------------------------------------------------------------
(* A write of the registry that makes no profile active.                   *)
LEMMA NothingNewActive ==
  ASSUME TypeOK, RegistryInv, UNCHANGED <<state, dbs, minted>>,
         \A q \in Profiles : Active(registry', q) =>
           Active(registry, q) /\ registry'.vault[q] = registry.vault[q],
         registry'.default # None => Registered(registry', registry'.default)
  PROVE  RegistryInv'
<1>1. \A q \in Profiles : Active(registry', q) => registry'.vault[q] \in minted'
  BY DEF RegistryInv
<1>2. ActiveHasItsKey'
  BY DEF RegistryInv, ActiveHasItsKey, Active
<1>3. OneVaultOneProfile'
  BY DEF RegistryInv, OneVaultOneProfile, Active
<1>4. DefaultIsRegistered'
  BY DEF DefaultIsRegistered, Registered
<1> QED BY <1>1, <1>2, <1>3, <1>4 DEF RegistryInv, Active

(* CreatePending.                                                          *)
LEMMA CreatePendingSeedStep ==
  ASSUME IInv, NEW c \in Procs, NEW p \in Profiles, CreatePendingSeed(c, p)
  PROVE  IInv'
<1> USE DEF fileVars, history
<1>1. PICK v \in Vaults \ minted :
        /\ minted' = minted \cup {v}
        /\ seed' = [seed EXCEPT ![p] = v]
        /\ LockAndLoad(c, NewCall("pending", "createPending", p, v))
  BY DEF CreatePendingSeed
<1>2. /\ At(c, "idle") /\ ~Active(registry, p)
      /\ UNCHANGED <<registry, state, dbs, rows, leftDir, leftSeed>>
  BY DEF CreatePendingSeed
<1>3. /\ Moves(c, "pending") /\ call'[c].profile = p /\ call'[c].vault = v
      /\ call'[c].reg = registry /\ lock = None /\ lock' = c
  BY <1>1, NewCallIsCall, LockAndLoadMoves DEF PCs, Ops, IInv
<1>4. TypeOK'
  BY <1>1, <1>2, <1>3 DEF IInv, TypeOK, Calls, Moves
<1>5. Guarded(c)
  <2>1. seed \in [Profiles -> Vaults \cup {None}]
    BY DEF IInv, TypeOK
  <2>2. \A q \in Profiles : seed'[q] = seed[q] \/ seed'[q] = v
    BY <1>1, <2>1
  <2> QED BY <1>1, <1>2, <1>3, <2>2, Names DEF Guarded
<1>6. Quiet(c)
  BY <1>2 DEF Quiet, SeedsQuiet, At
<1>7. CallOK(c)' /\ HolderOK(c)'
  BY <1>1, <1>2, <1>3 DEF Moves, CallOK, HolderOK, At, HolderPCs, LockedPCs, Active
<1> QED BY <1>3, <1>4, <1>5, <1>6, <1>7, QuietStep

LEMMA CommitPendingStep ==
  ASSUME IInv, NEW c \in Procs, CommitPending(c)
  PROVE  IInv'
<1> USE DEF fileVars, history
<1> DEFINE p == call[c].profile
           new == Upsert(registry, p, Pending, FALSE)
<1>1. /\ CallOK(c) /\ lock = c /\ p \in Profiles /\ At(c, "pending")
      /\ ~Active(registry, p) /\ call[c].reg = registry
  BY DEF CommitPending, IInv, CallInv, HolderInv, CallOK, HolderOK, HolderPCs, LockedPCs, At
<1>2. /\ UNCHANGED <<state, dbs, rows, minted, leftDir, leftSeed>> /\ lock' = None
      /\ registry' \in {registry, new} /\ Return(c)
      /\ seed' = seed \/ seed' = [seed EXCEPT ![p] = None]
  BY <1>1 DEF CommitPending, RemoveSeed, Unlock, Saved, SaveFailed
<1>3. new \in Registries /\ registry' \in Registries
  <2>1. registry \in Registries /\ FALSE \in BOOLEAN
    BY DEF IInv, TypeOK
  <2>2. new \in Registries
    BY <1>1, <2>1, UpsertIsRegistry
  <2> QED BY <1>2, <2>1, <2>2
<1>4. /\ \A q \in Profiles : Active(registry', q) => Active(registry, q)
      /\ \A q \in Profiles : Active(registry, q) =>
           registry'.vault[q] = registry.vault[q] /\ (q \in registry'.keep <=> q \in registry.keep)
      /\ \A q \in Profiles : Registered(registry, q) => Registered(registry', q)
      /\ \/ registry'.default = registry.default
         \/ registry'.default = p /\ Registered(registry', p)
  <2>1. /\ new.vault = [registry.vault EXCEPT ![p] = Pending]
        /\ new.keep = registry.keep \ {p}
        /\ new.default = IF registry.default = None THEN p ELSE registry.default
    BY DEF Upsert
  <2>2. /\ new.vault[p] = Pending
        /\ \A q \in Profiles \ {p} : new.vault[q] = registry.vault[q]
    BY <1>1, <2>1 DEF IInv, TypeOK, Registries
  <2>3. CASE registry' = registry  BY <2>3
  <2>4. CASE registry' = new
    <3>1. ~Active(new, p) /\ Registered(new, p)
      BY <2>2, Names DEF Active, Registered
    <3>2. \A q \in Profiles \ {p} : Active(new, q) <=> Active(registry, q)
      BY <2>2 DEF Active
    <3>3. \A q \in Profiles \ {p} : Registered(new, q) <=> Registered(registry, q)
      BY <2>2 DEF Registered
    <3> HIDE DEF new
    <3> QED BY <1>1, <2>1, <2>2, <2>4, <3>1, <3>2, <3>3
  <2> QED BY <1>2, <2>3, <2>4
<1>5. Moves(c, "idle")
  BY <1>2, ReturnMoves DEF IInv
<1>6. TypeOK'
  BY <1>1, <1>2, <1>3, <1>5 DEF IInv, TypeOK, Calls, Moves
<1>7. Guarded(c)
  BY <1>1, <1>2, Names DEF Guarded, IInv, TypeOK
<1>8. CallOK(c)' /\ HolderOK(c)'
  BY <1>1, <1>2, <1>5, Names DEF Moves, CallOK, HolderOK, At, HolderPCs, LockedPCs
<1>9. RegistryInv'
  <2>1. registry.default # None => registry.default \in Profiles /\ Registered(registry, registry.default)
    BY DEF IInv, RegistryInv, DefaultIsRegistered, TypeOK, Registries
  <2> QED BY <1>2, <1>4, <2>1, NothingNewActive DEF IInv
<1>10. RowsInv'
  <2>1. \A d \in Procs : call[d].pc \notin {"commit", "removeAll"}
    BY <1>1, OnlyHolder DEF IInv, HolderPCs, LockedPCs, At
  <2>2. \A q \in Profiles : Active(registry, q) => Active(registry', q)
    BY <1>4 DEF Active
  <2> QED BY <1>2, <2>1, <2>2 DEF IInv, RowsInv, Active
<1>11. ConsumedSeedGoes'
  <2> SUFFICES ASSUME NEW q \in Consumed' \ leftSeed', seed'[q] = registry'.vault[q]
               PROVE  \E d \in Procs : call'[d].profile = q /\ call'[d].pc \in {"sync", "consume"}
    BY DEF ConsumedSeedGoes
  <2>1. Active(registry, q) /\ q \in Consumed /\ registry'.vault[q] = registry.vault[q]
    BY <1>4 DEF Consumed, Active
  <2>2. seed'[q] # None
    BY <2>1, Names DEF Active
  <2>3. seed[q] = registry.vault[q]
    BY <1>2, <2>1, <2>2 DEF IInv, TypeOK, Consumed
  <2>4. PICK d \in Procs : call[d].profile = q /\ call[d].pc \in {"sync", "consume"}
    BY <1>2, <2>1, <2>3 DEF IInv, ConsumedSeedGoes
  <2> QED BY <1>1, <1>5, <2>4 DEF Moves, At
<1> QED BY <1>5, <1>6, <1>7, <1>8, <1>9, <1>10, <1>11, OthersKept DEF IInv, CallInv, HolderInv

-----------------------------------------------------------------------------
(* Forgetting a profile.                                                   *)
LEMMA ForgetLockStep ==
  ASSUME IInv, NEW c \in Procs, NEW p \in Profiles, ForgetLock(c, p)
  PROVE  IInv'
<1> USE DEF fileVars, history
<1>1. /\ At(c, "idle") /\ Registered(registry, p)
      /\ LockAndLoad(c, NewCall("forget", "forget", p, None))
      /\ UNCHANGED <<registry, seed, state, dbs, rows, minted, leftDir, leftSeed>>
  BY DEF ForgetLock
<1>2. /\ Moves(c, "forget") /\ call'[c].profile = p
      /\ call'[c].reg = registry /\ lock = None /\ lock' = c
  BY <1>1, NewCallIsCall, LockAndLoadMoves DEF PCs, Ops, IInv
<1>3. TypeOK'
  BY <1>1, <1>2 DEF IInv, TypeOK, Calls, Moves
<1>4. Guarded(c) /\ Quiet(c)
  BY <1>1, <1>2, Names DEF Guarded, Quiet, SeedsQuiet, At
<1>5. CallOK(c)' /\ HolderOK(c)'
  BY <1>1, <1>2 DEF Moves, CallOK, HolderOK, At, HolderPCs, LockedPCs, Registered
<1> QED BY <1>2, <1>3, <1>4, <1>5, QuietStep

LEMMA ForgetSaveStep ==
  ASSUME IInv, NEW c \in Procs, ForgetSave(c)
  PROVE  IInv'
<1> USE DEF fileVars, history
<1> DEFINE p == call[c].profile
           new == WithoutProfile(registry, p)
<1>1. /\ CallOK(c) /\ lock = c /\ p \in Profiles /\ At(c, "forget") /\ call[c].reg = registry
  BY DEF ForgetSave, IInv, CallInv, CallOK, HolderPCs, LockedPCs, At
<1>2. /\ UNCHANGED <<seed, state, dbs, rows, minted, leftSeed>> /\ leftDir \subseteq leftDir'
      /\ leftDir' \in {leftDir, leftDir \cup {p}}
      /\ \/ registry' = new /\ Goto(c, "removeAll") /\ UNCHANGED lock
         \/ Return(c) /\ lock' = None /\ registry' = registry
         \/ Return(c) /\ lock' = None /\ registry' = new /\ p \in leftDir'
  BY <1>1 DEF ForgetSave, Unlock, Saved, SaveFailed
<1>3. registry \in Registries /\ new \in Registries
  BY <1>1, WithoutProfileIsRegistry DEF IInv, TypeOK
<1>4. /\ new.keep = registry.keep \ {p}
      /\ new.default = IF registry.default = p THEN None ELSE registry.default
      /\ new.vault[p] = Absent
      /\ \A q \in Profiles \ {p} : new.vault[q] = registry.vault[q]
  BY <1>1, <1>3 DEF WithoutProfile, Registries
<1>5. /\ \A q \in Profiles : Active(registry', q) =>
           Active(registry, q) /\ registry'.vault[q] = registry.vault[q]
      /\ \A q \in Profiles \ {p} :
           registry'.vault[q] = registry.vault[q] /\ (q \in registry'.keep <=> q \in registry.keep)
      /\ registry' = new => ~Active(registry', p)
  BY <1>2, <1>4, Names DEF Active
<1>6. \/ Moves(c, "removeAll") /\ call'[c].profile = p /\ UNCHANGED lock /\ registry' = new
      \/ Moves(c, "idle") /\ lock' = None
  BY <1>2, GotoMoves, ReturnMoves DEF PCs, IInv
<1>7. PICK pc : Moves(c, pc) /\ pc \in {"removeAll", "idle"}
  BY <1>6
<1>8. TypeOK'
  BY <1>1, <1>2, <1>3, <1>6, <1>7 DEF IInv, TypeOK, Calls, Moves
<1>9. Guarded(c)
  BY <1>1, <1>2, <1>6, Names DEF Guarded
<1>10. CallOK(c)' /\ HolderOK(c)'
  BY <1>1, <1>2, <1>4, <1>6, Names DEF Moves, CallOK, HolderOK, At, HolderPCs, LockedPCs, Registered
<1>11. RegistryInv'
  <2>1. registry.default # None => registry.default \in Profiles /\ Registered(registry, registry.default)
    BY DEF IInv, RegistryInv, DefaultIsRegistered, TypeOK, Registries
  <2>2. registry'.default # None => Registered(registry', registry'.default)
    BY <1>2, <1>4, <2>1 DEF Registered
  <2> QED BY <1>2, <1>5, <2>2, NothingNewActive DEF IInv
<1>12. RowsInv'
  <2> SUFFICES ASSUME NEW q \in Profiles \ leftDir'
               PROVE  /\ rows[q] \subseteq {state[q]}
                      /\ rows[q] # {} => q \in dbs
                      /\ q \in dbs => \/ Active(registry', q)
                                      \/ \E d \in Procs :
                                           call'[d].profile = q /\ call'[d].pc \in {"commit", "removeAll"}
    BY <1>2 DEF RowsInv, Active
  <2>1. q \notin leftDir /\ \A d \in Procs : call[d].pc \notin {"commit", "removeAll"}
    BY <1>1, <1>2, OnlyHolder DEF IInv, HolderPCs, LockedPCs, At
  <2>2. /\ rows[q] \subseteq {state[q]} /\ (rows[q] # {} => q \in dbs)
        /\ q \in dbs => Active(registry, q)
    BY <2>1 DEF IInv, RowsInv
  <2>3. CASE q = p /\ Moves(c, "removeAll") /\ call'[c].profile = p
    BY <2>2, <2>3 DEF Moves
  <2>4. CASE q # p \/ registry' = registry
    BY <1>5, <2>2, <2>4 DEF Active
  <2>5. q = p => \/ registry' = registry
                 \/ Moves(c, "removeAll") /\ call'[c].profile = p
    <3>1. CASE Goto(c, "removeAll")  BY <3>1, GotoMoves DEF PCs, IInv
    <3>2. CASE ~Goto(c, "removeAll")  BY <1>2, <3>2
    <3> QED BY <3>1, <3>2
  <2> QED BY <2>3, <2>4, <2>5
<1>13. ConsumedSeedGoes'
  <2> SUFFICES ASSUME NEW q \in Consumed' \ leftSeed', seed[q] = registry'.vault[q]
               PROVE  \E d \in Procs : call'[d].profile = q /\ call'[d].pc \in {"sync", "consume"}
    BY <1>2 DEF ConsumedSeedGoes
  <2>1. q \in Consumed \ leftSeed /\ seed[q] = registry.vault[q]
    BY <1>2, <1>5 DEF Consumed
  <2>2. PICK d \in Procs : call[d].profile = q /\ call[d].pc \in {"sync", "consume"}
    BY <2>1 DEF IInv, ConsumedSeedGoes
  <2> QED BY <1>1, <1>7, <2>2 DEF Moves, At
<1> QED BY <1>7, <1>8, <1>9, <1>10, <1>11, <1>12, <1>13, OthersKept DEF IInv, CallInv, HolderInv

LEMMA RemoveAllStep ==
  ASSUME IInv, NEW c \in Procs, RemoveAll(c)
  PROVE  IInv'
<1> USE DEF fileVars, history
<1> DEFINE p == call[c].profile
<1>1. /\ CallOK(c) /\ lock = c /\ p \in Profiles /\ At(c, "removeAll") /\ ~Registered(registry, p)
  BY DEF RemoveAll, IInv, CallInv, HolderInv, CallOK, HolderOK, HolderPCs, LockedPCs, At
<1>2. /\ UNCHANGED <<registry, minted, leftSeed>> /\ lock' = None /\ Return(c)
      /\ leftDir \subseteq leftDir' \cup {p} /\ leftDir' \subseteq leftDir \cup {p}
      /\ \A q \in Profiles \ {p} : seed'[q] = seed[q] /\ state'[q] = state[q] /\ rows'[q] = rows[q]
      /\ \A q \in Profiles \ {p} : q \in dbs' <=> q \in dbs
      /\ seed'[p] \in {seed[p], None}
      /\ p \notin leftDir' => p \notin dbs' /\ rows'[p] = {}
  <2>1. PICK S, D, K \in {{}, {p}} :
          /\ RemoveFiles(S, D, K, p)
          /\ leftDir' \in {leftDir \ {p}, leftDir \cup {p}}
          /\ p \notin leftDir' => D = {p}
    BY <1>1 DEF RemoveAll
  <2>2. UNCHANGED <<registry, minted, leftSeed>> /\ lock' = None /\ Return(c)
    BY DEF RemoveAll, Unlock
  <2>3. /\ seed \in [Profiles -> Vaults \cup {None}] /\ state \in [Profiles -> Vaults \cup {None}]
        /\ rows \in [Profiles -> SUBSET Vaults]
    BY DEF IInv, TypeOK
  <2>4. /\ \A q \in Profiles \ {p} : seed'[q] = seed[q] /\ state'[q] = state[q] /\ rows'[q] = rows[q]
        /\ \A q \in Profiles \ {p} : q \in dbs' <=> q \in dbs
        /\ seed'[p] \in {seed[p], None}
    BY <1>1, <2>1, <2>3 DEF RemoveFiles
  <2>5. p \notin leftDir' => p \notin dbs' /\ rows'[p] = {}
    BY <1>1, <2>1, <2>3 DEF RemoveFiles
  <2> QED BY <2>1, <2>2, <2>4, <2>5
<1>3. /\ seed' \in [Profiles -> Vaults \cup {None}] /\ state' \in [Profiles -> Vaults \cup {None}]
      /\ rows' \in [Profiles -> SUBSET Vaults] /\ dbs' \in SUBSET Profiles
      /\ leftDir' \in SUBSET Profiles
  BY <1>1 DEF RemoveAll, RemoveFiles, IInv, TypeOK
<1>4. Moves(c, "idle")
  BY <1>2, ReturnMoves DEF IInv
<1>5. TypeOK'
  BY <1>2, <1>3, <1>4 DEF IInv, TypeOK, Calls, Moves
<1>6. Guarded(c)
  BY <1>1, <1>2, Names DEF Guarded
<1>7. CallOK(c)' /\ HolderOK(c)'
  BY <1>1, <1>2, <1>4, Names DEF Moves, CallOK, HolderOK, At, HolderPCs, LockedPCs
<1>8. RegistryInv'
  <2>1. ~Active(registry, p)
    BY <1>1, Names DEF Active, Registered
  <2>2. ActiveHasItsKey'
    BY <1>2, <2>1 DEF IInv, RegistryInv, ActiveHasItsKey, Active
  <2> QED BY <1>2, <2>2 DEF IInv, RegistryInv, OneVaultOneProfile, DefaultIsRegistered,
                            Active, Registered
<1>9. RowsInv'
  <2> SUFFICES ASSUME NEW q \in Profiles \ leftDir'
               PROVE  /\ rows'[q] \subseteq {state'[q]}
                      /\ rows'[q] # {} => q \in dbs'
                      /\ q \in dbs' => Active(registry, q)
    BY <1>2 DEF RowsInv, Active
  <2>1. CASE q = p
    BY <1>2, <2>1
  <2>2. CASE q # p
    <3>1. \A d \in Procs : call[d].pc \in {"commit", "removeAll"} => d = c
      BY <1>1, OnlyHolder DEF IInv, HolderPCs, LockedPCs
    <3>2. q \in Profiles \ leftDir
      BY <1>2, <2>2
    <3> QED BY <1>2, <2>2, <3>1, <3>2 DEF IInv, RowsInv
  <2> QED BY <2>1, <2>2
<1>10. SeedsQuiet(c)
  BY <1>1, <1>2 DEF SeedsQuiet, At
<1> QED BY <1>4, <1>5, <1>6, <1>7, <1>8, <1>9, <1>10, OthersKept, QuietSeeds
        DEF IInv, CallInv, HolderInv

-----------------------------------------------------------------------------
(* The default and the KeepSeed mark.                                      *)
LEMMA SetDefaultLockStep ==
  ASSUME IInv, NEW c \in Procs, NEW p \in Profiles, SetDefaultLock(c, p)
  PROVE  IInv'
<1> USE DEF fileVars, history
<1>1. /\ At(c, "idle") /\ Registered(registry, p)
      /\ LockAndLoad(c, NewCall("default", "setDefault", p, None))
      /\ UNCHANGED <<registry, seed, state, dbs, rows, minted, leftDir, leftSeed>>
  BY DEF SetDefaultLock
<1>2. /\ Moves(c, "default") /\ call'[c].profile = p
      /\ call'[c].reg = registry /\ lock = None /\ lock' = c
  BY <1>1, NewCallIsCall, LockAndLoadMoves DEF PCs, Ops, IInv
<1>3. TypeOK'
  BY <1>1, <1>2 DEF IInv, TypeOK, Calls, Moves
<1>4. Guarded(c) /\ Quiet(c)
  BY <1>1, <1>2, Names DEF Guarded, Quiet, SeedsQuiet, At
<1>5. CallOK(c)' /\ HolderOK(c)'
  BY <1>1, <1>2 DEF Moves, CallOK, HolderOK, At, HolderPCs, LockedPCs, Registered
<1> QED BY <1>2, <1>3, <1>4, <1>5, QuietStep

LEMMA RetrievedRemoveSeedStep ==
  ASSUME IInv, NEW c \in Procs, NEW p \in Profiles, RetrievedRemoveSeed(c, p)
  PROVE  IInv'
<1> USE DEF fileVars, history
<1>1. /\ At(c, "idle") /\ p \in registry.keep
      /\ seed' = [seed EXCEPT ![p] = None]
      /\ LockAndLoad(c, NewCall("retrieved", "retrieved", p, None))
      /\ UNCHANGED <<registry, state, dbs, rows, minted, leftDir, leftSeed>>
  BY DEF RetrievedRemoveSeed
<1>2. /\ Moves(c, "retrieved") /\ call'[c].profile = p
      /\ call'[c].reg = registry /\ lock = None /\ lock' = c
  BY <1>1, NewCallIsCall, LockAndLoadMoves DEF PCs, Ops, IInv
<1>3. TypeOK'
  BY <1>1, <1>2 DEF IInv, TypeOK, Calls, Moves
<1>4. Guarded(c) /\ Quiet(c)
  BY <1>1, <1>2, Names DEF Guarded, Quiet, SeedsQuiet, At, IInv, TypeOK
<1>5. seed'[p] # registry.vault[p]
  <2>1. registry.vault[p] \in Vaults \cup {Absent, Pending} /\ seed'[p] = None
    BY <1>1 DEF IInv, TypeOK, Registries
  <2> QED BY <2>1, Names
<1>6. CallOK(c)' /\ HolderOK(c)'
  BY <1>1, <1>2, <1>5 DEF Moves, CallOK, HolderOK, At, HolderPCs, LockedPCs
<1> QED BY <1>2, <1>3, <1>4, <1>6, QuietStep

LEMMA SetDefaultSaveStep ==
  ASSUME IInv, NEW c \in Procs, SetDefaultSave(c)
  PROVE  IInv'
<1> USE DEF fileVars, history
<1> DEFINE p == call[c].profile
           new == [registry EXCEPT !.default = p]
<1>1. /\ CallOK(c) /\ lock = c /\ p \in Profiles /\ At(c, "default") /\ call[c].reg = registry
      /\ Registered(registry, p)
  BY DEF SetDefaultSave, IInv, CallInv, HolderInv, CallOK, HolderOK, HolderPCs, LockedPCs, At
<1>2. /\ UNCHANGED <<seed, state, dbs, rows, minted, leftDir, leftSeed>> /\ lock' = None
      /\ Return(c) /\ registry' \in {registry, new}
  BY <1>1 DEF SetDefaultSave, Unlock, Saved, SaveFailed
<1>3. /\ registry' \in Registries /\ registry'.vault = registry.vault
      /\ registry'.keep = registry.keep /\ registry'.default \in {registry.default, p}
  BY <1>1, <1>2 DEF IInv, TypeOK, Registries
<1>4. Moves(c, "idle")
  BY <1>2, ReturnMoves DEF IInv
<1>5. TypeOK'
  BY <1>1, <1>2, <1>3, <1>4 DEF IInv, TypeOK, Calls, Moves
<1>6. Guarded(c)
  BY <1>1, <1>2, Names DEF Guarded
<1>7. CallOK(c)' /\ HolderOK(c)'
  BY <1>1, <1>2, <1>4, Names DEF Moves, CallOK, HolderOK, At, HolderPCs, LockedPCs
<1>8. RegistryInv'
  <2>1. registry'.default # None => Registered(registry', registry'.default)
    BY <1>1, <1>3 DEF IInv, RegistryInv, DefaultIsRegistered, Registered
  <2> QED BY <1>2, <1>3, <2>1, NothingNewActive DEF IInv, Active
<1>9. RowsInv'
  <2>1. \A d \in Procs : call[d].pc \notin {"commit", "removeAll"}
    BY <1>1, OnlyHolder DEF IInv, HolderPCs, LockedPCs, At
  <2> QED BY <1>2, <1>3, <2>1 DEF IInv, RowsInv, Active
<1>10. ConsumedSeedGoes'
  BY <1>1, <1>2, <1>3, <1>4 DEF IInv, ConsumedSeedGoes, Consumed, Active, Moves, At
<1> QED BY <1>4, <1>5, <1>6, <1>7, <1>8, <1>9, <1>10, OthersKept DEF IInv, CallInv, HolderInv

LEMMA RetrievedSaveStep ==
  ASSUME IInv, NEW c \in Procs, RetrievedSave(c)
  PROVE  IInv'
<1> USE DEF fileVars, history
<1> DEFINE p == call[c].profile
           new == [registry EXCEPT !.keep = @ \ {p}]
<1>1. /\ CallOK(c) /\ lock = c /\ p \in Profiles /\ At(c, "retrieved") /\ call[c].reg = registry
      /\ seed[p] # registry.vault[p]
  BY DEF RetrievedSave, IInv, CallInv, HolderInv, CallOK, HolderOK, HolderPCs, LockedPCs, At
<1>2. /\ UNCHANGED <<seed, state, dbs, rows, minted, leftDir, leftSeed>> /\ lock' = None
      /\ Return(c) /\ registry' \in {registry, new}
  BY <1>1 DEF RetrievedSave, Unlock, Saved, SaveFailed
<1>3. /\ registry' \in Registries /\ registry'.vault = registry.vault
      /\ registry'.default = registry.default
      /\ \A q \in Profiles \ {p} : q \in registry'.keep <=> q \in registry.keep
  BY <1>1, <1>2 DEF IInv, TypeOK, Registries
<1>4. Moves(c, "idle")
  BY <1>2, ReturnMoves DEF IInv
<1>5. TypeOK'
  BY <1>1, <1>2, <1>3, <1>4 DEF IInv, TypeOK, Calls, Moves
<1>6. Guarded(c)
  BY <1>1, <1>2, Names DEF Guarded
<1>7. CallOK(c)' /\ HolderOK(c)'
  BY <1>1, <1>2, <1>4, Names DEF Moves, CallOK, HolderOK, At, HolderPCs, LockedPCs
<1>8. RegistryInv'
  BY <1>2, <1>3, NothingNewActive DEF IInv, RegistryInv, DefaultIsRegistered, Registered, Active
<1>9. RowsInv'
  <2>1. \A d \in Procs : call[d].pc \notin {"commit", "removeAll"}
    BY <1>1, OnlyHolder DEF IInv, HolderPCs, LockedPCs, At
  <2> QED BY <1>2, <1>3, <2>1 DEF IInv, RowsInv, Active
<1>10. ConsumedSeedGoes'
  <2> SUFFICES ASSUME NEW q \in Consumed' \ leftSeed, seed[q] = registry.vault[q]
               PROVE  \E d \in Procs : call'[d].profile = q /\ call'[d].pc \in {"sync", "consume"}
    BY <1>2, <1>3 DEF ConsumedSeedGoes
  <2>1. q # p /\ q \in Consumed
    BY <1>1, <1>3 DEF Consumed, Active
  <2>2. PICK d \in Procs : call[d].profile = q /\ call[d].pc \in {"sync", "consume"}
    BY <2>1 DEF IInv, ConsumedSeedGoes
  <2> QED BY <1>1, <1>4, <2>2 DEF Moves, At
<1> QED BY <1>4, <1>5, <1>6, <1>7, <1>8, <1>9, <1>10, OthersKept DEF IInv, CallInv, HolderInv

LEMMA CrashStep ==
  ASSUME IInv, NEW c \in Procs, Crash(c)
  PROVE  IInv'
<1> USE DEF fileVars, history
<1>1. /\ CallOK(c) /\ call[c].profile \in Profiles /\ Return(c)
      /\ UNCHANGED <<registry, seed, state, dbs, rows, minted>>
      /\ lock' = IF lock = c THEN None ELSE lock
  BY DEF Crash, IInv, CallInv, CallOK, At
<1>2. /\ leftDir' = IF call[c].pc \in {"db", "commit", "removeAll"}
                    THEN leftDir \cup {call[c].profile} ELSE leftDir
      /\ leftSeed' = IF call[c].pc \in {"sync", "consume"}
                     THEN leftSeed \cup {call[c].profile} ELSE leftSeed
  BY DEF Crash
<1>3. Moves(c, "idle")
  BY <1>1, ReturnMoves DEF IInv
<1>4. TypeOK'
  BY <1>1, <1>2, <1>3 DEF IInv, TypeOK, Calls, Moves
<1>5. Guarded(c) /\ Quiet(c)
  BY <1>1, <1>2, Names DEF Guarded, Quiet, SeedsQuiet
<1>6. CallOK(c)' /\ HolderOK(c)'
  BY <1>1, <1>3, Names DEF Moves, CallOK, HolderOK, At, HolderPCs, LockedPCs
<1> QED BY <1>3, <1>4, <1>5, <1>6, QuietStep

-----------------------------------------------------------------------------
LEMMA NextStep ==
  ASSUME IInv, Next
  PROVE  IInv'
<1>1. ASSUME NEW c \in Procs, NEW p \in Profiles, Start(c, p) PROVE IInv'
  BY <1>1, CreateCheckStep, RestoreCheckStep, CreatePendingSeedStep, ForgetLockStep,
     SetDefaultLockStep, RetrievedRemoveSeedStep DEF Start
<1>2. ASSUME NEW c \in Procs, Step(c) PROVE IInv'
  BY <1>2, CreateWriteSeedStep, CreateRollbackStep, SaveProfileStateStep, OpenDBStep,
     CommitActiveStep, ConsumeSeedStep, CommitPendingStep, ForgetSaveStep, RemoveAllStep,
     SetDefaultSaveStep, RetrievedSaveStep DEF Step
<1>3. ASSUME NEW c \in Procs,
             DriveApproval(c) \/ FinishLock(c) \/ RebuildCache(c) \/ Crash(c)
      PROVE  IInv'
  BY <1>3, DriveApprovalStep, FinishLockStep, RebuildCacheStep, CrashStep
<1> QED BY <1>1, <1>2, <1>3, UseProfileStep DEF Next

LEMMA InitInv == Init => IInv
<1> SUFFICES ASSUME Init PROVE IInv
  OBVIOUS
<1>1. TypeOK
  BY IdleIsCall, ForeignAssumption DEF Init, TypeOK, Calls
<1>2. \A c \in Procs : At(c, "idle") /\ lock # c
  BY Names DEF Init, Idle, At
<1>3. CallInv /\ HolderInv
  BY <1>2 DEF CallInv, CallOK, HolderInv, HolderOK, At, HolderPCs, LockedPCs
<1>4. \A p \in Profiles : ~Active(registry, p)
  BY Names DEF Init, EmptyRegistry, Active
<1>5. RegistryInv /\ ConsumedSeedGoes
  BY <1>4 DEF RegistryInv, ActiveHasItsKey, OneVaultOneProfile, DefaultIsRegistered,
              ConsumedSeedGoes, Consumed, Init, EmptyRegistry, Active
<1>6. RowsInv
  BY DEF Init, RowsInv
<1> QED BY <1>1, <1>3, <1>5, <1>6 DEF IInv

LEMMA StutterInv == IInv /\ UNCHANGED vars => IInv'
<1> SUFFICES ASSUME IInv, UNCHANGED vars PROVE IInv'
  OBVIOUS
<1> USE DEF vars, fileVars, history
<1>1. TypeOK' /\ RowsInv'
  BY DEF IInv, TypeOK, RowsInv, Active
<1>2. CallInv'
  BY DEF IInv, CallInv, CallOK, At
<1>3. HolderInv'
  <2> SUFFICES ASSUME NEW c \in Procs PROVE HolderOK(c)'
    BY DEF HolderInv
  <2>1. HolderOK(c) /\ UNCHANGED <<registry, seed, state, dbs, call>>
    BY DEF IInv, HolderInv
  <2> HIDE DEF vars
  <2> QED BY <2>1 DEF HolderOK, At, Active, Registered, AlreadyConfigured, ExistingID
<1>4. RegistryInv'
  BY DEF IInv, RegistryInv, Active, Registered, ActiveHasItsKey, OneVaultOneProfile, DefaultIsRegistered
<1>5. ConsumedSeedGoes'
  BY DEF IInv, ConsumedSeedGoes, Consumed, Active
<1> QED BY <1>1, <1>2, <1>3, <1>4, <1>5 DEF IInv

(* The invariant is inductive.                                             *)
THEOREM Invariance == Spec => []IInv
<1>1. IInv /\ [Next]_vars => IInv'
  BY NextStep, StutterInv
<1> QED BY <1>1, InitInv, PTL DEF Spec

(* The variables have their types.                                         *)
THEOREM TypeCorrect == Spec => []TypeOK
BY Invariance, PTL DEF IInv

(* Two concurrent calls never activate one vault under two names.          *)
THEOREM VaultIsUnique == Spec => []OneVaultOneProfile
<1>1. IInv => OneVaultOneProfile
  BY DEF IInv, RegistryInv
<1> QED BY <1>1, Invariance, PTL

(* An active profile's database and app key are on disk, through every     *)
(* error and every crash.                                                  *)
THEOREM ActiveProfileIsUsable == Spec => []ActiveHasItsKey
<1>1. IInv => ActiveHasItsKey
  BY DEF IInv, RegistryInv
<1> QED BY <1>1, Invariance, PTL

(* The default never names a forgotten profile.                            *)
THEOREM DefaultExists == Spec => []DefaultIsRegistered
<1>1. IInv => DefaultIsRegistered
  BY DEF IInv, RegistryInv
<1> QED BY <1>1, Invariance, PTL

(* No file of another vault is listed in a directory nobody left files in. *)
THEOREM CacheIsTheVaults == Spec => []NoForeignRows
<1>1. IInv => NoForeignRows
  BY DEF IInv, RegistryInv, ActiveHasItsKey, RowsInv, NoForeignRows
<1> QED BY <1>1, Invariance, PTL

(* A one-time seed is removed unless its restore was cut short or could    *)
(* not remove it, whichever of the two the reconciliation of a later       *)
(* provisioning has not made good.                                         *)
THEOREM SeedIsConsumed == Spec => []ConsumedSeedGoes
BY Invariance, PTL DEF IInv

(* The lock is held over file operations only, and its holder's snapshot   *)
(* is the registry.                                                        *)
THEOREM LockIsEnough == Spec => []LockGuardsSnapshot
<1>1. IInv => LockGuardsSnapshot
  <2> SUFFICES ASSUME IInv, NEW c \in Procs
               PROVE  /\ lock = c => call[c].pc \in LockedPCs \cup {"removeAll"}
                      /\ call[c].pc \in LockedPCs => lock = c /\ call[c].reg = registry
    BY DEF LockGuardsSnapshot
  <2> QED BY DEF IInv, CallInv, CallOK, HolderPCs
<1> QED BY <1>1, Invariance, PTL

(* A write of the registry changes or removes an active entry only to      *)
(* forget it: the other writers save a snapshot that is still the registry.*)
LEMMA ActiveStays ==
  ASSUME IInv, [Next]_vars, NEW p \in Profiles, Active(registry, p),
         registry'.vault[p] # registry.vault[p]
  PROVE  \E c \in Procs : At(c, "forget") /\ call[c].profile = p
<1>1. registry' # registry
  OBVIOUS
<1>2. PICK c \in Procs : CommitActive(c) \/ CommitPending(c) \/ ForgetSave(c)
                         \/ SetDefaultSave(c) \/ RetrievedSave(c)
  <2> USE DEF fileVars, history
  <2>1. ASSUME NEW c \in Procs, NEW q \in Profiles, Start(c, q) PROVE UNCHANGED registry
    BY <2>1 DEF Start, CreateCheck, RestoreCheck, CreatePendingSeed, ForgetLock,
                SetDefaultLock, RetrievedRemoveSeed
  <2>2. ASSUME NEW c \in Procs,
               DriveApproval(c) \/ FinishLock(c) \/ RebuildCache(c) \/ Crash(c)
        PROVE  UNCHANGED registry
    BY <2>2 DEF DriveApproval, FinishLock, RebuildCache, Crash
  <2>3. ASSUME NEW c \in Procs,
               \/ CreateWriteSeed(c) \/ CreateRollback(c) \/ SaveProfileState(c)
               \/ OpenDB(c) \/ ConsumeSeed(c) \/ RemoveAll(c)
        PROVE  UNCHANGED registry
    BY <2>3 DEF CreateWriteSeed, CreateRollback, SaveProfileState, OpenDB, ConsumeSeed, RemoveAll
  <2>4. ASSUME NEW q \in Profiles, UseProfile(q) PROVE UNCHANGED registry
    BY <2>4 DEF UseProfile
  <2>5. UNCHANGED vars => UNCHANGED registry
    BY DEF vars
  <2> QED BY <1>1, <2>1, <2>2, <2>3, <2>4, <2>5 DEF Next, Step
<1>3. CallOK(c) /\ HolderOK(c) /\ registry \in Registries
  BY DEF IInv, CallInv, HolderInv, TypeOK
<1>4. /\ call[c].pc \in LockedPCs => call[c].reg = registry
      /\ ~At(c, "idle") => call[c].profile \in Profiles
  BY <1>3 DEF CallOK
<1>5. CASE CommitActive(c)
  <2>1. At(c, "commit") /\ ~Active(registry, call[c].profile) /\ call[c].reg = registry
    BY <1>3, <1>4, <1>5 DEF CommitActive, HolderOK, At, LockedPCs
  <2>2. registry'.vault = [registry.vault EXCEPT ![call[c].profile] = call[c].vault]
    BY <1>1, <1>5, <2>1 DEF CommitActive, Saved, SaveFailed, Upsert
  <2> QED BY <1>3, <2>1, <2>2 DEF Registries
<1>6. CASE CommitPending(c)
  <2>1. At(c, "pending") /\ ~Active(registry, call[c].profile) /\ call[c].reg = registry
    BY <1>3, <1>4, <1>6 DEF CommitPending, HolderOK, At, LockedPCs
  <2>2. registry'.vault = [registry.vault EXCEPT ![call[c].profile] = Pending]
    BY <1>1, <1>6, <2>1 DEF CommitPending, Saved, SaveFailed, Upsert
  <2> QED BY <1>3, <2>1, <2>2 DEF Registries
<1>7. CASE ForgetSave(c)
  <2>1. At(c, "forget") /\ call[c].reg = registry
    BY <1>4, <1>7 DEF ForgetSave, At, LockedPCs
  <2>2. registry'.vault = [registry.vault EXCEPT ![call[c].profile] = Absent]
    BY <1>1, <1>7, <2>1 DEF ForgetSave, Saved, SaveFailed, WithoutProfile
  <2> QED BY <1>3, <2>1, <2>2 DEF Registries
<1>8. CASE SetDefaultSave(c)
  <2>1. call[c].reg = registry
    BY <1>4, <1>8 DEF SetDefaultSave, At, LockedPCs
  <2> QED BY <1>1, <1>3, <1>8, <2>1 DEF SetDefaultSave, Saved, SaveFailed, Registries
<1>9. CASE RetrievedSave(c)
  <2>1. call[c].reg = registry
    BY <1>4, <1>9 DEF RetrievedSave, At, LockedPCs
  <2> QED BY <1>1, <1>3, <1>9, <2>1 DEF RetrievedSave, Saved, SaveFailed, Registries
<1> QED BY <1>2, <1>5, <1>6, <1>7, <1>8, <1>9

(* No active profile is lost to a concurrent writer.                       *)
THEOREM NoLostProfile == Spec => OnlyForgetRemoves
<1>1. IInv /\ [Next]_vars =>
        [\A p \in Profiles :
           Active(registry, p) /\ registry'.vault[p] # registry.vault[p] =>
             \E c \in Procs : At(c, "forget") /\ call[c].profile = p]_vars
  BY ActiveStays
<1> QED BY <1>1, Invariance, PTL DEF Spec, OnlyForgetRemoves
-----------------------------------------------------------------------------
(* The recovery seed of a created vault.  Create looks for a seed file,    *)
(* writes its own and removes it by name without the lock: what it relies  *)
(* on is that no other call works on its profile meanwhile.                *)
Alone ==
  \A c, d \in Procs : c # d /\ call[c].op = "create" => call[d].profile # call[c].profile

CreatePCs == {"seed", "approve", "finish", "state", "db", "commit", "rollback"}

SeedOK(c) ==
  /\ call[c].op = "create" =>
       /\ call[c].pc \in CreatePCs
       /\ ~Active(registry, call[c].profile)
       /\ call[c].pc \notin {"seed", "rollback"} => seed[call[c].profile] = call[c].vault
  /\ call[c].pc \in {"seed", "rollback"} => call[c].op = "create"
  /\ call[c].pc \in {"sync", "consume"} => call[c].profile \notin registry.keep

SeedInv ==
  /\ \A p \in registry.keep : Active(registry, p)
  /\ \A c \in Procs : SeedOK(c)

(* What KeptSeedIsTheVaults says of a step for the profile p.              *)
SeedKept(p) ==
  /\ p \in registry'.keep
  /\ seed'[p] # registry'.vault[p]
  => \/ p \in registry.keep /\ seed[p] # registry.vault[p]
     \/ \E c \in Procs : call'[c].pc = "retrieved" /\ call'[c].profile = p

SeedsKept == SeedInv' /\ \A p \in Profiles : SeedKept(p)

(* A step of c that writes the seed or the entry of one profile.           *)
LEMMA OneProfileStep ==
  ASSUME CallInv, SeedInv, Alone, Alone', NEW c \in Procs, NEW pc, Moves(c, pc), NEW p \in Profiles,
         p \in {call[c].profile, call'[c].profile}, registry' \in Registries,
         \A q \in Profiles \ {p} : /\ seed'[q] = seed[q] /\ registry'.vault[q] = registry.vault[q]
                                   /\ q \in registry'.keep => q \in registry.keep,
         p \in registry'.keep => \/ p \in registry.keep
                                 \/ call[c].op = "create" /\ p = call[c].profile,
         p \in registry'.keep => Active(registry', p),
         SeedKept(p), SeedOK(c)'
  PROVE  SeedsKept
<1>1. registry'.keep \subseteq Profiles
  BY DEF Registries
<1>2. \A q \in registry'.keep : Active(registry', q)
  BY <1>1 DEF SeedInv, Active
<1>3. \A q \in Profiles : SeedKept(q)
  BY DEF SeedKept
<1>4. ASSUME NEW d \in Procs \ {c} PROVE SeedOK(d)'
  <2>1. call'[d] = call[d] /\ SeedOK(d) /\ CallOK(d)
    BY DEF Moves, SeedInv, CallInv
  <2> DEFINE q == call[d].profile
  <2>2. ASSUME call[d].op = "create"
        PROVE  ~Active(registry', q) /\ seed'[q] = seed[q]
    <3>1. q # p
      BY <2>1, <2>2 DEF Alone
    <3>2. q \in Profiles
      BY <2>1, <2>2 DEF SeedOK, CallOK, At, CreatePCs
    <3> QED BY <2>1, <2>2, <3>1, <3>2 DEF SeedOK, Active
  <2>3. ASSUME call[d].pc \in {"sync", "consume"} PROVE q \notin registry'.keep
    <3>1. q \in Profiles /\ q \notin registry.keep
      BY <2>1, <2>3 DEF SeedOK, CallOK, At
    <3> QED BY <3>1 DEF Alone
  <2> QED BY <2>1, <2>2, <2>3 DEF SeedOK
<1> QED BY <1>2, <1>3, <1>4 DEF SeedsKept, SeedInv

(* A step of c that leaves the entries and the seeds of created vaults.    *)
LEMMA NoProfileStep ==
  ASSUME CallInv, SeedInv, NEW c \in Procs, NEW pc, Moves(c, pc), UNCHANGED registry, registry \in Registries,
         \A q \in Profiles : q \in registry.keep \/ ~Active(registry, q) => seed'[q] = seed[q],
         SeedOK(c)'
  PROVE  SeedsKept
<1>1. \A q \in Profiles : SeedKept(q)
  BY DEF SeedKept
<1>2. ASSUME NEW d \in Procs \ {c} PROVE SeedOK(d)'
  <2>1. call'[d] = call[d] /\ SeedOK(d) /\ CallOK(d)
    BY DEF Moves, SeedInv, CallInv
  <2>2. call[d].op = "create" => call[d].profile \in Profiles
    BY <2>1 DEF SeedOK, CallOK, At, CreatePCs
  <2> QED BY <2>1, <2>2 DEF SeedOK
<1> QED BY <1>1, <1>2 DEF SeedsKept, SeedInv

LEMMA ReturnSeed ==
  ASSUME TypeOK, NEW c \in Procs, Return(c)
  PROVE  Moves(c, "idle") /\ SeedOK(c)'
<1>1. Moves(c, "idle")
  BY ReturnMoves
<1>2. call'[c] = Idle
  BY DEF TypeOK, Return
<1> QED BY <1>1, <1>2 DEF Idle, SeedOK

LEMMA AfterErrorSeed ==
  ASSUME IInv, SeedInv, NEW c \in Procs, AfterError(c), UNCHANGED registry
  PROVE  \E pc : Moves(c, pc) /\ SeedOK(c)'
<1>1. SeedOK(c) /\ TypeOK
  BY DEF IInv, SeedInv
<1>2. CASE call[c].op = "create"
  <2>1. /\ Moves(c, "rollback") /\ call'[c].op = call[c].op
        /\ call'[c].profile = call[c].profile
    BY <1>1, <1>2, FinishMoves DEF AfterError, PCs
  <2> QED BY <1>1, <1>2, <2>1 DEF Moves, SeedOK, CreatePCs
<1>3. CASE call[c].op # "create"
  BY <1>1, <1>3, ReturnSeed DEF AfterError
<1> QED BY <1>2, <1>3

(* A new call that is not Create knows nothing of seeds.                   *)
LEMMA OtherCallSeed ==
  ASSUME NEW c \in Procs, call'[c].op # "create", call'[c].pc \notin {"seed", "rollback", "sync", "consume"}
  PROVE  SeedOK(c)'
BY DEF SeedOK

LEMMA StartSeeds ==
  ASSUME IInv, SeedInv, Alone, Alone', NEW c \in Procs, NEW p \in Profiles, Start(c, p)
  PROVE  SeedsKept
<1>0. /\ TypeOK /\ CallInv /\ registry \in Registries /\ seed \in [Profiles -> Vaults \cup {None}]
      /\ \A q \in registry.keep : Active(registry, q)
  BY DEF IInv, TypeOK, SeedInv
<1>1. CASE CreateCheck(c, p)
  <2>1. Moves(c, "seed") /\ call'[c].op = "create" /\ call'[c].profile = p
    BY <1>0, <1>1, BeginMoves DEF CreateCheck, PCs, Ops
  <2>2. UNCHANGED <<registry, seed>> /\ ~Active(registry, p)
    BY <1>1 DEF CreateCheck, fileVars
  <2>3. SeedOK(c)'
    BY <2>1, <2>2 DEF Moves, SeedOK, CreatePCs
  <2> QED BY <1>0, <2>1, <2>2, <2>3, NoProfileStep
<1>2. ASSUME NEW v \in Vaults, RestoreCheck(c, p, v) PROVE SeedsKept
  <2>1. Moves(c, "approve") /\ call'[c].op = "restore"
    BY <1>0, <1>2, BeginMoves DEF RestoreCheck, PCs, Ops
  <2>2. UNCHANGED <<registry, seed>>
    BY <1>2 DEF RestoreCheck, fileVars
  <2>3. SeedOK(c)'
    BY <2>1, OtherCallSeed DEF Moves
  <2> QED BY <1>0, <2>1, <2>2, <2>3, NoProfileStep
<1>3. CASE ForgetLock(c, p) \/ SetDefaultLock(c, p)
  <2>1. PICK pc \in {"forget", "default"}, op \in {"forget", "setDefault"} :
          LockAndLoad(c, NewCall(pc, op, p, None))
    BY <1>3 DEF ForgetLock, SetDefaultLock
  <2>2. Moves(c, pc) /\ call'[c].op = op
    BY <1>0, <2>1, NewCallIsCall, LockAndLoadMoves DEF PCs, Ops
  <2>3. UNCHANGED <<registry, seed>>
    BY <1>3 DEF ForgetLock, SetDefaultLock, fileVars
  <2>4. SeedOK(c)'
    BY <2>2, OtherCallSeed DEF Moves
  <2> QED BY <1>0, <2>2, <2>3, <2>4, NoProfileStep
<1>4. CASE CreatePendingSeed(c, p)
  <2>1. PICK v \in Vaults \ minted :
          seed' = [seed EXCEPT ![p] = v] /\ LockAndLoad(c, NewCall("pending", "createPending", p, v))
    BY <1>4 DEF CreatePendingSeed
  <2>2. Moves(c, "pending") /\ call'[c].op = "createPending" /\ call'[c].profile = p
    <3> DEFINE m == NewCall("pending", "createPending", p, v)
    <3>1. m \in Calls /\ m.pc = "pending" /\ m.op = "createPending" /\ m.profile = p
      BY NewCallIsCall DEF PCs, Ops
    <3> HIDE DEF m
    <3> QED BY <1>0, <2>1, <3>1, LockAndLoadMoves DEF m
  <2>3. UNCHANGED registry /\ ~Active(registry, p)
    BY <1>4 DEF CreatePendingSeed
  <2>4. SeedOK(c)'
    BY <2>2, OtherCallSeed DEF Moves
  <2>5. p \notin registry'.keep
    BY <1>0, <2>3
  <2>6. SeedKept(p)
    BY <2>5 DEF SeedKept
  <2>7. \A q \in Profiles \ {p} : seed'[q] = seed[q]
    BY <1>0, <2>1
  <2> QED BY <1>0, <2>2, <2>3, <2>4, <2>5, <2>6, <2>7, OneProfileStep
<1>5. CASE RetrievedRemoveSeed(c, p)
  <2>1. seed' = [seed EXCEPT ![p] = None] /\ LockAndLoad(c, NewCall("retrieved", "retrieved", p, None))
    BY <1>5 DEF RetrievedRemoveSeed
  <2>2. Moves(c, "retrieved") /\ call'[c].op = "retrieved" /\ call'[c].profile = p
    BY <1>0, <2>1, NewCallIsCall, LockAndLoadMoves DEF PCs, Ops
  <2>3. UNCHANGED registry
    BY <1>5 DEF RetrievedRemoveSeed
  <2>4. SeedOK(c)'
    BY <2>2, OtherCallSeed DEF Moves
  <2>5. SeedKept(p)
    BY <2>2 DEF SeedKept, Moves
  <2>6. \A q \in Profiles \ {p} : seed'[q] = seed[q]
    BY <1>0, <2>1
  <2> QED BY <1>0, <2>2, <2>3, <2>4, <2>5, <2>6, OneProfileStep
<1> QED BY <1>1, <1>2, <1>3, <1>4, <1>5 DEF Start

LEMMA QuietSteps ==
  ASSUME IInv, SeedInv, NEW c \in Procs,
         DriveApproval(c) \/ FinishLock(c) \/ RebuildCache(c) \/ Crash(c) \/ SaveProfileState(c) \/ OpenDB(c)
  PROVE  SeedsKept
<1>0. /\ TypeOK /\ CallInv /\ registry \in Registries /\ SeedOK(c)
      /\ call[c] \in Calls /\ UNCHANGED registry
  BY DEF IInv, TypeOK, SeedInv, Calls, DriveApproval, FinishLock, RebuildCache, Crash, SaveProfileState, OpenDB
<1>1. \A q \in Profiles : q \in registry.keep \/ ~Active(registry, q) => seed'[q] = seed[q]
  <2>1. CASE FinishLock(c)
    BY <1>0, <2>1 DEF FinishLock, ReconcileLocked, Consumed, IInv, TypeOK
  <2>2. CASE ~FinishLock(c)
    BY <2>2 DEF DriveApproval, RebuildCache, Crash, SaveProfileState, OpenDB, fileVars
  <2> QED BY <2>1, <2>2
<1>2. ASSUME NEW pc \in PCs, Goto(c, pc),
             \/ call[c].pc \in {"approve", "finish", "state", "db"} /\ pc \in {"finish", "state", "db", "commit"}
             \/ call[c].pc = "sync" /\ pc = "consume"
      PROVE  SeedsKept
  <2>1. /\ Moves(c, pc) /\ call'[c].op = call[c].op
        /\ call'[c].profile = call[c].profile /\ call'[c].vault = call[c].vault
    BY <1>0, <1>2, GotoMoves
  <2>2. call[c].op = "create" => call[c].profile \in Profiles
    BY <1>0 DEF CallInv, CallOK, At, SeedOK, CreatePCs
  <2>3. SeedOK(c)'
    BY <1>0, <1>1, <1>2, <2>1, <2>2 DEF Moves, SeedOK, CreatePCs
  <2> QED BY <1>0, <1>1, <2>1, <2>3, NoProfileStep
<1>3. ASSUME AfterError(c) PROVE SeedsKept
  BY <1>0, <1>1, <1>3, AfterErrorSeed, NoProfileStep
<1>4. ASSUME Return(c) PROVE SeedsKept
  BY <1>0, <1>1, <1>4, ReturnSeed, NoProfileStep
<1>5. ASSUME At(c, "finish"), LockAndLoad(c, [call[c] EXCEPT !.pc = "state"]) PROVE SeedsKept
  <2> DEFINE m == [call[c] EXCEPT !.pc = "state"]
  <2>1. m \in Calls /\ m.pc = "state" /\ m.op = call[c].op /\ m.profile = call[c].profile /\ m.vault = call[c].vault
    BY <1>0 DEF Calls, PCs
  <2>2. LockAndLoad(c, m)
    BY <1>5
  <2> HIDE DEF m
  <2>3. /\ Moves(c, "state") /\ call'[c].op = call[c].op
        /\ call'[c].profile = call[c].profile /\ call'[c].vault = call[c].vault
    BY <1>0, <2>1, <2>2, LockAndLoadMoves
  <2>4. call[c].op = "create" => call[c].profile \in Profiles
    BY <1>0 DEF CallInv, CallOK, At, SeedOK, CreatePCs
  <2>5. SeedOK(c)'
    BY <1>0, <1>1, <1>5, <2>3, <2>4 DEF Moves, SeedOK, CreatePCs, At
  <2> QED BY <1>0, <1>1, <2>3, <2>5, NoProfileStep
<1>6. {"finish", "state", "db", "commit", "consume"} \subseteq PCs
  BY DEF PCs
<1>7. CASE DriveApproval(c) \/ RebuildCache(c) \/ SaveProfileState(c) \/ OpenDB(c)
  <2>1. AfterError(c) \/ \E pc \in PCs : Goto(c, pc) /\ 
             \/ call[c].pc \in {"approve", "finish", "state", "db"} /\ pc \in {"finish", "state", "db", "commit"}
             \/ call[c].pc = "sync" /\ pc = "consume"
    BY <1>6, <1>7 DEF DriveApproval, RebuildCache, SaveProfileState, OpenDB, At
  <2> QED BY <1>2, <1>3, <2>1
<1>8. CASE FinishLock(c)
  BY <1>3, <1>5, <1>8 DEF FinishLock
<1>9. CASE Crash(c)
  BY <1>4, <1>9 DEF Crash
<1> QED BY <1>7, <1>8, <1>9

LEMMA WriteSeedSteps ==
  ASSUME IInv, SeedInv, Alone, Alone', NEW c \in Procs,
         CreateWriteSeed(c) \/ CreateRollback(c) \/ ConsumeSeed(c) \/ RemoveAll(c)
  PROVE  SeedsKept
<1> DEFINE p == call[c].profile
<1>0. /\ TypeOK /\ CallInv /\ registry \in Registries /\ seed \in [Profiles -> Vaults \cup {None}]
      /\ call \in [Procs -> Calls] /\ call[c] \in Calls /\ SeedOK(c) /\ UNCHANGED registry
      /\ \A q \in registry.keep : Active(registry, q)
  BY DEF IInv, TypeOK, SeedInv, Calls, CreateWriteSeed, CreateRollback, ConsumeSeed, RemoveAll
<1>1. p \in Profiles /\ p \notin registry.keep
  <2>1. ~At(c, "idle")
    BY DEF CreateWriteSeed, CreateRollback, ConsumeSeed, RemoveAll, At
  <2>2. At(c, "removeAll") => ~Active(registry, p)
    BY <1>0, Names DEF IInv, HolderInv, HolderOK, Active, Registered
  <2>3. p \notin registry.keep
    BY <1>0, <2>2 DEF SeedOK, CreateWriteSeed, CreateRollback, ConsumeSeed, RemoveAll, At
  <2> QED BY <1>0, <2>1, <2>3 DEF CallInv, CallOK
<1>2. SeedKept(p)
  BY <1>0, <1>1 DEF SeedKept
<1>3. \A q \in Profiles \ {p} : seed'[q] = seed[q]
  BY <1>0 DEF CreateWriteSeed, CreateRollback, ConsumeSeed, RemoveSeed, RemoveAll, RemoveFiles
<1>4. CASE CreateWriteSeed(c)
  <2>1. PICK v \in Vaults :
          /\ seed' = [seed EXCEPT ![p] = v]
          /\ call' = [call EXCEPT ![c] = [call[c] EXCEPT !.pc = "approve", !.vault = v]]
    BY <1>4 DEF CreateWriteSeed
  <2> DEFINE m == [call[c] EXCEPT !.pc = "approve", !.vault = v]
  <2>2. /\ m \in Calls /\ m.pc = "approve" /\ m.op = call[c].op
        /\ m.profile = call[c].profile /\ m.vault = v
    BY <1>0 DEF Calls, PCs
  <2>3. call' = [call EXCEPT ![c] = m]
    BY <2>1
  <2> HIDE DEF m
  <2>4. Moves(c, "approve") /\ call'[c] = m
    BY <1>0, <2>2, <2>3 DEF Moves
  <2>5. call[c].op = "create" /\ ~Active(registry, p)
    BY <1>0, <1>4 DEF SeedOK, CreateWriteSeed, At
  <2>6. SeedOK(c)'
    BY <1>0, <1>1, <2>1, <2>2, <2>4, <2>5 DEF SeedOK, CreatePCs
  <2> QED BY <1>0, <1>1, <1>2, <1>3, <2>4, <2>6, OneProfileStep
<1>5. CASE CreateRollback(c) \/ ConsumeSeed(c) \/ RemoveAll(c)
  <2>1. Moves(c, "idle") /\ SeedOK(c)'
    BY <1>0, <1>5, ReturnSeed DEF CreateRollback, ConsumeSeed, RemoveAll
  <2> QED BY <1>0, <1>1, <1>2, <1>3, <2>1, OneProfileStep
<1> QED BY <1>4, <1>5

LEMMA CommitActiveSeeds ==
  ASSUME "chmod" \notin Faults, IInv, SeedInv, Alone, Alone', NEW c \in Procs, CommitActive(c)
  PROVE  SeedsKept
<1> DEFINE p == call[c].profile
           v == call[c].vault
           new == Upsert(registry, p, v, call[c].op = "create")
<1>0. /\ TypeOK /\ CallInv /\ registry \in Registries /\ UNCHANGED seed /\ SeedOK(c)
      /\ At(c, "commit") /\ p \in Profiles /\ v \in Vaults /\ call[c].reg = registry
  BY DEF CommitActive, IInv, CallInv, CallOK, HolderPCs, LockedPCs, At, TypeOK, SeedInv, fileVars
<1>1. CASE UNCHANGED registry /\ AfterError(c)
  BY <1>0, <1>1, AfterErrorSeed, NoProfileStep
<1>2. CASE /\ registry' = new
           /\ IF call[c].op = "create" THEN Return(c) ELSE Finish(c, "sync")
  <2>1. /\ registry' \in Registries
        /\ registry'.vault = [registry.vault EXCEPT ![p] = v]
        /\ registry'.keep = IF call[c].op = "create" THEN registry.keep \cup {p} ELSE registry.keep \ {p}
    BY <1>0, <1>2, UpsertIsRegistry DEF Upsert
  <2>2. registry'.vault[p] = v /\ \A q \in Profiles \ {p} : registry'.vault[q] = registry.vault[q]
    BY <1>0, <2>1 DEF Registries
  <2>3. Active(registry', p)
    BY <1>0, <2>2 DEF Active
  <2>4. CASE call[c].op = "create"
    <3>1. Moves(c, "idle") /\ SeedOK(c)'
      BY <1>0, <1>2, <2>4, ReturnSeed
    <3>2. seed'[p] = v
      BY <1>0, <2>4 DEF SeedOK, At
    <3>3. SeedKept(p)
      BY <2>2, <3>2 DEF SeedKept
    <3> QED BY <1>0, <2>1, <2>2, <2>3, <2>4, <3>1, <3>3, OneProfileStep
  <2>5. CASE call[c].op # "create"
    <3>1. Moves(c, "sync") /\ call'[c].op = call[c].op /\ call'[c].profile = p
      BY <1>0, <1>2, <2>5, FinishMoves DEF PCs
    <3>2. p \notin registry'.keep
      BY <2>1, <2>5
    <3>3. SeedOK(c)' /\ SeedKept(p)
      BY <2>5, <3>1, <3>2 DEF Moves, SeedOK, SeedKept
    <3> QED BY <1>0, <2>1, <2>2, <2>3, <2>5, <3>1, <3>2, <3>3, OneProfileStep
  <2> QED BY <2>4, <2>5
<1> QED BY <1>0, <1>1, <1>2 DEF CommitActive, Saved, SaveFailed

(* The other writers of the registry take profiles out of keep.            *)
LEMMA SaveSteps ==
  ASSUME "chmod" \notin Faults, IInv, SeedInv, Alone, Alone', NEW c \in Procs,
         CommitPending(c) \/ ForgetSave(c) \/ SetDefaultSave(c) \/ RetrievedSave(c)
  PROVE  SeedsKept
<1> DEFINE p == call[c].profile
<1>0. /\ TypeOK /\ CallInv /\ registry \in Registries /\ SeedOK(c)
      /\ p \in Profiles /\ call[c].reg = registry /\ seed \in [Profiles -> Vaults \cup {None}]
      /\ At(c, "pending") => ~Active(registry, p)
      /\ \A q \in registry.keep : Active(registry, q)
  BY DEF CommitPending, ForgetSave, SetDefaultSave, RetrievedSave, IInv, CallInv, CallOK, HolderPCs,
     LockedPCs, HolderInv, HolderOK, At, TypeOK, SeedInv
<1>1. \E pc : Moves(c, pc) /\ SeedOK(c)'
  <2>1. CASE Return(c)
    BY <1>0, <2>1, ReturnSeed
  <2>2. CASE Goto(c, "removeAll") /\ At(c, "forget")
    <3>1. Moves(c, "removeAll") /\ call'[c].op = call[c].op
      BY <1>0, <2>2, GotoMoves DEF PCs
    <3>2. call[c].op # "create"
      BY <1>0, <2>2 DEF SeedOK, At, CreatePCs
    <3> QED BY <3>1, <3>2, OtherCallSeed DEF Moves
  <2> QED BY <2>1, <2>2 DEF CommitPending, ForgetSave, SetDefaultSave, RetrievedSave
<1>2. CASE UNCHANGED <<registry, seed>>
  BY <1>0, <1>1, <1>2, NoProfileStep
<1>3. CASE p \notin registry'.keep /\ registry' \in Registries
           /\ \A q \in Profiles \ {p} :
                /\ seed'[q] = seed[q] /\ registry'.vault[q] = registry.vault[q]
                /\ q \in registry'.keep => q \in registry.keep
  <2>1. SeedKept(p)
    BY <1>3 DEF SeedKept
  <2> QED BY <1>0, <1>1, <1>3, <2>1, OneProfileStep
<1>4. CASE CommitPending(c)
  <2>1. \A q \in Profiles \ {p} : seed'[q] = seed[q]
    BY <1>0, <1>4 DEF CommitPending, RemoveSeed
  <2>2. CASE UNCHANGED registry
    <3>1. p \notin registry.keep
      BY <1>0, <1>4 DEF CommitPending
    <3> QED BY <1>0, <1>3, <2>1, <2>2, <3>1
  <2>3. CASE registry' = Upsert(registry, p, Pending, FALSE)
    <3>1. /\ registry' \in Registries
          /\ registry'.vault = [registry.vault EXCEPT ![p] = Pending] /\ registry'.keep = registry.keep \ {p}
      BY <1>0, <2>3, UpsertIsRegistry DEF Upsert
    <3> QED BY <1>0, <1>3, <2>1, <3>1 DEF Registries
  <2> QED BY <1>0, <1>4, <2>2, <2>3 DEF CommitPending, Saved, SaveFailed
<1>5. CASE ForgetSave(c)
  <2>1. UNCHANGED seed
    BY <1>5 DEF ForgetSave, fileVars
  <2>2. CASE registry' = WithoutProfile(registry, p)
    <3>1. /\ registry' \in Registries
          /\ registry'.vault = [registry.vault EXCEPT ![p] = Absent] /\ registry'.keep = registry.keep \ {p}
      BY <1>0, <2>2, WithoutProfileIsRegistry DEF WithoutProfile
    <3> QED BY <1>0, <1>3, <2>1, <3>1 DEF Registries
  <2> QED BY <1>0, <1>2, <1>5, <2>1, <2>2 DEF ForgetSave, Saved, SaveFailed
<1>6. CASE RetrievedSave(c)
  <2>1. UNCHANGED seed
    BY <1>6 DEF RetrievedSave, fileVars
  <2>2. CASE registry' = [registry EXCEPT !.keep = registry.keep \ {p}]
    <3>1. /\ registry' \in Registries
          /\ registry'.vault = registry.vault /\ registry'.keep = registry.keep \ {p}
      BY <1>0, <2>2 DEF Registries
    <3> QED BY <1>0, <1>3, <2>1, <3>1
  <2> QED BY <1>0, <1>2, <1>6, <2>1, <2>2 DEF RetrievedSave, Saved, SaveFailed
<1>7. CASE SetDefaultSave(c)
  <2>1. UNCHANGED seed
    BY <1>7 DEF SetDefaultSave, fileVars
  <2>2. CASE registry' = [registry EXCEPT !.default = p]
    <3>1. registry' \in Registries /\ registry'.vault = registry.vault /\ registry'.keep = registry.keep
      BY <1>0, <2>2 DEF Registries
    <3>2. SeedKept(p) /\ (p \in registry'.keep => Active(registry', p))
      BY <1>0, <2>1, <3>1 DEF SeedKept, Active
    <3> QED BY <1>0, <1>1, <2>1, <3>1, <3>2, OneProfileStep
  <2> QED BY <1>0, <1>2, <1>7, <2>1, <2>2 DEF SetDefaultSave, Saved, SaveFailed
<1> QED BY <1>4, <1>5, <1>6, <1>7

LEMMA SeedsStep ==
  ASSUME "chmod" \notin Faults, IInv, SeedInv, Alone, Alone', [Next]_vars
  PROVE  SeedsKept
<1>1. ASSUME NEW p \in Profiles, UseProfile(p) PROVE SeedsKept
  <2>1. UNCHANGED <<registry, seed, call>>
    BY <1>1 DEF UseProfile
  <2> QED BY <2>1 DEF SeedsKept, SeedKept, SeedInv, SeedOK, Active
<1>2. CASE UNCHANGED vars
  <2>1. UNCHANGED <<registry, seed, call>>
    BY <1>2 DEF vars, fileVars
  <2> QED BY <2>1 DEF SeedsKept, SeedKept, SeedInv, SeedOK, Active
<1> QED BY <1>1, <1>2, StartSeeds, QuietSteps, WriteSeedSteps, CommitActiveSeeds, SaveSteps DEF Next, Step

(* Create and MarkSeedRetrieved: while no other call works on the profile  *)
(* of a running Create, and the file system accepts the final chmod of the *)
(* registry file, the recovery seed of a created vault is the vault's own  *)
(* and stays until the human has retrieved it or forgets the profile,      *)
(* through every other error and every crash.  Two calls that overlap      *)
(* break it (provision.go:351).                                            *)
THEOREM SeedIsKept ==
  ASSUME "chmod" \notin Faults
  PROVE  Spec /\ []Alone => KeptSeedIsTheVaults
<1> DEFINE Kept == \A p \in Profiles :
             /\ p \in registry'.keep
             /\ seed'[p] # registry'.vault[p]
             => \/ p \in registry.keep /\ seed[p] # registry.vault[p]
                \/ \E c \in Procs : call'[c].pc = "retrieved" /\ call'[c].profile = p
<1>1. Init => SeedInv
  BY DEF Init, SeedInv, SeedOK, EmptyRegistry, Idle
<1>2. IInv /\ SeedInv /\ Alone /\ Alone' /\ [Next]_vars => SeedInv' /\ Kept
  BY SeedsStep DEF SeedsKept, SeedKept
<1> HIDE DEF Kept
<1>3. Spec /\ []Alone => [][Kept]_vars
  BY <1>1, <1>2, Invariance, PTL DEF Spec
<1> QED BY <1>3 DEF KeptSeedIsTheVaults, Kept
=============================================================================
