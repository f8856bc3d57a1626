---------------------------- MODULE ServiceLoops ----------------------------
(***************************************************************************)
(* core/vault/syncloop.go and upload_loop.go: the ServiceScheduler with    *)
(* one worker goroutine per loop, and the ticks of the sync loop and of    *)
(* the upload loop, each with its cache of one open VaultService per       *)
(* profile.                                                                *)
(*                                                                         *)
(* A critical section of a loop's mutex, a context check together with     *)
(* what is read right after it, one Sync or Flush call: each is an action. *)
(* Close, TriggerNow, Shutdown and changes of the profile registry happen  *)
(* between any two of them.                                                *)
(***************************************************************************)
EXTENDS Integers, FiniteSets

CONSTANTS Loops,        \* registered workers
          SyncLoops,    \* those that run VaultSyncLoop.Tick; others VaultUploadLoop.Tick
          Profiles,     \* vault profiles
          MaxServices   \* bound: VaultServices built

ASSUME SyncLoopsAssumption   == SyncLoops \subseteq Loops
ASSUME MaxServicesAssumption == MaxServices \in Nat
ASSUME ProfilesAssumption    == Profiles # {}

NoService == 0
Services  == 1..MaxServices

VARIABLES
  started,    \* s.started
  launching,  \* workers Start has not yet added to the WaitGroup
  cancelled,  \* the scheduler's context is done
  down,       \* where the Shutdown call is
  worker,     \* [loop -> where its runWorker goroutine and its tick are]
  trigger,    \* loops whose one-slot trigger channel holds a token
  due,        \* loops whose timer was reset to 0
  accessible, \* what cfg.Profiles returns
  todo,       \* [loop -> profiles its tick has still to visit]
  cur,        \* [loop -> profile its tick is visiting]
  using,      \* [loop -> service its tick drains]
  drained,    \* loops whose drainService call saw a full batch
  rerun,      \* loops whose tick asks for an immediate re-run
  svcs,       \* [loop -> [profile -> service]]  l.svcs
  built,      \* how many services have been built
  closes,     \* [service -> number]  how often svc.Close ran
  closed,     \* loops with l.closed
  last,       \* [loop -> profiles]  keys of l.lastActivity
  aged        \* [loop -> profiles]  idle for IdleCloseAfter at the tick's now

schedVars == <<started, launching, cancelled, down>>
wakeVars  == <<trigger, due>>
tickVars  == <<worker, todo, cur, using, drained, rerun>>
svcVars   == <<svcs, built, closes, closed>>
idleVars  == <<last, aged>>
vars == <<schedVars, wakeVars, tickVars, accessible, svcVars, idleVars>>

Init ==
  /\ started = FALSE /\ launching = {} /\ cancelled = FALSE /\ down = "no"
  /\ worker     = [l \in Loops |-> "off"]
  /\ trigger    = {} /\ due = {}
  /\ accessible = Profiles
  /\ todo       = [l \in Loops |-> {}]
  /\ cur        = [l \in Loops |-> CHOOSE p \in Profiles : TRUE]
  /\ using      = [l \in Loops |-> NoService]
  /\ drained    = {} /\ rerun = {}
  /\ svcs       = [l \in Loops |-> [p \in Profiles |-> NoService]]
  /\ built      = 0
  /\ closes     = [i \in Services |-> 0]
  /\ closed     = {}
  /\ last       = [l \in Loops |-> {}]
  /\ aged       = [l \in Loops |-> {}]

WorkerAt(l, s) == worker[l] = s
To(l, s)       == worker' = [worker EXCEPT ![l] = s]

-----------------------------------------------------------------------------
(* The scheduler: Start, TriggerNow, Shutdown.                             *)

(* Not called again after Shutdown (syncloop.go:136).                      *)
Start ==
  /\ ~started
  /\ down = "no"
  /\ started'   = TRUE
  /\ launching' = Loops
  /\ UNCHANGED <<cancelled, down, wakeVars, tickVars, accessible, svcVars, idleVars>>

(* wg.Add and go, after Start has released the mutex.                      *)
Launch(l) ==
  /\ l \in launching
  /\ launching' = launching \ {l}
  /\ To(l, "wait")
  /\ UNCHANGED <<started, cancelled, down, wakeVars, todo, cur, using, drained, rerun,
                 accessible, svcVars, idleVars>>

(* A full channel already holds a token.                                   *)
TriggerNow(l) ==
  /\ trigger' = trigger \cup {l}
  /\ UNCHANGED <<schedVars, due, tickVars, accessible, svcVars, idleVars>>

(* cancel() is there once Start ran.                                       *)
Shutdown ==
  /\ down = "no"
  /\ down'      = "waiting"
  /\ cancelled' = (cancelled \/ started)
  /\ UNCHANGED <<started, launching, wakeVars, tickVars, accessible, svcVars, idleVars>>

(* wg.Wait: no goroutine that was added is left.                           *)
ShutdownReturn ==
  /\ down = "waiting"
  /\ \A l \in Loops : worker[l] \in {"off", "exited"}
  /\ down' = "returned"
  /\ UNCHANGED <<started, launching, cancelled, wakeVars, tickVars, accessible, svcVars, idleVars>>

(* The context given to Start is cancelled by its owner.                   *)
CancelContext ==
  /\ started
  /\ ~cancelled
  /\ cancelled' = TRUE
  /\ UNCHANGED <<started, launching, down, wakeVars, tickVars, accessible, svcVars, idleVars>>

-----------------------------------------------------------------------------
(* runWorker: the three cases of its select, and the end of a tick.        *)

(* The interval passed, or the timer was reset to 0.                       *)
TimerTick(l) ==
  /\ WorkerAt(l, "wait")
  /\ due' = due \ {l}
  /\ To(l, "begin")
  /\ UNCHANGED <<schedVars, trigger, todo, cur, using, drained, rerun, accessible, svcVars, idleVars>>

(* A timer that fired meanwhile is drained.                                *)
TriggerTick(l) ==
  /\ WorkerAt(l, "wait")
  /\ l \in trigger
  /\ trigger' = trigger \ {l}
  /\ due'     = due \ {l}
  /\ To(l, "begin")
  /\ UNCHANGED <<schedVars, todo, cur, using, drained, rerun, accessible, svcVars, idleVars>>

Exit(l) ==
  /\ WorkerAt(l, "wait")
  /\ cancelled
  /\ To(l, "exited")
  /\ UNCHANGED <<schedVars, wakeVars, todo, cur, using, drained, rerun, accessible, svcVars, idleVars>>

(* applyTickResult: a zero Duration resets the timer to fire at once.  (A  *)
(* tick of these loops returns no other Duration.)                         *)
EndTick(l, again) ==
  /\ To(l, "wait")
  /\ due'     = due \cup {k \in {l} : again}
  /\ todo'    = [todo EXCEPT ![l] = {}]
  /\ using'   = [using EXCEPT ![l] = NoService]
  /\ drained' = drained \ {l}
  /\ rerun'   = rerun \ {l}

CrashWorker(l) ==
  /\ WorkerAt(l, "call")
  /\ To(l, "crashed")
  /\ UNCHANGED <<schedVars, wakeVars, todo, cur, using, drained, rerun, accessible, svcVars, idleVars>>

(* A panic in Sync or Flush is recovered; the tick counts as nil.          *)
Recover(l) ==
  /\ WorkerAt(l, "call")
  /\ EndTick(l, FALSE)
  /\ UNCHANGED <<schedVars, trigger, cur, accessible, svcVars, idleVars>>

-----------------------------------------------------------------------------
(* The ticks.                                                              *)

BeginUnchecked(l) ==
  /\ WorkerAt(l, "begin")
  /\ todo' = [todo EXCEPT ![l] = accessible]
  /\ To(l, IF l \in SyncLoops THEN "retire" ELSE "next")
  /\ UNCHANGED <<schedVars, wakeVars, cur, using, drained, rerun, accessible, svcVars, idleVars>>

(* ctx.Err, then cfg.Profiles.                                             *)
Begin(l) ==
  /\ WorkerAt(l, "begin")
  /\ \/ /\ cancelled
        /\ EndTick(l, FALSE)
     \/ /\ ~cancelled
        /\ todo' = [todo EXCEPT ![l] = accessible]
        /\ To(l, IF l \in SyncLoops THEN "retire" ELSE "next")
        /\ UNCHANGED <<due, using, drained, rerun>>
  /\ UNCHANGED <<schedVars, trigger, cur, accessible, svcVars, idleVars>>

(* svc.Close and delete for the cached services of the profiles in S.      *)
CloseServices(l, S) ==
  LET ids == {svcs[l][p] : p \in S} \ {NoService}
  IN /\ closes' = [i \in Services |-> IF i \in ids THEN closes[i] + 1 ELSE closes[i]]
     /\ svcs'   = [svcs EXCEPT ![l] = [p \in Profiles |-> IF p \in S THEN NoService ELSE svcs[l][p]]]

CloseServicesKeeping(l, S) ==
  LET ids == {svcs[l][p] : p \in S} \ {NoService}
  IN /\ closes' = [i \in Services |-> IF i \in ids THEN closes[i] + 1 ELSE closes[i]]
     /\ UNCHANGED svcs

RetireKeeping(l) ==
  LET gone == {p \in Profiles : svcs[l][p] # NoService /\ p \notin todo[l]}
  IN /\ WorkerAt(l, "retire")
     /\ CloseServicesKeeping(l, gone)
     /\ last' = [last EXCEPT ![l] = last[l] \ gone]
     /\ \E S \in SUBSET (last[l] \ gone) : aged' = [aged EXCEPT ![l] = S]
     /\ To(l, "next")
     /\ UNCHANGED <<schedVars, wakeVars, todo, cur, using, drained, rerun, accessible, built, closed>>

RetireNothing(l) ==
  /\ WorkerAt(l, "retire")
  /\ \E S \in SUBSET last[l] : aged' = [aged EXCEPT ![l] = S]
  /\ To(l, "next")
  /\ UNCHANGED <<schedVars, wakeVars, todo, cur, using, drained, rerun, accessible, svcVars, last>>

(* VaultSyncLoop: drop the services of profiles that are gone, then take   *)
(* the time, by which any of the others may have been idle too long.       *)
Retire(l) ==
  LET gone == {p \in Profiles : svcs[l][p] # NoService /\ p \notin todo[l]}
  IN /\ WorkerAt(l, "retire")
     /\ CloseServices(l, gone)
     /\ last' = [last EXCEPT ![l] = last[l] \ gone]
     /\ \E S \in SUBSET (last[l] \ gone) : aged' = [aged EXCEPT ![l] = S]
     /\ To(l, "next")
     /\ UNCHANGED <<schedVars, wakeVars, todo, cur, using, drained, rerun, accessible, built, closed>>

(* The loop over the profiles, with its context check.                     *)
NextProfile(l) ==
  /\ WorkerAt(l, "next")
  /\ \/ /\ todo[l] # {} /\ ~cancelled
        /\ \E p \in todo[l] :
             /\ cur'  = [cur EXCEPT ![l] = p]
             /\ todo' = [todo EXCEPT ![l] = todo[l] \ {p}]
        /\ To(l, "ensure")
        /\ UNCHANGED <<due, using, drained, rerun>>
     \/ /\ todo[l] # {} /\ cancelled
        /\ EndTick(l, FALSE)
        /\ UNCHANGED cur
     \/ /\ todo[l] = {} /\ l \in SyncLoops
        /\ To(l, "idleClose")
        /\ UNCHANGED <<due, todo, cur, using, drained, rerun>>
     \/ /\ todo[l] = {} /\ l \notin SyncLoops
        /\ EndTick(l, l \in rerun)
        /\ UNCHANGED cur
  /\ UNCHANGED <<schedVars, trigger, accessible, svcVars, idleVars>>

(* drainService checks the context first; Flush is called right away.      *)
StartDrain(l) == To(l, IF l \in SyncLoops THEN "drain" ELSE "call")

(* The service of a new profile is built, and cached, under the mutex.     *)
Build(l, p) ==
  /\ built < MaxServices
  /\ built' = built + 1
  /\ svcs'  = [svcs EXCEPT ![l][p] = built + 1]
  /\ using' = [using EXCEPT ![l] = built + 1]
  /\ IF l \in SyncLoops /\ p \notin last[l]
     THEN /\ last' = [last EXCEPT ![l] = last[l] \cup {p}]
          /\ UNCHANGED aged
     ELSE UNCHANGED idleVars
  /\ StartDrain(l)

EnsureServiceAfterClose(l) ==
  LET p == cur[l] IN
  /\ WorkerAt(l, "ensure")
  /\ \/ /\ svcs[l][p] # NoService
        /\ using' = [using EXCEPT ![l] = svcs[l][p]]
        /\ StartDrain(l)
        /\ UNCHANGED <<svcs, built, idleVars>>
     \/ svcs[l][p] = NoService /\ Build(l, p)
     \/ /\ svcs[l][p] = NoService
        /\ To(l, "next")
        /\ UNCHANGED <<svcs, built, using, idleVars>>
  /\ UNCHANGED <<schedVars, wakeVars, todo, cur, drained, rerun, accessible, closes, closed>>

(* ensureService: the cached service, a new one, or the profile is skipped *)
(* because the loop is closed or the service cannot be built.              *)
EnsureService(l) ==
  LET p == cur[l] IN
  /\ WorkerAt(l, "ensure")
  /\ \/ /\ l \notin closed /\ svcs[l][p] # NoService
        /\ using' = [using EXCEPT ![l] = svcs[l][p]]
        /\ StartDrain(l)
        /\ UNCHANGED <<svcs, built, idleVars>>
     \/ l \notin closed /\ svcs[l][p] = NoService /\ Build(l, p)
     \/ /\ l \in closed \/ svcs[l][p] = NoService
        /\ To(l, "next")
        /\ UNCHANGED <<svcs, built, using, idleVars>>
  /\ UNCHANGED <<schedVars, wakeVars, todo, cur, drained, rerun, accessible, closes, closed>>

DrainTo(l, s) ==
  /\ To(l, s)
  /\ using' = [using EXCEPT ![l] = NoService]
  /\ UNCHANGED <<schedVars, wakeVars, todo, cur, accessible, svcVars, idleVars>>

DrainUnchecked(l) ==
  /\ WorkerAt(l, "drain")
  /\ To(l, "call")
  /\ UNCHANGED <<schedVars, wakeVars, todo, cur, using, drained, rerun, accessible, svcVars, idleVars>>

AfterDrain(l) == IF l \in drained THEN "note" ELSE "next"

(* drainService: the context check before each Sync.                       *)
Drain(l) ==
  /\ WorkerAt(l, "drain")
  /\ \/ /\ ~cancelled
        /\ To(l, "call")
        /\ UNCHANGED <<schedVars, wakeVars, todo, cur, using, accessible, svcVars, idleVars>>
     \/ /\ cancelled
        /\ DrainTo(l, AfterDrain(l))
  /\ UNCHANGED <<drained, rerun>>

(* A Sync that fetched a full batch goes round again; Close may have       *)
(* closed the service when it was about to return.                         *)
SyncFull(l) ==
  /\ WorkerAt(l, "call")
  /\ l \in SyncLoops
  /\ drained' = drained \cup {l}
  /\ To(l, "drain")
  /\ UNCHANGED <<schedVars, wakeVars, todo, cur, using, rerun, accessible, svcVars, idleVars>>

(* The last Sync: not full, or failed.                                     *)
SyncLast(l) ==
  /\ WorkerAt(l, "call")
  /\ l \in SyncLoops
  /\ DrainTo(l, AfterDrain(l))
  /\ UNCHANGED <<drained, rerun>>

(* noteActivity and rerun = true.                                          *)
NoteActivity(l) ==
  LET p == cur[l] IN
  /\ WorkerAt(l, "note")
  /\ rerun'   = rerun \cup {l}
  /\ drained' = drained \ {l}
  /\ last'    = [last EXCEPT ![l] = last[l] \cup {p}]
  /\ aged'    = [aged EXCEPT ![l] = aged[l] \ {p}]
  /\ To(l, "next")
  /\ UNCHANGED <<schedVars, wakeVars, todo, cur, using, accessible, svcVars>>

(* VaultUploadLoop: one Flush per profile, which may fail.                 *)
Flush(l) ==
  /\ WorkerAt(l, "call")
  /\ l \notin SyncLoops
  /\ \E n \in {0, 1} : rerun' = rerun \cup {k \in {l} : n > 0}
  /\ DrainTo(l, "next")
  /\ UNCHANGED drained

CloseIdleKeeping(l) ==
  LET idle == {p \in last[l] : svcs[l][p] # NoService /\ p \in aged[l]}
  IN /\ WorkerAt(l, "idleClose")
     /\ CloseServicesKeeping(l, idle)
     /\ last' = [last EXCEPT ![l] = last[l] \ idle]
     /\ aged' = [aged EXCEPT ![l] = {}]
     /\ EndTick(l, l \in rerun)
     /\ UNCHANGED <<schedVars, trigger, cur, accessible, built, closed>>

(* closeIdle, by the time the tick began, and the end of the tick.         *)
CloseIdle(l) ==
  LET idle == {p \in last[l] : svcs[l][p] # NoService /\ p \in aged[l]}
  IN /\ WorkerAt(l, "idleClose")
     /\ CloseServices(l, idle)
     /\ last' = [last EXCEPT ![l] = last[l] \ idle]
     /\ aged' = [aged EXCEPT ![l] = {}]
     /\ EndTick(l, l \in rerun)
     /\ UNCHANGED <<schedVars, trigger, cur, accessible, built, closed>>

(* Close of a loop: at any time, with a tick running or not.               *)
Close(l) ==
  /\ closed' = closed \cup {l}
  /\ CloseServices(l, Profiles)
  /\ last' = [last EXCEPT ![l] = {}]
  /\ aged' = [aged EXCEPT ![l] = {}]
  /\ UNCHANGED <<schedVars, wakeVars, tickVars, accessible, built>>

-----------------------------------------------------------------------------
(* The registry: profiles are forgotten and registered.                    *)

Forget(p) ==
  /\ accessible' = accessible \ {p}
  /\ UNCHANGED <<schedVars, wakeVars, tickVars, svcVars, idleVars>>

Register(p) ==
  /\ accessible' = accessible \cup {p}
  /\ UNCHANGED <<schedVars, wakeVars, tickVars, svcVars, idleVars>>

-----------------------------------------------------------------------------
WorkerStep(l) ==
  \/ TimerTick(l) \/ TriggerTick(l) \/ Exit(l) \/ Begin(l) \/ Retire(l)
  \/ NextProfile(l) \/ EnsureService(l) \/ Drain(l) \/ NoteActivity(l) \/ CloseIdle(l)

ServiceCall(l) == SyncFull(l) \/ SyncLast(l) \/ Flush(l) \/ Recover(l)

Next ==
  \/ Start \/ Shutdown \/ ShutdownReturn \/ CancelContext
  \/ \E l \in Loops :
       \/ Launch(l) \/ TriggerNow(l) \/ Close(l)
       \/ WorkerStep(l) \/ ServiceCall(l)
  \/ \E p \in Profiles : Forget(p) \/ Register(p)

Spec == Init /\ [][Next]_vars

(* Goroutines run, intervals pass, each Sync or Flush call returns, and a  *)
(* select does not pass over the cancelled context for ever.               *)
Fairness ==
  /\ WF_vars(ShutdownReturn)
  /\ \A l \in Loops :
       /\ WF_vars(Launch(l))
       /\ WF_vars(WorkerStep(l))
       /\ WF_vars(ServiceCall(l))
       /\ SF_vars(Exit(l))

FairSpec == Spec /\ Fairness

-----------------------------------------------------------------------------
(* Properties.                                                             *)

WorkerStates == {"off", "wait", "begin", "retire", "next", "ensure", "drain", "call", "note",
                 "idleClose", "exited"}

(* The scheduler, the ticks and the caches keep their shape; in particular *)
(* no panic of a tick takes its worker down (syncloop.go:219).             *)
TypeOK ==
  /\ started \in BOOLEAN /\ cancelled \in BOOLEAN
  /\ launching \subseteq Loops
  /\ down \in {"no", "waiting", "returned"}
  /\ worker \in [Loops -> WorkerStates]
  /\ trigger \subseteq Loops /\ due \subseteq Loops
  /\ accessible \subseteq Profiles
  /\ todo \in [Loops -> SUBSET Profiles]
  /\ cur \in [Loops -> Profiles]
  /\ using \in [Loops -> {NoService} \cup Services]
  /\ drained \subseteq Loops /\ rerun \subseteq Loops
  /\ svcs \in [Loops -> [Profiles -> {NoService} \cup Services]]
  /\ built \in 0..MaxServices
  /\ closes \in [Services -> Nat]
  /\ closed \subseteq Loops
  /\ last \in [Loops -> SUBSET Profiles]
  /\ aged \in [Loops -> SUBSET Profiles]

(* No SDK and database handle is ever lost: a service that is still open   *)
(* is in the cache of a loop that is not closed, whatever Close, retiring  *)
(* and idle closing do between the steps of a tick.                        *)
NoLeakedService ==
  \A i \in 1..built : closes[i] = 0 => \E l \in Loops \ closed, p \in Profiles : svcs[l][p] = i

(* Retiring, idle closing and Close never close one service twice.         *)
ClosedOnce == \A i \in Services : closes[i] <= 1

(* A tick that was handed a service finds it open for as long as it drains *)
(* it, unless the loop itself is closed beneath it.                        *)
DrainsOpenService ==
  \A l \in Loops : (worker[l] \in {"drain", "call"} /\ closes[using[l]] > 0) => l \in closed

(* Once Shutdown has returned no tick touches a service again, not even of *)
(* a worker that Start launches late (syncloop.go:133).                    *)
NoWorkAfterShutdown ==
  down = "returned" => \A l \in Loops : worker[l] \in {"off", "wait", "begin", "exited"}

(* Shutdown returns, however many full batches a sync still has to drain.  *)
ShutdownReturns == (down = "waiting") ~> (down = "returned")

(* The sync loop "retires and closes services for profiles no longer       *)
(* accessible" (syncloop.go:241): if backlogs end, the service of a        *)
(* profile that stays forgotten is closed while the scheduler runs.        *)
ForgottenIsClosed ==
  (\A l \in SyncLoops : SF_vars(SyncLast(l)))
    => \A l \in SyncLoops, p \in Profiles :
         (started /\ p \notin accessible)
            ~> (svcs[l][p] = NoService \/ p \in accessible \/ cancelled)
=============================================================================
