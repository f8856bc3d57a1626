---------------------------- MODULE FlushManager ----------------------------
(***************************************************************************)
(* core/vault/flushmgr.go: one flush worker goroutine per vault profile,   *)
(* fed by any number of vault_flush requests (Enqueue) and stopped by a    *)
(* single bounded shutdown (Close).                                        *)
(*                                                                         *)
(* Every critical section of the manager's mutex is one action; what a     *)
(* goroutine does between two critical sections (start a goroutine, send   *)
(* on a channel, build a service, run a flush) is an action of its own, so *)
(* callers, workers and Close interleave exactly where the Go code lets    *)
(* them.                                                                   *)
(***************************************************************************)
EXTENDS Integers, Sequences, FiniteSets

CONSTANTS Profiles,   \* vault profiles (keys of m.workers and m.pending)
          Callers,    \* goroutines that call Enqueue (one request each at a time)
          MaxJobs     \* bound on m.seq: how many jobs are accepted at most

ASSUME MaxJobsAssumption  == MaxJobs \in Nat
ASSUME ProfilesAssumption == Profiles # {}

Jobs  == 1..MaxJobs   \* JobID "flush-<seq>" is its sequence number
NoJob == 0            \* a nil *FlushJob

(* "none" is a job that has not been created yet. *)
Statuses == {"none", "queued", "running", "done", "failed"}
Terminal == {"done", "failed"}
Outcomes == {"none", "done", "failed"}

VARIABLES
  seq,        \* m.seq
  owner,      \* [job -> profile] FlushJob.Profile
  status,     \* [job -> status]  FlushJob.Status
  started,    \* the jobs with FlushJob.StartedAt # ""
  closes,     \* [job -> Nat]     how often close(job.done) ran (doneClosed = closes > 0)
  finalized,  \* the jobs with FlushJob.finalized
  pending,    \* [profile -> sequence of jobs] m.pending
  caller,     \* [caller -> "idle" | "ensure" | "wake"] where an Enqueue call is
  request,    \* [caller -> job] the job that call created
  worker,     \* [profile -> where its runWorker goroutine is]
  wake,       \* the profiles whose one-slot wake channel holds a token
  cur,        \* [profile -> job] the worker's local job
  active,     \* [profile -> job] w.active
  outcome,    \* [profile -> outcome] what process() is about to record
  svc,        \* [profile -> "none" | "open" | "closed"] w.svc
  handles,    \* [profile -> number] service handles built and not yet closed
  closer,     \* where the Close() call is
  sweep,      \* workers the timed-out Close() still has to look at
  disposing   \* workers whose service the timed-out Close() has decided to close

jobVars    == <<seq, owner, status, started, closes, finalized>>
callerVars == <<caller, request>>
workerVars == <<worker, cur, active, outcome>>
svcVars    == <<svc, handles>>
closerVars == <<closer, sweep, disposing>>
vars == <<jobVars, callerVars, workerVars, svcVars, closerVars, pending, wake>>

WorkerStates == {"none", "pop", "select", "activate", "run", "stamp", "service",
                 "build", "publish", "flush", "settle", "deactivate", "exited"}
CloserStates == {"open", "cancel", "join", "failStuck", "sweep", "joined", "gaveUp"}

closed      == closer # "open"                     \* m.closed
cancelled   == closer \notin {"open", "cancel"}    \* m.ctx is done
Live(p)     == worker[p] # "none"                  \* m.workers has had p's worker
InQueue(j)  == \E p \in Profiles : \E i \in 1..Len(pending[p]) : pending[p][i] = j
Stuck(j)    == \E p \in Profiles : Live(p) /\ active[p] = j
CloseReturned == closer \in {"joined", "gaveUp"}

Init ==
  /\ seq       = 0
  /\ owner     = [j \in Jobs |-> CHOOSE p \in Profiles : TRUE]  \* read once j exists
  /\ status    = [j \in Jobs |-> "none"]
  /\ started   = {}
  /\ closes    = [j \in Jobs |-> 0]
  /\ finalized = {}
  /\ pending   = [p \in Profiles |-> <<>>]
  /\ caller    = [c \in Callers |-> "idle"]
  /\ request   = [c \in Callers |-> NoJob]
  /\ worker    = [p \in Profiles |-> "none"]
  /\ wake      = {}
  /\ cur       = [p \in Profiles |-> NoJob]
  /\ active    = [p \in Profiles |-> NoJob]
  /\ outcome   = [p \in Profiles |-> "none"]
  /\ svc       = [p \in Profiles |-> "none"]
  /\ handles   = [p \in Profiles |-> 0]
  /\ closer    = "open"
  /\ sweep     = {}
  /\ disposing = {}

-----------------------------------------------------------------------------
(* Enqueue: two critical sections (its own, and ensureWorker's when the    *)
(* profile has no worker yet) and a non-blocking send on the wake channel. *)

(* lines 107-124: the job is created and queued before anyone is woken.    *)
(* A closed manager returns ErrVaultClosed and changes nothing.            *)
Enqueue(c, p) ==
  /\ caller[c] = "idle"
  /\ ~closed
  /\ seq < MaxJobs
  /\ seq'     = seq + 1
  /\ owner'   = [owner EXCEPT ![seq + 1] = p]
  /\ status'  = [status EXCEPT ![seq + 1] = "queued"]
  /\ pending' = [pending EXCEPT ![p] = Append(@, seq + 1)]
  /\ request' = [request EXCEPT ![c] = seq + 1]
  /\ caller'  = [caller EXCEPT ![c] = IF Live(p) THEN "wake" ELSE "ensure"]
  /\ UNCHANGED <<started, closes, finalized, workerVars, svcVars, closerVars, wake>>

EnsureWorkerAfterClose(c) ==
  LET p == owner[request[c]] IN
  /\ caller[c] = "ensure"
  /\ caller' = [caller EXCEPT ![c] = "wake"]
  /\ worker' = [worker EXCEPT ![p] = IF @ = "none" THEN "pop" ELSE @]
  /\ UNCHANGED <<jobVars, request, cur, active, outcome, svcVars, closerVars, pending, wake>>

(* ensureWorker: nil once closed (Enqueue then returns ErrVaultClosed), an *)
(* existing worker if another request won the race, else a new goroutine.  *)
EnsureWorker(c) ==
  LET p == owner[request[c]] IN
  /\ caller[c] = "ensure"
  /\ caller' = [caller EXCEPT ![c] = IF closed THEN "idle" ELSE "wake"]
  /\ worker' = [worker EXCEPT ![p] = IF ~closed /\ @ = "none" THEN "pop" ELSE @]
  /\ UNCHANGED <<jobVars, request, cur, active, outcome, svcVars, closerVars, pending, wake>>

WakeUnbuffered(c) ==
  LET p == owner[request[c]] IN
  /\ caller[c] = "wake"
  /\ caller' = [caller EXCEPT ![c] = "idle"]
  /\ wake' \in {wake, wake \cup {q \in {p} : worker[q] = "select"}}
  /\ UNCHANGED <<jobVars, request, workerVars, svcVars, closerVars, pending>>

(* lines 134-138: a full wake channel already holds a token; drop this one. *)
Wake(c) ==
  LET p == owner[request[c]] IN
  /\ caller[c] = "wake"
  /\ caller' = [caller EXCEPT ![c] = "idle"]
  /\ wake'   = wake \cup {p}
  /\ UNCHANGED <<jobVars, request, workerVars, svcVars, closerVars, pending>>

-----------------------------------------------------------------------------
(* The worker goroutine: runWorker, process, service.                      *)

To(p, s) == worker' = [worker EXCEPT ![p] = s]

PopLast(p) ==
  /\ worker[p] = "pop"
  /\ IF pending[p] = <<>>
     THEN To(p, "select") /\ UNCHANGED <<cur, pending>>
     ELSE /\ cur'     = [cur EXCEPT ![p] = pending[p][Len(pending[p])]]
          /\ pending' = [pending EXCEPT ![p] = SubSeq(@, 1, Len(@) - 1)]
          /\ To(p, "activate")
  /\ UNCHANGED <<jobVars, callerVars, active, outcome, svcVars, closerVars, wake>>

PopPending(p) ==
  /\ worker[p] = "pop"
  /\ IF pending[p] = <<>>
     THEN To(p, "select") /\ UNCHANGED <<cur, pending>>
     ELSE /\ cur'     = [cur EXCEPT ![p] = Head(pending[p])]
          /\ pending' = [pending EXCEPT ![p] = Tail(@)]
          /\ To(p, "activate")
  /\ UNCHANGED <<jobVars, callerVars, active, outcome, svcVars, closerVars, wake>>

(* The select of an idle worker: either ready case may be taken.           *)
Wakened(p) ==
  /\ worker[p] = "select"
  /\ p \in wake
  /\ wake' = wake \ {p}
  /\ To(p, "pop")
  /\ UNCHANGED <<jobVars, callerVars, cur, active, outcome, svcVars, closerVars, pending>>

Exit(p) ==
  /\ worker[p] = "select"
  /\ cancelled
  /\ To(p, "exited")
  /\ UNCHANGED <<jobVars, callerVars, cur, active, outcome, svcVars, closerVars, pending, wake>>

Activate(p) ==
  /\ worker[p] = "activate"
  /\ active' = [active EXCEPT ![p] = cur[p]]
  /\ To(p, "run")
  /\ UNCHANGED <<jobVars, callerVars, cur, outcome, svcVars, closerVars, pending, wake>>

SetStatusIgnoringFinalized(j, s) ==
  /\ status' = [status EXCEPT ![j] = s]
  /\ closes' = [closes EXCEPT ![j] = IF s \in Terminal /\ @ = 0 THEN 1 ELSE @]

SetStatusClosingAlways(j, s) ==
  IF j \in finalized
  THEN UNCHANGED <<status, closes>>
  ELSE /\ status' = [status EXCEPT ![j] = s]
       /\ closes' = [closes EXCEPT ![j] = @ + 1]

(* setStatus: a job finalized by shutdown is immutable; the completion     *)
(* channel is closed on the first terminal status only.                    *)
SetStatus(j, s) ==
  IF j \in finalized
  THEN UNCHANGED <<status, closes>>
  ELSE /\ status' = [status EXCEPT ![j] = s]
       /\ closes' = [closes EXCEPT ![j] = IF s \in Terminal /\ @ = 0 THEN @ + 1 ELSE @]

MarkRunning(p) ==
  /\ worker[p] = "run"
  /\ SetStatus(cur[p], "running")
  /\ To(p, "stamp")
  /\ UNCHANGED <<seq, owner, started, finalized, callerVars, cur, active, outcome,
                 svcVars, closerVars, pending, wake>>

SetStartedAt(p) ==
  /\ worker[p] = "stamp"
  /\ started' = started \cup ({cur[p]} \ finalized)
  /\ To(p, "service")
  /\ UNCHANGED <<seq, owner, status, closes, finalized, callerVars, cur, active, outcome,
                 svcVars, closerVars, pending, wake>>

FailWithRawError(p) == To(p, "settle") /\ outcome' = [outcome EXCEPT ![p] = "error"]

(* Every error of service() ends the job as failed.                        *)
FailWith(p) == To(p, "settle") /\ outcome' = [outcome EXCEPT ![p] = "failed"]

(* service(): first critical section - the published service, or shutdown, *)
(* or leave the lock to build one.                                         *)
Service(p) ==
  /\ worker[p] = "service"
  /\ \/ svc[p] # "none"           /\ To(p, "flush") /\ UNCHANGED outcome
     \/ svc[p] = "none" /\ closed  /\ FailWith(p)
     \/ svc[p] = "none" /\ ~closed /\ To(p, "build") /\ UNCHANGED outcome
  /\ UNCHANGED <<jobVars, callerVars, cur, active, svcVars, closerVars, pending, wake>>

(* cfg.Service(profile), outside the lock: fails, or opens a handle.       *)
Build(p) ==
  /\ worker[p] = "build"
  /\ \/ FailWith(p) /\ UNCHANGED handles
     \/ To(p, "publish") /\ handles' = [handles EXCEPT ![p] = @ + 1] /\ UNCHANGED outcome
  /\ UNCHANGED <<jobVars, callerVars, cur, active, svc, closerVars, pending, wake>>

(* service(): second critical section - publish, unless shut down meanwhile. *)
Publish(p) ==
  /\ worker[p] = "publish"
  /\ IF closed
     THEN FailWith(p) /\ handles' = [handles EXCEPT ![p] = @ - 1] /\ UNCHANGED svc
     ELSE To(p, "flush") /\ svc' = [svc EXCEPT ![p] = "open"] /\ UNCHANGED <<outcome, handles>>
  /\ UNCHANGED <<jobVars, callerVars, cur, active, closerVars, pending, wake>>

(* svc.FlushPath / svc.Flush: ends either way, at its own pace.            *)
Flush(p) ==
  /\ worker[p] = "flush"
  /\ \E o \in Terminal : outcome' = [outcome EXCEPT ![p] = o]
  /\ To(p, "settle")
  /\ UNCHANGED <<jobVars, callerVars, cur, active, svcVars, closerVars, pending, wake>>

Settle(p) ==
  /\ worker[p] = "settle"
  /\ SetStatus(cur[p], outcome[p])
  /\ outcome' = [outcome EXCEPT ![p] = "none"]
  /\ To(p, "deactivate")
  /\ UNCHANGED <<seq, owner, started, finalized, callerVars, cur, active,
                 svcVars, closerVars, pending, wake>>

(* The deferred setActive(w, nil), a critical section after the last one.  *)
Deactivate(p) ==
  /\ worker[p] = "deactivate"
  /\ active' = [active EXCEPT ![p] = NoJob]
  /\ cur'    = [cur EXCEPT ![p] = NoJob]
  /\ To(p, "pop")
  /\ UNCHANGED <<jobVars, callerVars, outcome, svcVars, closerVars, pending, wake>>

-----------------------------------------------------------------------------
(* Close.  A second call sees closed and returns: it changes nothing.      *)

CloseLeavingQueue ==
  /\ closer = "open"
  /\ closer'  = "cancel"
  /\ UNCHANGED <<jobVars, callerVars, workerVars, svcVars, sweep, disposing,
                 pending, wake>>

(* lines 315-337: fail every queued job and forget the queues.             *)
Close ==
  /\ closer = "open"
  /\ status'  = [j \in Jobs |-> IF InQueue(j) THEN "failed" ELSE status[j]]
  /\ closes'  = [j \in Jobs |-> IF InQueue(j) /\ closes[j] = 0 THEN 1 ELSE closes[j]]
  /\ pending' = [p \in Profiles |-> <<>>]
  /\ closer'  = "cancel"
  /\ UNCHANGED <<seq, owner, started, finalized, callerVars, workerVars, svcVars,
                 sweep, disposing, wake>>

Cancel ==
  /\ closer = "cancel"
  /\ closer' = "join"
  /\ UNCHANGED <<jobVars, callerVars, workerVars, svcVars, sweep, disposing,
                 pending, wake>>

(* wg.Wait returned in time: close every published service.                *)
Joined ==
  /\ closer = "join"
  /\ \A p \in Profiles : worker[p] \in {"none", "exited"}
  /\ svc'     = [p \in Profiles |-> IF svc[p] = "none" THEN "none" ELSE "closed"]
  /\ handles' = [p \in Profiles |-> IF svc[p] = "open" THEN handles[p] - 1 ELSE handles[p]]
  /\ closer'  = "joined"
  /\ UNCHANGED <<jobVars, callerVars, workerVars, sweep, disposing,
                 pending, wake>>

JoinTimeoutOnceIdle ==
  /\ closer  = "join"
  /\ \A p \in Profiles : active[p] = NoJob
  /\ closer' = "failStuck"
  /\ UNCHANGED <<jobVars, callerVars, workerVars, svcVars, sweep, disposing,
                 pending, wake>>

(* flushShutdownTimeout elapsed; both cases of the select may be ready.    *)
JoinTimeout ==
  /\ closer  = "join"
  /\ closer' = "failStuck"
  /\ UNCHANGED <<jobVars, callerVars, workerVars, svcVars, sweep, disposing,
                 pending, wake>>

FailStuckJobsSkipped ==
  /\ closer = "failStuck"
  /\ sweep'  = {p \in Profiles : Live(p)}
  /\ closer' = "sweep"
  /\ UNCHANGED <<jobVars, callerVars, workerVars, svcVars, disposing, pending, wake>>

(* lines 385-403: fail the job of every worker that has one in w.active.   *)
FailStuckJobs ==
  /\ closer = "failStuck"
  /\ status'    = [j \in Jobs |-> IF Stuck(j) /\ j \notin finalized THEN "failed" ELSE status[j]]
  /\ closes'    = [j \in Jobs |-> IF Stuck(j) /\ closes[j] = 0 THEN 1 ELSE closes[j]]
  /\ finalized' = finalized \cup {j \in Jobs : Stuck(j)}
  /\ sweep'     = {p \in Profiles : Live(p)}
  /\ closer'    = "sweep"
  /\ UNCHANGED <<seq, owner, started, callerVars, workerVars, svcVars,
                 disposing, pending, wake>>

SweepCheckIgnoringActive(p) ==
  /\ closer = "sweep"
  /\ p \in sweep
  /\ disposing = {}
  /\ sweep'     = sweep \ {p}
  /\ disposing' = {q \in {p} : svc[q] # "none"}
  /\ UNCHANGED <<jobVars, callerVars, workerVars, svcVars, closer,
                 pending, wake>>

(* lines 366-374, one worker at a time: decide under the lock ...          *)
SweepCheck(p) ==
  /\ closer = "sweep"
  /\ p \in sweep
  /\ disposing = {}
  /\ sweep'     = sweep \ {p}
  /\ disposing' = {q \in {p} : active[q] = NoJob /\ svc[q] # "none"}
  /\ UNCHANGED <<jobVars, callerVars, workerVars, svcVars, closer,
                 pending, wake>>

(* ... and close the service after releasing it.                           *)
Dispose(p) ==
  /\ p \in disposing
  /\ svc'       = [svc EXCEPT ![p] = "closed"]
  /\ handles'   = [handles EXCEPT ![p] = @ - 1]
  /\ disposing' = disposing \ {p}
  /\ UNCHANGED <<jobVars, callerVars, workerVars, closer, sweep,
                 pending, wake>>

SweepEnd ==
  /\ closer = "sweep"
  /\ sweep = {} /\ disposing = {}
  /\ closer' = "gaveUp"
  /\ UNCHANGED <<jobVars, callerVars, workerVars, svcVars, sweep, disposing,
                 pending, wake>>

-----------------------------------------------------------------------------
CallerStep(c) == EnsureWorker(c) \/ Wake(c)

(* Every worker step but the flush itself, which may block on its own.     *)
WorkerStep(p) ==
  \/ PopPending(p) \/ Wakened(p) \/ Exit(p) \/ Activate(p) \/ MarkRunning(p)
  \/ SetStartedAt(p) \/ Service(p) \/ Build(p) \/ Publish(p) \/ Settle(p) \/ Deactivate(p)

CloserStep ==
  \/ Cancel \/ Joined \/ JoinTimeout \/ FailStuckJobs \/ SweepEnd
  \/ \E p \in Profiles : SweepCheck(p) \/ Dispose(p)

Next ==
  \/ \E c \in Callers, p \in Profiles : Enqueue(c, p)
  \/ \E c \in Callers : CallerStep(c)
  \/ \E p \in Profiles : WorkerStep(p) \/ Flush(p)
  \/ Close
  \/ CloserStep

Spec == Init /\ [][Next]_vars

(* Goroutines are scheduled; a flush may block for ever; nobody has to     *)
(* call Enqueue or Close.                                                  *)
Fairness ==
  /\ \A c \in Callers : WF_vars(CallerStep(c))
  /\ \A p \in Profiles : WF_vars(WorkerStep(p))
  /\ WF_vars(CloserStep)

FairSpec == Spec /\ Fairness

-----------------------------------------------------------------------------
(* Properties.                                                             *)

(* The state of jobs, workers and Close keeps the shape flushmgr.go gives  *)
(* it; in particular process() never records an unknown job status.        *)
TypeOK ==
  /\ seq       \in 0..MaxJobs
  /\ owner     \in [Jobs -> Profiles]
  /\ status    \in [Jobs -> Statuses]
  /\ started   \subseteq Jobs
  /\ closes    \in [Jobs -> Nat]
  /\ finalized \subseteq Jobs
  /\ pending   \in [Profiles -> Seq(Jobs)]
  /\ caller    \in [Callers -> {"idle", "ensure", "wake"}]
  /\ request   \in [Callers -> Jobs \cup {NoJob}]
  /\ worker    \in [Profiles -> WorkerStates]
  /\ wake      \subseteq Profiles
  /\ cur       \in [Profiles -> Jobs \cup {NoJob}]
  /\ active    \in [Profiles -> Jobs \cup {NoJob}]
  /\ outcome   \in [Profiles -> Outcomes]
  /\ svc       \in [Profiles -> {"none", "open", "closed"}]
  /\ handles   \in [Profiles -> Int]
  /\ closer    \in CloserStates
  /\ sweep     \subseteq Profiles
  /\ disposing \subseteq Profiles

(* FlushJob.done "is closed exactly once when the job reaches a terminal   *)
(* state" (flushmgr.go:34): never before, never twice - a second close     *)
(* panics - although Close, failStuckJobs and a late worker all do it.     *)
DoneClosedOnce ==
  \A j \in Jobs : closes[j] = IF status[j] \in Terminal THEN 1 ELSE 0

(* Enqueue publishes the job before it signals, and the wake channel keeps *)
(* one token: a queued job never waits for a worker that sleeps (or does   *)
(* not exist) with no signal stored and no request still about to send it. *)
NoLostWakeup ==
  \A p \in Profiles :
    pending[p] # <<>> =>
      \/ worker[p] \notin {"none", "select", "exited"}
      \/ /\ worker[p] = "select"
         /\ \/ p \in wake
            \/ \E c \in Callers : caller[c] \in {"ensure", "wake"} /\ owner[request[c]] = p
      \/ /\ worker[p] = "none"
         /\ \E c \in Callers : caller[c] = "ensure" /\ owner[request[c]] = p

(* Each profile worker "processes its profile's accepted jobs              *)
(* sequentially" (flushmgr.go:44): a job runs, or has been flushed, only   *)
(* after every earlier job of its profile has been settled.                *)
SequentialPerProfile ==
  \A i, j \in Jobs :
    (i < j /\ j <= seq /\ owner[i] = owner[j] /\ status[j] \in {"running", "done"})
      => status[i] \in Terminal

(* A Close that joined its workers leaves nothing behind: no goroutine,    *)
(* no unsettled job for vault_flush_status to poll for ever, no service    *)
(* handle - including jobs and workers of requests that raced with it.     *)
QuiescentAfterJoin ==
  closer = "joined" =>
    /\ \A p \in Profiles : worker[p] \in {"none", "exited"} /\ handles[p] = 0
    /\ \A j \in 1..seq : status[j] \in Terminal

(* Close "never dispose[s] a live service beneath an active flush"         *)
(* (flushmgr.go:362): the flush whose job shutdown gave up on keeps its    *)
(* service for as long as it runs.                                         *)
StuckWorkerKeepsService ==
  \A p \in Profiles :
    (worker[p] = "flush" /\ cur[p] \in finalized) => svc[p] = "open"

(* A failed job stays exactly as it was failed: a worker that returns      *)
(* after the timed-out Close "can neither flip the job back to done nor    *)
(* double-close the channel" (flushmgr.go:381).                            *)
FailedIsFinal ==
  [][\A j \in Jobs : status[j] = "failed" =>
       status'[j] = "failed" /\ closes'[j] = closes[j] /\ (j \in started' <=> j \in started)]_vars

(* A Close that gave up on a worker "permanently fail[s] its job so polls   *)
(* resolve" (flushmgr.go:358): when failStuckJobs returns, every job ever   *)
(* accepted is resolved - those that were queued, running, or refused by   *)
(* ensureWorker - except one that a worker has taken off its queue and not *)
(* yet made visible as w.active, which failStuckJobs cannot see.           *)
GivingUpResolvesJobs ==
  [][closer = "failStuck" /\ closer' # "failStuck" =>
       \A j \in 1..seq : \/ status'[j] \in Terminal
                         \/ \E p \in Profiles : cur[p] = j /\ worker[p] = "activate"]_vars

(* Close is bounded: it returns even if a flush blocks for ever.           *)
CloseReturns == closed ~> CloseReturned

(* If flushes end, every accepted job is settled, whatever the interleaving *)
(* of requests, workers and shutdown.                                      *)
EveryJobSettles ==
  (\A p \in Profiles : WF_vars(Flush(p)))
    => \A j \in Jobs : (status[j] = "queued") ~> (status[j] \in Terminal)

(* ensureWorker returned nil: "The job was already marked failed by        *)
(* Close()" (flushmgr.go:129), so Enqueue may report ErrVaultClosed.       *)
RefusedJobIsFailed ==
  \A c \in Callers : (caller[c] = "ensure" /\ closed) => status[request[c]] = "failed"
=============================================================================
