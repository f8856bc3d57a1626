------------------------- MODULE FlushManagerProofs -------------------------
(***************************************************************************)
(* The safety properties of FlushManager hold for every set of profiles,   *)
(* every set of callers and every number of jobs.                          *)
(***************************************************************************)
EXTENDS FlushManager, TLAPS

(* Where a worker holds a job: cur, and from "run" on also active.         *)
Visible == {"run", "stamp", "service", "build", "publish", "flush", "settle", "deactivate"}
Holding == Visible \cup {"activate"}

(* Jobs are created in order; what is not created yet is untouched.        *)
InvJobs ==
  \A j \in Jobs :
    /\ status[j] = "none" <=> j > seq
    /\ closes[j] = IF status[j] \in Terminal THEN 1 ELSE 0
    /\ j \in finalized => status[j] = "failed" /\ closer \in {"sweep", "gaveUp"}

(* A queue holds its profile's untouched jobs, oldest first.               *)
InvQueue ==
  \A p \in Profiles :
    /\ \A i \in 1..Len(pending[p]) :
         /\ pending[p][i] <= seq
         /\ owner[pending[p][i]] = p
         /\ status[pending[p][i]] = "queued"
         /\ cur[p] < pending[p][i]
    /\ \A i, k \in 1..Len(pending[p]) : i < k => pending[p][i] < pending[p][k]

(* What a worker holds at each of its steps.                               *)
InvWorker ==
  \A p \in Profiles :
    /\ worker[p] \in Holding <=> cur[p] # NoJob
    /\ active[p] = IF worker[p] \in Visible THEN cur[p] ELSE NoJob
    /\ worker[p] = "settle" <=> outcome[p] # "none"
    /\ worker[p] \in Holding =>
         /\ cur[p] <= seq
         /\ owner[cur[p]] = p
         /\ cur[p] \notin finalized =>
              /\ worker[p] \in {"activate", "run"} => status[cur[p]] = "queued"
              /\ worker[p] \in Visible \ {"run", "deactivate"} => status[cur[p]] = "running"
         /\ worker[p] = "deactivate" => status[cur[p]] \in Terminal

(* An unsettled job is in its profile's queue or in its worker's hands.    *)
InvUnsettled ==
  \A j \in Jobs : (j <= seq /\ status[j] \notin Terminal) =>
    \/ cur[owner[j]] = j
    \/ \E i \in 1..Len(pending[owner[j]]) : pending[owner[j]][i] = j

(* How far Close has come.                                                 *)
InvCloser ==
  /\ closed => \A p \in Profiles : pending[p] = <<>>
  /\ closer # "sweep" => sweep = {} /\ disposing = {}
  /\ sweep \cap disposing = {}
  /\ closer = "joined" => \A p \in Profiles : worker[p] \in {"none", "exited"}
  /\ \A p \in Profiles : worker[p] = "exited" => cancelled

(* A request that is on its way to the worker knows its job.               *)
InvCaller ==
  \A c \in Callers : caller[c] # "idle" => request[c] \in 1..seq

(* Who holds a service handle, and when a service may be closed.           *)
ServiceOK(p) ==
  /\ handles[p] = (IF svc[p] = "open" THEN 1 ELSE 0) + (IF worker[p] = "publish" THEN 1 ELSE 0)
  /\ worker[p] \in {"none", "build", "publish"} => svc[p] = "none"
  /\ worker[p] = "flush" => svc[p] # "none"
  /\ svc[p] = "closed" => closer \in {"sweep", "joined", "gaveUp"}
  /\ closer = "joined" => svc[p] # "open"
  /\ p \in sweep => svc[p] # "closed"
  /\ p \in disposing => svc[p] = "open"
  /\ (worker[p] \in Holding /\ cur[p] \in finalized) =>
       worker[p] \in Visible /\ svc[p] # "closed" /\ p \notin disposing

InvService == \A p \in Profiles : ServiceOK(p)

IInv ==
  /\ TypeOK
  /\ InvJobs
  /\ InvQueue
  /\ InvWorker
  /\ InvUnsettled
  /\ InvCloser
  /\ InvCaller
  /\ InvService
  /\ NoLostWakeup
  /\ SequentialPerProfile

(* Types.  The invariant's other parts are needed where a local variable   *)
(* must hold a real job: a request's, a worker's.                          *)
LEMMA TypeInductive == IInv /\ [Next]_vars => TypeOK'
<1> SUFFICES ASSUME IInv, [Next]_vars PROVE TypeOK'
  OBVIOUS
<1> USE DEF TypeOK, jobVars, callerVars, workerVars, svcVars, closerVars
<1> USE DEF To, WorkerStates
<1>0. TypeOK /\ InvCaller /\ InvWorker
  BY DEF IInv
<1>1. ASSUME NEW c \in Callers, NEW p \in Profiles, Enqueue(c, p) PROVE TypeOK'
  <2>1. seq + 1 \in Jobs /\ seq + 1 \in 0..MaxJobs
    BY <1>0, <1>1, MaxJobsAssumption DEF Enqueue, Jobs
  <2>2. pending' \in [Profiles -> Seq(Jobs)]
    BY <1>0, <1>1, <2>1 DEF Enqueue
  <2>3. caller' \in [Callers -> {"idle", "ensure", "wake"}] /\ status' \in [Jobs -> Statuses]
    BY <1>0, <1>1 DEF Enqueue, Statuses
  <2> QED BY <1>0, <1>1, <2>1, <2>2, <2>3 DEF Enqueue
<1>2. ASSUME NEW c \in Callers, EnsureWorker(c) PROVE TypeOK'
  BY <1>0, <1>2 DEF EnsureWorker
<1>3. ASSUME NEW c \in Callers, Wake(c) PROVE TypeOK'
  <2>1. owner[request[c]] \in Profiles
    BY <1>0, <1>3, MaxJobsAssumption DEF Wake, InvCaller, Jobs
  <2> QED BY <1>0, <1>3, <2>1 DEF Wake
<1>4. ASSUME NEW p \in Profiles, PopPending(p) PROVE TypeOK'
  <2>1. CASE pending[p] = <<>>
    BY <1>0, <1>4, <2>1 DEF PopPending
  <2>2. CASE pending[p] # <<>>
    <3>1. Head(pending[p]) \in Jobs /\ Tail(pending[p]) \in Seq(Jobs)
      BY <1>0, <2>2
    <3>2. /\ cur' = [cur EXCEPT ![p] = Head(pending[p])]
          /\ pending' = [pending EXCEPT ![p] = Tail(pending[p])]
          /\ worker' = [worker EXCEPT ![p] = "activate"]
      BY <1>4, <2>2 DEF PopPending
    <3>3. /\ cur' \in [Profiles -> Jobs \cup {NoJob}] /\ pending' \in [Profiles -> Seq(Jobs)]
          /\ worker' \in [Profiles -> WorkerStates]
      BY <1>0, <3>1, <3>2
    <3> QED BY <1>0, <1>4, <3>3 DEF PopPending
  <2> QED BY <2>1, <2>2
<1>5. ASSUME NEW p \in Profiles,
             Wakened(p) \/ Exit(p) \/ Activate(p) \/ Deactivate(p)
      PROVE  TypeOK'
  <2>1. CASE Wakened(p)    BY <1>0, <2>1 DEF Wakened
  <2>2. CASE Exit(p)       BY <1>0, <2>2 DEF Exit
  <2>3. CASE Activate(p)   BY <1>0, <2>3 DEF Activate
  <2>4. CASE Deactivate(p) BY <1>0, <2>4 DEF Deactivate
  <2> QED BY <1>5, <2>1, <2>2, <2>3, <2>4
<1>6. ASSUME NEW p \in Profiles, SetStartedAt(p) PROVE TypeOK'
  BY <1>0, <1>6 DEF SetStartedAt, InvWorker, Holding, Visible
<1>7. ASSUME NEW p \in Profiles, MarkRunning(p) PROVE TypeOK'
  BY <1>0, <1>7 DEF MarkRunning, SetStatus, Statuses, Terminal
<1>8. ASSUME NEW p \in Profiles, Settle(p) PROVE TypeOK'
  <2>1. outcome[p] \in Statuses
    BY <1>0 DEF Outcomes, Statuses
  <2>2. closes' \in [Jobs -> Nat] /\ status' \in [Jobs -> Statuses]
    BY <1>0, <1>8, <2>1 DEF Settle, SetStatus
  <2> QED BY <1>0, <1>8, <2>2 DEF Settle, Outcomes
<1>9. ASSUME NEW p \in Profiles, Service(p) \/ Build(p) \/ Publish(p) \/ Flush(p) PROVE TypeOK'
  <2> USE DEF FailWith, Outcomes
  <2>1. CASE Service(p) BY <1>0, <2>1 DEF Service
  <2>2. CASE Build(p)
    <3>1. worker' \in [Profiles -> WorkerStates] /\ outcome' \in [Profiles -> Outcomes]
      BY <1>0, <2>2 DEF Build
    <3>2. handles' \in [Profiles -> Int] /\ svc' \in [Profiles -> {"none", "open", "closed"}]
      <4>1. svc' = svc /\ (handles' = handles \/ handles' = [handles EXCEPT ![p] = @ + 1])
        BY <2>2 DEF Build
      <4>2. handles[p] + 1 \in Int
        BY <1>0
      <4> QED BY <1>0, <4>1, <4>2
    <3> QED BY <1>0, <2>2, <3>1, <3>2 DEF Build
  <2>3. CASE Publish(p)
    <3>1. worker' \in [Profiles -> WorkerStates] /\ outcome' \in [Profiles -> Outcomes]
      <4>1. /\ worker' = [worker EXCEPT ![p] = "settle"] \/ worker' = [worker EXCEPT ![p] = "flush"]
            /\ outcome' = [outcome EXCEPT ![p] = "failed"] \/ outcome' = outcome
        BY <2>3 DEF Publish
      <4> QED BY <1>0, <4>1
    <3>2. handles' \in [Profiles -> Int] /\ svc' \in [Profiles -> {"none", "open", "closed"}]
      <4>1. CASE closed  BY <1>0, <2>3, <4>1 DEF Publish
      <4>2. CASE ~closed BY <1>0, <2>3, <4>2 DEF Publish
      <4> QED BY <4>1, <4>2
    <3> QED BY <1>0, <2>3, <3>1, <3>2 DEF Publish
  <2>4. CASE Flush(p)   BY <1>0, <2>4 DEF Flush, Terminal
  <2> QED BY <1>9, <2>1, <2>2, <2>3, <2>4
<1>10. CASE Close
  BY <1>0, <1>10 DEF Close, Statuses, CloserStates
<1>11. CASE Cancel \/ Joined \/ JoinTimeout \/ SweepEnd
  BY <1>0, <1>11 DEF Cancel, Joined, JoinTimeout, SweepEnd, CloserStates
<1>12. CASE FailStuckJobs
  <2>1. /\ status' \in [Jobs -> Statuses]
        /\ closes' \in [Jobs -> Nat]
        /\ finalized' \subseteq Jobs
    BY <1>0, <1>12 DEF FailStuckJobs, Statuses
  <2> QED BY <1>0, <1>12, <2>1 DEF FailStuckJobs, CloserStates
<1>13. ASSUME NEW p \in Profiles, SweepCheck(p) \/ Dispose(p) PROVE TypeOK'
  <2>1. CASE SweepCheck(p) BY <1>0, <2>1 DEF SweepCheck
  <2>2. CASE Dispose(p)    BY <1>0, <2>2 DEF Dispose
  <2> QED BY <1>13, <2>1, <2>2
<1>14. CASE UNCHANGED vars
  BY <1>0, <1>14 DEF vars
<1> QED
  BY <1>1, <1>2, <1>3, <1>4, <1>5, <1>6, <1>7, <1>8, <1>9, <1>10, <1>11, <1>12, <1>13, <1>14
  DEF Next, CallerStep, WorkerStep, CloserStep

(* A worker past its pop holds an existing job of its own profile.         *)
LEMMA HeldJob ==
  ASSUME IInv, NEW p \in Profiles, worker[p] \in Holding
  PROVE  cur[p] \in Jobs /\ cur[p] <= seq /\ owner[cur[p]] = p
BY DEF IInv, TypeOK, InvWorker, NoJob

(* Jobs are numbered, settled and finalized consistently.                  *)
LEMMA JobsInductive == IInv /\ [Next]_vars => InvJobs'
<1> SUFFICES ASSUME IInv, [Next]_vars PROVE InvJobs'
  OBVIOUS
<1>0. TypeOK /\ InvJobs /\ InvQueue /\ InvWorker /\ InvCloser
  BY DEF IInv
<1> USE DEF Terminal
<1>1. ASSUME NEW c \in Callers, NEW p \in Profiles, Enqueue(c, p) PROVE InvJobs'
  BY <1>0, <1>1 DEF Enqueue, InvJobs, TypeOK, Jobs, closerVars
<1>2. ASSUME NEW p \in Profiles, MarkRunning(p) PROVE InvJobs'
  <2>1. cur[p] \in Jobs /\ cur[p] <= seq
    BY <1>2, HeldJob DEF MarkRunning, Holding, Visible
  <2>2. cur[p] \notin finalized => status[cur[p]] = "queued"
    BY <1>0, <1>2 DEF MarkRunning, InvWorker, Holding, Visible
  <2>4. CASE cur[p] \in finalized
    BY <1>0, <1>2, <2>4 DEF MarkRunning, SetStatus, InvJobs, closerVars
  <2>5. CASE cur[p] \notin finalized
    <3> SUFFICES ASSUME NEW j \in Jobs
                 PROVE  /\ status'[j] = "none" <=> j > seq'
                        /\ closes'[j] = IF status'[j] \in Terminal THEN 1 ELSE 0
                        /\ j \in finalized' => status'[j] = "failed" /\ closer' \in {"sweep", "gaveUp"}
      BY DEF InvJobs
    <3>1. CASE j = cur[p]
      <4>1. /\ status'[j] = "running" /\ closes'[j] = closes[j]
            /\ seq' = seq /\ finalized' = finalized
        BY <1>0, <1>2, <2>1, <2>5, <3>1 DEF MarkRunning, SetStatus, TypeOK, Terminal
      <4>2. closes[j] = 0 /\ j <= seq
        BY <1>0, <2>1, <2>2, <2>5, <3>1 DEF InvJobs, Terminal
      <4>3. seq \in Nat /\ j \in Nat
        BY <1>0, MaxJobsAssumption DEF TypeOK, Jobs
      <4> QED BY <2>5, <3>1, <4>1, <4>2, <4>3 DEF Terminal
    <3>2. CASE j # cur[p]
      BY <1>0, <1>2, <2>1, <2>5, <3>2 DEF MarkRunning, SetStatus, InvJobs, TypeOK, closerVars, Jobs
    <3> QED BY <3>1, <3>2
  <2> QED BY <2>4, <2>5
<1>3. ASSUME NEW p \in Profiles, Settle(p) PROVE InvJobs'
  <2>1. cur[p] \in Jobs /\ cur[p] <= seq
    BY <1>3, HeldJob DEF Settle, Holding, Visible
  <2>2. cur[p] \notin finalized => status[cur[p]] = "running"
    BY <1>0, <1>3 DEF Settle, InvWorker, Holding, Visible
  <2>3. outcome[p] \in Terminal
    BY <1>0, <1>3 DEF Settle, InvWorker, TypeOK, Outcomes
  <2>4. CASE cur[p] \in finalized
    BY <1>0, <1>3, <2>4 DEF Settle, SetStatus, InvJobs, closerVars
  <2>5. CASE cur[p] \notin finalized
    <3> SUFFICES ASSUME NEW j \in Jobs
                 PROVE  /\ status'[j] = "none" <=> j > seq'
                        /\ closes'[j] = IF status'[j] \in Terminal THEN 1 ELSE 0
                        /\ j \in finalized' => status'[j] = "failed" /\ closer' \in {"sweep", "gaveUp"}
      BY DEF InvJobs
    <3>1. CASE j = cur[p]
      <4>1. closes[j] = 0
        BY <1>0, <2>1, <2>2, <2>5, <3>1 DEF InvJobs
      <4>2. status'[j] = outcome[p] /\ closes'[j] = 1
        BY <1>0, <1>3, <2>1, <2>3, <2>5, <3>1, <4>1 DEF Settle, SetStatus, TypeOK
      <4>3. seq' = seq /\ finalized' = finalized
        BY <1>3 DEF Settle
      <4> QED BY <1>0, <2>1, <2>3, <2>5, <3>1, <4>2, <4>3 DEF TypeOK, Jobs
    <3>2. CASE j # cur[p]
      BY <1>0, <1>3, <2>1, <2>5, <3>2 DEF Settle, SetStatus, InvJobs, TypeOK, closerVars, Jobs
    <3> QED BY <3>1, <3>2
  <2> QED BY <2>4, <2>5
<1>4. CASE Close
  <2>1. \A j \in Jobs : InQueue(j) => status[j] = "queued" /\ j <= seq
    BY <1>0 DEF InQueue, InvQueue
  <2> QED BY <1>0, <1>4, <2>1 DEF Close, InvJobs, TypeOK, Jobs
<1>5. CASE FailStuckJobs
  <2>1. \A j \in Jobs : Stuck(j) => j <= seq
    BY <1>0 DEF Stuck, InvWorker, Jobs, NoJob, Holding
  <2> QED BY <1>0, <1>5, <2>1 DEF FailStuckJobs, InvJobs, TypeOK, Jobs
<1>6. CASE Cancel \/ Joined \/ JoinTimeout \/ SweepEnd
  BY <1>0, <1>6 DEF Cancel, Joined, JoinTimeout, SweepEnd, InvJobs, jobVars
<1>7. CASE UNCHANGED <<seq, status, closes, finalized, closer>>
  BY <1>0, <1>7 DEF InvJobs
<1>8. ASSUME NEW c \in Callers, CallerStep(c) PROVE InvJobs'
  BY <1>7, <1>8 DEF CallerStep, EnsureWorker, Wake, jobVars, closerVars
<1>9. ASSUME NEW p \in Profiles,
             \/ PopPending(p) \/ Wakened(p) \/ Exit(p) \/ Activate(p) \/ SetStartedAt(p)
             \/ Service(p) \/ Build(p) \/ Publish(p) \/ Flush(p) \/ Deactivate(p)
      PROVE  InvJobs'
  BY <1>7, <1>9 DEF PopPending, Wakened, Exit, Activate, SetStartedAt, Service, Build, Publish,
                    Flush, Deactivate, jobVars, closerVars
<1>10. ASSUME NEW p \in Profiles, SweepCheck(p) \/ Dispose(p) PROVE InvJobs'
  BY <1>7, <1>10 DEF SweepCheck, Dispose, jobVars
<1>11. CASE UNCHANGED vars
  BY <1>7, <1>11 DEF vars, jobVars, closerVars
<1> QED
  BY <1>1, <1>2, <1>3, <1>4, <1>5, <1>6, <1>8, <1>9, <1>10, <1>11
  DEF Next, WorkerStep, CloserStep

(* Queues stay ordered, and only the worker's own pop takes from them.     *)
LEMMA QueueInductive == IInv /\ [Next]_vars => InvQueue'
<1> SUFFICES ASSUME IInv, [Next]_vars PROVE InvQueue'
  OBVIOUS
<1>0. TypeOK /\ InvJobs /\ InvQueue /\ InvWorker /\ InvCloser
  BY DEF IInv
<1>1. ASSUME NEW c \in Callers, NEW p \in Profiles, Enqueue(c, p) PROVE InvQueue'
  <2>1. /\ seq' = seq + 1 /\ cur' = cur
        /\ owner' = [owner EXCEPT ![seq + 1] = p]
        /\ status' = [status EXCEPT ![seq + 1] = "queued"]
        /\ pending' = [pending EXCEPT ![p] = Append(@, seq + 1)]
    BY <1>1 DEF Enqueue, workerVars
  <2>2. seq \in Nat /\ seq + 1 \in Jobs
    BY <1>0, <1>1, MaxJobsAssumption DEF Enqueue, TypeOK, Jobs
  <2>3. cur[p] <= seq
    BY <1>0, <2>2 DEF InvWorker, TypeOK, NoJob
  <2>4. \A q \in Profiles : \A i \in 1..Len(pending[q]) : pending[q][i] \in Jobs /\ pending[q][i] <= seq
    BY <1>0 DEF TypeOK, InvQueue
  <2>5. ASSUME NEW q \in Profiles, q # p PROVE pending'[q] = pending[q]
    BY <1>0, <2>1, <2>5 DEF TypeOK
  <2>6. /\ Len(pending'[p]) = Len(pending[p]) + 1
        /\ \A i \in 1..Len(pending[p]) : pending'[p][i] = pending[p][i]
        /\ pending'[p][Len(pending[p]) + 1] = seq + 1
        /\ Len(pending[p]) \in Nat
    BY <1>0, <2>1, <2>2 DEF TypeOK
  <2>7. owner'[seq + 1] = p /\ status'[seq + 1] = "queued"
    BY <1>0, <2>1, <2>2 DEF TypeOK
  <2>8. \A j \in Jobs : j <= seq => owner'[j] = owner[j] /\ status'[j] = status[j]
    BY <1>0, <2>1, <2>2 DEF TypeOK, Jobs
  <2>9. ASSUME NEW q \in Profiles, NEW i \in 1..Len(pending'[q])
        PROVE  /\ pending'[q][i] <= seq'
               /\ owner'[pending'[q][i]] = q
               /\ status'[pending'[q][i]] = "queued"
               /\ cur'[q] < pending'[q][i]
    <3>1. CASE q # p
      BY <1>0, <2>1, <2>2, <2>4, <2>5, <2>8, <3>1 DEF InvQueue, Jobs
    <3>2. CASE q = p /\ i <= Len(pending[p])
      BY <1>0, <2>1, <2>2, <2>4, <2>6, <2>8, <3>2 DEF InvQueue, Jobs
    <3>3. CASE q = p /\ i = Len(pending[p]) + 1
      <4>1. pending'[q][i] = seq + 1
        BY <2>6, <3>3
      <4>2. cur[p] \in Nat
        BY <1>0 DEF TypeOK, Jobs, NoJob
      <4> QED BY <2>1, <2>2, <2>3, <2>7, <3>3, <4>1, <4>2
    <3> QED BY <2>6, <2>9, <3>1, <3>2, <3>3
  <2>10. ASSUME NEW q \in Profiles, NEW i \in 1..Len(pending'[q]), NEW k \in 1..Len(pending'[q]), i < k
         PROVE  pending'[q][i] < pending'[q][k]
    <3>1. CASE q # p
      BY <1>0, <2>5, <2>10, <3>1 DEF InvQueue
    <3>2. CASE q = p /\ k <= Len(pending[p])
      <4>1. i \in 1..Len(pending[p]) /\ k \in 1..Len(pending[p])
        BY <2>6, <2>10, <3>2
      <4>2. pending'[q][i] = pending[p][i] /\ pending'[q][k] = pending[p][k]
        BY <2>6, <3>2, <4>1
      <4>3. pending[p][i] < pending[p][k]
        BY <1>0, <2>10, <4>1 DEF InvQueue
      <4> QED
        BY <4>2, <4>3
    <3>3. CASE q = p /\ k = Len(pending[p]) + 1
      <4>1. i \in 1..Len(pending[p])
        BY <2>6, <2>10, <3>3
      <4>2. pending'[q][i] = pending[p][i] /\ pending'[q][k] = seq + 1
        BY <2>6, <3>3, <4>1
      <4>3. pending[p][i] \in Nat /\ pending[p][i] <= seq
        BY <2>4, <4>1 DEF Jobs
      <4> QED
        BY <2>2, <4>2, <4>3
    <3> QED BY <2>6, <2>10, <3>1, <3>2, <3>3
  <2> QED BY <2>9, <2>10 DEF InvQueue
<1>2. ASSUME NEW p \in Profiles, PopPending(p) PROVE InvQueue'
  <2>1. CASE pending[p] = <<>>
    BY <1>0, <1>2, <2>1 DEF PopPending, InvQueue, jobVars
  <2>2. CASE pending[p] # <<>>
    <3>1. /\ Len(pending[p]) \in Nat \ {0}
          /\ Len(Tail(pending[p])) = Len(pending[p]) - 1
          /\ \A i \in 1..Len(Tail(pending[p])) : Tail(pending[p])[i] = pending[p][i + 1]
          /\ Head(pending[p]) = pending[p][1]
      BY <1>0, <2>2 DEF TypeOK
    <3>2. /\ pending' = [pending EXCEPT ![p] = Tail(pending[p])]
          /\ cur' = [cur EXCEPT ![p] = pending[p][1]]
          /\ UNCHANGED <<seq, owner, status>>
      BY <1>2, <2>2, <3>1 DEF PopPending, jobVars
    <3>3. ASSUME NEW q \in Profiles, q # p PROVE pending'[q] = pending[q] /\ cur'[q] = cur[q]
      BY <1>0, <3>2, <3>3 DEF TypeOK
    <3>4. pending'[p] = Tail(pending[p]) /\ cur'[p] = pending[p][1]
      BY <1>0, <3>2 DEF TypeOK
    <3>5. \A i \in 1..Len(pending'[p]) : i + 1 \in 1..Len(pending[p]) /\ pending'[p][i] = pending[p][i + 1]
      BY <3>1, <3>4
    <3>6. \A i \in 1..Len(pending[p]) : 1 < i => pending[p][1] < pending[p][i]
      BY <1>0, <3>1 DEF InvQueue
    <3>7. ASSUME NEW q \in Profiles, NEW i \in 1..Len(pending'[q])
          PROVE  /\ pending'[q][i] <= seq'
                 /\ owner'[pending'[q][i]] = q
                 /\ status'[pending'[q][i]] = "queued"
                 /\ cur'[q] < pending'[q][i]
      <4>1. CASE q # p
        BY <1>0, <3>2, <3>3, <4>1 DEF InvQueue
      <4>2. CASE q = p
        BY <1>0, <3>2, <3>4, <3>5, <3>6, <4>2 DEF InvQueue
      <4> QED BY <4>1, <4>2
    <3>8. ASSUME NEW q \in Profiles, NEW i \in 1..Len(pending'[q]), NEW k \in 1..Len(pending'[q]), i < k
          PROVE  pending'[q][i] < pending'[q][k]
      <4>1. CASE q # p
        BY <1>0, <3>3, <3>8, <4>1 DEF InvQueue
      <4>2. CASE q = p
        <5>1. i + 1 \in 1..Len(pending[p]) /\ k + 1 \in 1..Len(pending[p]) /\ i + 1 < k + 1
          BY <3>5, <3>8, <4>2
        <5> QED BY <1>0, <3>5, <3>8, <4>2, <5>1 DEF InvQueue
      <4> QED BY <4>1, <4>2
    <3> QED BY <3>7, <3>8 DEF InvQueue
  <2> QED BY <2>1, <2>2
<1>3. ASSUME NEW p \in Profiles, MarkRunning(p) \/ Settle(p) PROVE InvQueue'
  <2>1. cur[p] \in Jobs /\ owner[cur[p]] = p
    BY <1>3, HeldJob DEF MarkRunning, Settle, Holding, Visible
  <2>2. \A q \in Profiles : \A i \in 1..Len(pending[q]) : pending[q][i] # cur[p]
    BY <1>0, <2>1 DEF InvQueue, TypeOK, Jobs
  <2>3. \A j \in Jobs : j # cur[p] => status'[j] = status[j]
    BY <1>0, <1>3, <2>1 DEF MarkRunning, Settle, SetStatus, TypeOK
  <2>4. UNCHANGED <<seq, owner, cur, pending>>
    BY <1>3 DEF MarkRunning, Settle
  <2>5. \A q \in Profiles : \A i \in 1..Len(pending[q]) : pending[q][i] \in Jobs
    BY <1>0 DEF TypeOK
  <2>6. \A q \in Profiles : \A i \in 1..Len(pending[q]) : status'[pending[q][i]] = status[pending[q][i]]
    BY <2>2, <2>3, <2>5
  <2> QED BY <1>0, <2>4, <2>6 DEF InvQueue
<1>4. ASSUME NEW p \in Profiles, Deactivate(p) PROVE InvQueue'
  <2>1. UNCHANGED <<seq, owner, status, pending>>
    BY <1>4 DEF Deactivate, jobVars
  <2>2. \A q \in Profiles : cur'[q] = cur[q] \/ cur'[q] = 0
    BY <1>0, <1>4 DEF Deactivate, TypeOK, NoJob
  <2>3. \A q \in Profiles : \A i \in 1..Len(pending[q]) : pending[q][i] \in Jobs
    BY <1>0 DEF TypeOK
  <2> QED BY <1>0, <2>1, <2>2, <2>3 DEF InvQueue, Jobs
<1>5. CASE Close
  BY <1>5 DEF Close, InvQueue
<1>6. CASE FailStuckJobs
  BY <1>0, <1>6 DEF FailStuckJobs, InvQueue, InvCloser, closed
<1>7. CASE UNCHANGED <<pending, seq, owner, status, cur>>
  BY <1>0, <1>7 DEF InvQueue
<1>8. ASSUME NEW c \in Callers, CallerStep(c) PROVE InvQueue'
  BY <1>7, <1>8 DEF CallerStep, EnsureWorker, Wake, jobVars, workerVars
<1>9. ASSUME NEW p \in Profiles,
             \/ Wakened(p) \/ Exit(p) \/ Activate(p) \/ SetStartedAt(p)
             \/ Service(p) \/ Build(p) \/ Publish(p) \/ Flush(p)
      PROVE  InvQueue'
  BY <1>7, <1>9 DEF Wakened, Exit, Activate, SetStartedAt, Service, Build, Publish, Flush, jobVars
<1>10. CASE \/ Cancel \/ Joined \/ JoinTimeout \/ SweepEnd
            \/ \E p \in Profiles : SweepCheck(p) \/ Dispose(p)
  BY <1>7, <1>10 DEF Cancel, Joined, JoinTimeout, SweepEnd, SweepCheck, Dispose, jobVars, workerVars
<1>11. CASE UNCHANGED vars
  BY <1>7, <1>11 DEF vars, jobVars, workerVars
<1> QED
  BY <1>1, <1>2, <1>3, <1>4, <1>5, <1>6, <1>8, <1>9, <1>10, <1>11
  DEF Next, WorkerStep, CloserStep

(* Close moves forward and, once it has begun, nothing is queued.          *)
LEMMA CloserInductive == IInv /\ [Next]_vars => InvCloser'
<1> SUFFICES ASSUME IInv, [Next]_vars PROVE InvCloser'
  OBVIOUS
<1>0. TypeOK /\ InvCloser
  BY DEF IInv
<1> USE DEF closed, cancelled, InvCloser, TypeOK
<1>1. ASSUME NEW c \in Callers, NEW p \in Profiles, Enqueue(c, p) PROVE InvCloser'
  BY <1>0, <1>1 DEF Enqueue, closerVars, workerVars
<1>2. ASSUME NEW c \in Callers, EnsureWorker(c) PROVE InvCloser'
  BY <1>0, <1>2 DEF EnsureWorker, closerVars
<1>3. ASSUME NEW p \in Profiles, PopPending(p) PROVE InvCloser'
  <2>1. CASE pending[p] = <<>>
    BY <1>0, <1>3, <2>1 DEF PopPending, To, closerVars
  <2>2. CASE pending[p] # <<>>
    BY <1>0, <1>3, <2>2 DEF PopPending, To, closerVars
  <2> QED BY <2>1, <2>2
<1>4. ASSUME NEW p \in Profiles,
             \/ Wakened(p) \/ Exit(p) \/ Activate(p) \/ MarkRunning(p) \/ SetStartedAt(p)
             \/ Settle(p) \/ Deactivate(p)
      PROVE  InvCloser'
  BY <1>0, <1>4 DEF Wakened, Exit, Activate, MarkRunning, SetStartedAt, Settle, Deactivate, To,
                    closerVars
<1>5. ASSUME NEW p \in Profiles, Service(p) \/ Build(p) \/ Publish(p) \/ Flush(p) PROVE InvCloser'
  BY <1>0, <1>5 DEF Service, Build, Publish, Flush, FailWith, To, closerVars
<1>6. CASE Close
  BY <1>0, <1>6 DEF Close, workerVars
<1>7. CASE Cancel \/ Joined \/ JoinTimeout \/ SweepEnd
  BY <1>0, <1>7 DEF Cancel, Joined, JoinTimeout, SweepEnd, workerVars
<1>8. CASE FailStuckJobs
  BY <1>0, <1>8 DEF FailStuckJobs, workerVars
<1>9. ASSUME NEW p \in Profiles, SweepCheck(p) \/ Dispose(p) PROVE InvCloser'
  BY <1>0, <1>9 DEF SweepCheck, Dispose, workerVars
<1>10. ASSUME NEW c \in Callers, Wake(c) PROVE InvCloser'
  BY <1>0, <1>10 DEF Wake, closerVars, workerVars
<1>11. CASE UNCHANGED vars
  BY <1>0, <1>11 DEF vars, closerVars, workerVars
<1> QED
  BY <1>1, <1>2, <1>3, <1>4, <1>5, <1>6, <1>7, <1>8, <1>9, <1>10, <1>11
  DEF Next, CallerStep, WorkerStep, CloserStep

(* A request under way carries the job it created.                         *)
LEMMA CallerInductive == IInv /\ [Next]_vars => InvCaller'
<1> SUFFICES ASSUME IInv, [Next]_vars PROVE InvCaller'
  OBVIOUS
<1>0. TypeOK /\ InvCaller
  BY DEF IInv
<1>1. ASSUME NEW c \in Callers, NEW p \in Profiles, Enqueue(c, p) PROVE InvCaller'
  BY <1>0, <1>1 DEF Enqueue, InvCaller, TypeOK
<1>2. ASSUME NEW c \in Callers, CallerStep(c) PROVE InvCaller'
  BY <1>0, <1>2 DEF CallerStep, EnsureWorker, Wake, InvCaller, TypeOK, jobVars
<1>3. CASE UNCHANGED <<caller, request, seq>>
  BY <1>0, <1>3 DEF InvCaller
<1>4. ASSUME NEW p \in Profiles, WorkerStep(p) \/ Flush(p) PROVE InvCaller'
  BY <1>3, <1>4 DEF WorkerStep, PopPending, Wakened, Exit, Activate, MarkRunning, SetStartedAt,
     Service, Build, Publish, Settle, Deactivate, Flush, jobVars, callerVars
<1>5. CASE Close \/ CloserStep
  BY <1>3, <1>5 DEF Close, CloserStep, Cancel, Joined, JoinTimeout, FailStuckJobs, SweepEnd,
     SweepCheck, Dispose, jobVars, callerVars
<1>6. CASE UNCHANGED vars
  BY <1>3, <1>6 DEF vars, jobVars, callerVars
<1> QED
  BY <1>1, <1>2, <1>4, <1>5, <1>6 DEF Next

(* Each worker holds its own job, published as w.active from "run" on.     *)
LEMMA WorkerInductive == IInv /\ [Next]_vars => InvWorker'
<1> SUFFICES ASSUME IInv, [Next]_vars PROVE InvWorker'
  OBVIOUS
<1>0. TypeOK /\ InvJobs /\ InvQueue /\ InvWorker /\ InvCloser
  BY DEF IInv
<1> USE DEF Holding, Visible, NoJob
<1>1. ASSUME NEW c \in Callers, NEW p \in Profiles, Enqueue(c, p) PROVE InvWorker'
  <2>1. UNCHANGED <<worker, cur, active, outcome, finalized>> /\ seq' = seq + 1 /\ seq \in Nat
    BY <1>0, <1>1 DEF Enqueue, workerVars, TypeOK
  <2>2. \A j \in Jobs : j <= seq => owner'[j] = owner[j] /\ status'[j] = status[j]
    BY <1>0, <1>1, <2>1 DEF Enqueue, TypeOK, Jobs
  <2>3. \A q \in Profiles : cur[q] # NoJob => cur[q] \in Jobs /\ cur[q] <= seq
    BY <1>0 DEF TypeOK, InvWorker
  <2> QED BY <1>0, <2>1, <2>2, <2>3 DEF InvWorker, Jobs
<1>2. ASSUME NEW c \in Callers, EnsureWorker(c) PROVE InvWorker'
  <2>1. UNCHANGED <<seq, owner, status, finalized, cur, active, outcome>>
    BY <1>2 DEF EnsureWorker, jobVars
  <2>2. ASSUME NEW q \in Profiles
        PROVE  worker'[q] = worker[q] \/ (worker[q] = "none" /\ worker'[q] = "pop")
    <3>1. CASE q = owner[request[c]] BY <1>0, <1>2, <3>1 DEF EnsureWorker, TypeOK
    <3>2. CASE q # owner[request[c]] BY <1>0, <1>2, <3>2 DEF EnsureWorker, TypeOK
    <3> QED BY <3>1, <3>2
  <2> QED BY <1>0, <2>1, <2>2 DEF InvWorker
<1>3. ASSUME NEW p \in Profiles, PopPending(p) PROVE InvWorker'
  <2>1. CASE pending[p] = <<>>
    BY <1>0, <1>3, <2>1 DEF PopPending, To, InvWorker, TypeOK, jobVars
  <2>2. CASE pending[p] # <<>>
    <3>1. /\ Head(pending[p]) \in Jobs
          /\ Head(pending[p]) <= seq
          /\ owner[Head(pending[p])] = p
          /\ status[Head(pending[p])] = "queued"
      <4>1. 1 \in 1..Len(pending[p]) /\ Head(pending[p]) = pending[p][1] /\ pending[p][1] \in Jobs
        BY <1>0, <2>2 DEF TypeOK
      <4> QED BY <1>0, <4>1 DEF InvQueue
    <3>2. /\ worker' = [worker EXCEPT ![p] = "activate"]
          /\ cur' = [cur EXCEPT ![p] = Head(pending[p])]
          /\ UNCHANGED <<seq, owner, status, finalized, active, outcome>>
      BY <1>3, <2>2 DEF PopPending, To, jobVars
    <3>3. Head(pending[p]) # NoJob
      BY <3>1 DEF Jobs
    <3>4. active[p] = NoJob /\ outcome[p] = "none"
      BY <1>0, <1>3 DEF PopPending, InvWorker
    <3> QED BY <1>0, <3>1, <3>2, <3>3, <3>4 DEF InvWorker, TypeOK
  <2> QED BY <2>1, <2>2
<1>4. ASSUME NEW p \in Profiles, Wakened(p) \/ Exit(p) \/ Activate(p) \/ SetStartedAt(p)
      PROVE  InvWorker'
  <2>1. CASE Wakened(p)      BY <1>0, <2>1 DEF Wakened, To, InvWorker, TypeOK, jobVars
  <2>2. CASE Exit(p)         BY <1>0, <2>2 DEF Exit, To, InvWorker, TypeOK, jobVars
  <2>3. CASE Activate(p)     BY <1>0, <2>3 DEF Activate, To, InvWorker, TypeOK, jobVars
  <2>4. CASE SetStartedAt(p) BY <1>0, <2>4 DEF SetStartedAt, To, InvWorker, TypeOK, jobVars
  <2> QED BY <1>4, <2>1, <2>2, <2>3, <2>4
<1>5. ASSUME NEW p \in Profiles, Deactivate(p) PROVE InvWorker'
  BY <1>0, <1>5 DEF Deactivate, To, InvWorker, TypeOK, jobVars
<1>6. ASSUME NEW p \in Profiles, MarkRunning(p) \/ Settle(p) PROVE InvWorker'
  <2>1. cur[p] \in Jobs /\ owner[cur[p]] = p /\ worker[p] \in Holding
    BY <1>6, HeldJob DEF MarkRunning, Settle
  <2>2. UNCHANGED <<seq, owner, finalized, cur, active>>
    BY <1>6 DEF MarkRunning, Settle
  <2>3. \A q \in Profiles : (q # p /\ worker[q] \in Holding) => cur[q] # cur[p]
    BY <1>0, <2>1 DEF InvWorker
  <2>4. \A j \in Jobs : j # cur[p] => status'[j] = status[j]
    BY <1>0, <1>6, <2>1 DEF MarkRunning, Settle, SetStatus, TypeOK
  <2>5. \A q \in Profiles : q # p => worker'[q] = worker[q] /\ outcome'[q] = outcome[q]
    BY <1>0, <1>6 DEF MarkRunning, Settle, To, TypeOK
  <2>6. CASE MarkRunning(p)
    <3>1. worker'[p] = "stamp" /\ outcome' = outcome
      BY <1>0, <2>6 DEF MarkRunning, To, TypeOK
    <3>2. cur[p] \notin finalized => status'[cur[p]] = "running"
      BY <1>0, <2>1, <2>6 DEF MarkRunning, SetStatus, TypeOK
    <3>3. worker[p] = "run"
      BY <2>6 DEF MarkRunning
    <3> QED BY <1>0, <2>1, <2>2, <2>3, <2>4, <2>5, <3>1, <3>2, <3>3 DEF InvWorker, TypeOK
  <2>7. CASE Settle(p)
    <3>1. worker'[p] = "deactivate" /\ outcome'[p] = "none" /\ worker[p] = "settle"
      BY <1>0, <2>7 DEF Settle, To, TypeOK
    <3>2. status'[cur[p]] \in Terminal
      <4>1. outcome[p] \in Terminal
        BY <1>0, <2>7 DEF Settle, InvWorker, TypeOK, Outcomes, Terminal
      <4>2. CASE cur[p] \in finalized
        BY <1>0, <2>1, <2>7, <4>2 DEF Settle, SetStatus, InvJobs, Terminal
      <4>3. CASE cur[p] \notin finalized
        BY <1>0, <2>1, <2>7, <4>1, <4>3 DEF Settle, SetStatus, TypeOK
      <4> QED BY <4>2, <4>3
    <3> QED BY <1>0, <2>1, <2>2, <2>3, <2>4, <2>5, <3>1, <3>2 DEF InvWorker, TypeOK
  <2> QED BY <1>6, <2>6, <2>7
<1>7. ASSUME NEW p \in Profiles, Service(p) \/ Build(p) \/ Publish(p) \/ Flush(p) PROVE InvWorker'
  <2>1. UNCHANGED <<seq, owner, status, finalized, cur, active>>
    BY <1>7 DEF Service, Build, Publish, Flush, jobVars
  <2>2. \A q \in Profiles : q # p => worker'[q] = worker[q] /\ outcome'[q] = outcome[q]
    BY <1>0, <1>7 DEF Service, Build, Publish, Flush, FailWith, To, TypeOK
  <2>3. worker[p] \in {"service", "build", "publish", "flush"}
    BY <1>7 DEF Service, Build, Publish, Flush
  <2>4. \/ worker'[p] = "settle" /\ outcome'[p] # "none"
        \/ worker'[p] \in {"build", "publish", "flush"} /\ outcome'[p] = outcome[p]
    BY <1>0, <1>7 DEF Service, Build, Publish, Flush, FailWith, To, TypeOK, Terminal
  <2> QED BY <1>0, <2>1, <2>2, <2>3, <2>4 DEF InvWorker, TypeOK
<1>8. CASE Close
  <2>1. UNCHANGED <<seq, owner, finalized, worker, cur, active, outcome>>
    BY <1>8 DEF Close, workerVars
  <2>2. \A p \in Profiles : worker[p] \in Holding => ~InQueue(cur[p])
    BY <1>0 DEF InQueue, InvQueue, InvWorker, TypeOK, Jobs
  <2>3. \A p \in Profiles : worker[p] \in Holding => cur[p] \in Jobs
    BY <1>0 DEF InvWorker, TypeOK
  <2>4. \A p \in Profiles : worker[p] \in Holding => status'[cur[p]] = status[cur[p]]
    BY <1>8, <2>2, <2>3 DEF Close
  <2> QED BY <1>0, <2>1, <2>4 DEF InvWorker
<1>9. CASE FailStuckJobs
  <2>1. UNCHANGED <<seq, owner, worker, cur, active, outcome>> /\ finalized \subseteq finalized'
    BY <1>9 DEF FailStuckJobs, workerVars
  <2>2. \A j \in Jobs : status'[j] # status[j] => status'[j] = "failed" /\ j \in finalized'
    BY <1>0, <1>9 DEF FailStuckJobs, TypeOK
  <2>3. \A p \in Profiles : worker[p] \in Holding => cur[p] \in Jobs
    BY <1>0 DEF InvWorker, TypeOK
  <2> QED BY <1>0, <2>1, <2>2, <2>3 DEF InvWorker, Terminal
<1>10. CASE UNCHANGED <<seq, owner, status, finalized, worker, cur, active, outcome>>
  BY <1>0, <1>10 DEF InvWorker
<1>11. ASSUME NEW c \in Callers, Wake(c) PROVE InvWorker'
  BY <1>10, <1>11 DEF Wake, jobVars, workerVars
<1>12. CASE \/ Cancel \/ Joined \/ JoinTimeout \/ SweepEnd
            \/ \E p \in Profiles : SweepCheck(p) \/ Dispose(p)
  BY <1>10, <1>12 DEF Cancel, Joined, JoinTimeout, SweepEnd, SweepCheck, Dispose, jobVars, workerVars
<1>13. CASE UNCHANGED vars
  BY <1>10, <1>13 DEF vars, jobVars, workerVars
<1> QED
  BY <1>1, <1>2, <1>3, <1>4, <1>5, <1>6, <1>7, <1>8, <1>9, <1>11, <1>12, <1>13
  DEF Next, CallerStep, WorkerStep, CloserStep

(* No unsettled job is ever dropped.                                       *)
LEMMA UnsettledInductive == IInv /\ [Next]_vars => InvUnsettled'
<1> SUFFICES ASSUME IInv, [Next]_vars PROVE InvUnsettled'
  OBVIOUS
<1>0. TypeOK /\ InvJobs /\ InvQueue /\ InvWorker /\ InvUnsettled /\ InvCloser
  BY DEF IInv
<1>1. ASSUME NEW c \in Callers, NEW p \in Profiles, Enqueue(c, p) PROVE InvUnsettled'
  <2> SUFFICES ASSUME NEW j \in Jobs, j <= seq', status'[j] \notin Terminal
               PROVE  \/ cur'[owner'[j]] = j
                      \/ \E i \in 1..Len(pending'[owner'[j]]) : pending'[owner'[j]][i] = j
    BY DEF InvUnsettled
  <2>1. /\ seq' = seq + 1 /\ cur' = cur /\ seq \in Nat
        /\ owner' = [owner EXCEPT ![seq + 1] = p]
        /\ status' = [status EXCEPT ![seq + 1] = "queued"]
        /\ pending' = [pending EXCEPT ![p] = Append(@, seq + 1)]
    BY <1>0, <1>1 DEF Enqueue, workerVars, TypeOK
  <2>2. /\ Len(pending'[p]) = Len(pending[p]) + 1
        /\ \A i \in 1..Len(pending[p]) : pending'[p][i] = pending[p][i]
        /\ pending'[p][Len(pending[p]) + 1] = seq + 1
        /\ Len(pending[p]) \in Nat
    <3>1. pending[p] \in Seq(Jobs) /\ pending'[p] = Append(pending[p], seq + 1)
      BY <1>0, <2>1 DEF TypeOK
    <3> QED BY <3>1
  <2>3. CASE j = seq + 1
    <3>1. owner'[j] = p
      BY <1>0, <2>1, <2>3 DEF TypeOK
    <3>2. Len(pending[p]) + 1 \in 1..Len(pending'[p])
      BY <2>2
    <3> QED BY <2>2, <2>3, <3>1, <3>2
  <2>4. CASE j # seq + 1
    <3>0. j <= seq
      BY <2>1, <2>4, MaxJobsAssumption DEF Jobs
    <3>1. owner'[j] = owner[j] /\ status'[j] = status[j] /\ j <= seq /\ owner[j] \in Profiles
      BY <1>0, <2>1, <2>4, <3>0 DEF TypeOK
    <3>2. CASE cur[owner[j]] = j
      BY <2>1, <3>1, <3>2
    <3>3. ASSUME NEW i \in 1..Len(pending[owner[j]]), pending[owner[j]][i] = j
          PROVE  i \in 1..Len(pending'[owner[j]]) /\ pending'[owner[j]][i] = j
      <4>1. CASE owner[j] = p
        BY <2>2, <3>3, <4>1
      <4>2. CASE owner[j] # p
        BY <1>0, <2>1, <3>1, <3>3, <4>2 DEF TypeOK
      <4> QED BY <4>1, <4>2
    <3> QED BY <1>0, <3>1, <3>2, <3>3 DEF InvUnsettled
  <2> QED BY <2>3, <2>4
<1>2. ASSUME NEW p \in Profiles, PopPending(p) PROVE InvUnsettled'
  <2>1. CASE pending[p] = <<>>
    BY <1>0, <1>2, <2>1 DEF PopPending, InvUnsettled, jobVars
  <2>2. CASE pending[p] # <<>>
    <3> SUFFICES ASSUME NEW j \in Jobs, j <= seq', status'[j] \notin Terminal
                 PROVE  \/ cur'[owner'[j]] = j
                        \/ \E i \in 1..Len(pending'[owner'[j]]) : pending'[owner'[j]][i] = j
      BY DEF InvUnsettled
    <3>1. /\ Len(pending[p]) \in Nat \ {0}
          /\ Len(Tail(pending[p])) = Len(pending[p]) - 1
          /\ \A i \in 1..Len(Tail(pending[p])) : Tail(pending[p])[i] = pending[p][i + 1]
          /\ Head(pending[p]) = pending[p][1]
      BY <1>0, <2>2 DEF TypeOK
    <3>2. /\ pending' = [pending EXCEPT ![p] = Tail(pending[p])]
          /\ cur' = [cur EXCEPT ![p] = pending[p][1]]
          /\ UNCHANGED <<seq, owner, status>>
      BY <1>2, <2>2, <3>1 DEF PopPending, jobVars
    <3>3. owner[j] \in Profiles
      BY <1>0 DEF TypeOK
    <3>4. CASE owner[j] # p
      BY <1>0, <3>2, <3>3, <3>4 DEF InvUnsettled, TypeOK
    <3>5. CASE owner[j] = p
      <4>1. pending'[p] = Tail(pending[p]) /\ cur'[p] = pending[p][1]
        BY <1>0, <3>2 DEF TypeOK
      <4>2. cur[p] = NoJob /\ j # NoJob
        BY <1>0, <1>2 DEF PopPending, InvWorker, Holding, Visible, Jobs, NoJob
      <4>3. PICK i \in 1..Len(pending[p]) : pending[p][i] = j
        BY <1>0, <3>2, <3>5, <4>2 DEF InvUnsettled
      <4>4. CASE i = 1
        BY <3>2, <3>5, <4>1, <4>3, <4>4
      <4>5. CASE i # 1
        <5>1. i - 1 \in 1..Len(Tail(pending[p])) /\ Tail(pending[p])[i - 1] = pending[p][i]
          BY <3>1, <4>5
        <5> QED BY <3>2, <3>5, <4>1, <4>3, <5>1
      <4> QED BY <4>4, <4>5
    <3> QED BY <3>4, <3>5
  <2> QED BY <2>1, <2>2
<1>3. ASSUME NEW p \in Profiles, Deactivate(p) PROVE InvUnsettled'
  <2>1. status[cur[p]] \in Terminal
    BY <1>0, <1>3 DEF Deactivate, InvWorker, Holding, Visible
  <2>2. UNCHANGED <<seq, owner, status, pending>> /\ cur' = [cur EXCEPT ![p] = NoJob]
    BY <1>3 DEF Deactivate, jobVars
  <2> QED BY <1>0, <2>1, <2>2 DEF InvUnsettled, TypeOK
<1>4. ASSUME NEW p \in Profiles, MarkRunning(p) \/ Settle(p) PROVE InvUnsettled'
  <2>1. cur[p] \in Jobs /\ owner[cur[p]] = p
    BY <1>4, HeldJob DEF MarkRunning, Settle, Holding, Visible
  <2>2. \A j \in Jobs : j # cur[p] => status'[j] = status[j]
    BY <1>0, <1>4, <2>1 DEF MarkRunning, Settle, SetStatus, TypeOK
  <2>3. UNCHANGED <<seq, owner, cur, pending>>
    BY <1>4 DEF MarkRunning, Settle
  <2> QED BY <1>0, <2>1, <2>2, <2>3 DEF InvUnsettled
<1>5. CASE Close
  <2>1. UNCHANGED <<seq, owner, cur>>
    BY <1>5 DEF Close, workerVars
  <2>2. \A j \in Jobs : status'[j] \notin Terminal => ~InQueue(j) /\ status[j] \notin Terminal
    BY <1>0, <1>5 DEF Close, Terminal
  <2>3. \A j \in Jobs : owner[j] \in Profiles
    BY <1>0 DEF TypeOK
  <2> QED BY <1>0, <2>1, <2>2, <2>3 DEF InvUnsettled, InQueue
<1>6. CASE FailStuckJobs
  <2>1. UNCHANGED <<seq, owner, cur, pending>>
    BY <1>6 DEF FailStuckJobs, workerVars
  <2>2. \A j \in Jobs : status'[j] \notin Terminal => status[j] \notin Terminal
    BY <1>0, <1>6 DEF FailStuckJobs, Terminal
  <2> QED BY <1>0, <2>1, <2>2 DEF InvUnsettled
<1>7. CASE UNCHANGED <<pending, seq, owner, status, cur>>
  BY <1>0, <1>7 DEF InvUnsettled
<1>8. ASSUME NEW c \in Callers, CallerStep(c) PROVE InvUnsettled'
  BY <1>7, <1>8 DEF CallerStep, EnsureWorker, Wake, jobVars, workerVars
<1>9. ASSUME NEW p \in Profiles,
             \/ Wakened(p) \/ Exit(p) \/ Activate(p) \/ SetStartedAt(p)
             \/ Service(p) \/ Build(p) \/ Publish(p) \/ Flush(p)
      PROVE  InvUnsettled'
  BY <1>7, <1>9 DEF Wakened, Exit, Activate, SetStartedAt, Service, Build, Publish, Flush, jobVars
<1>10. CASE \/ Cancel \/ Joined \/ JoinTimeout \/ SweepEnd
            \/ \E p \in Profiles : SweepCheck(p) \/ Dispose(p)
  BY <1>7, <1>10 DEF Cancel, Joined, JoinTimeout, SweepEnd, SweepCheck, Dispose, jobVars, workerVars
<1>11. CASE UNCHANGED vars
  BY <1>7, <1>11 DEF vars, jobVars, workerVars
<1> QED
  BY <1>1, <1>2, <1>3, <1>4, <1>5, <1>6, <1>8, <1>9, <1>10, <1>11
  DEF Next, WorkerStep, CloserStep

(* Jobs of one profile run one after the other, in order.                  *)
LEMMA SequentialInductive == IInv /\ [Next]_vars => SequentialPerProfile'
<1> SUFFICES ASSUME IInv, [Next]_vars PROVE SequentialPerProfile'
  OBVIOUS
<1>0. TypeOK /\ InvJobs /\ InvQueue /\ InvWorker /\ InvUnsettled /\ SequentialPerProfile
  BY DEF IInv
<1>1. ASSUME NEW c \in Callers, NEW p \in Profiles, Enqueue(c, p) PROVE SequentialPerProfile'
  <2>1. /\ seq' = seq + 1 /\ seq \in Nat
        /\ owner' = [owner EXCEPT ![seq + 1] = p]
        /\ status' = [status EXCEPT ![seq + 1] = "queued"]
    BY <1>0, <1>1 DEF Enqueue, TypeOK
  <2>2. \A j \in Jobs : j # seq + 1 => owner'[j] = owner[j] /\ status'[j] = status[j]
    BY <1>0, <2>1 DEF TypeOK
  <2>3. seq + 1 \in Jobs => status'[seq + 1] = "queued"
    BY <1>0, <2>1 DEF TypeOK
  <2> QED BY <1>0, <2>1, <2>2, <2>3 DEF SequentialPerProfile, Jobs
<1>2. ASSUME NEW p \in Profiles, MarkRunning(p) \/ Settle(p) PROVE SequentialPerProfile'
  <2>1. cur[p] \in Jobs /\ cur[p] <= seq /\ owner[cur[p]] = p
    BY <1>2, HeldJob DEF MarkRunning, Settle, Holding, Visible
  <2>2. \A i \in Jobs : (i < cur[p] /\ owner[i] = p) => status[i] \in Terminal
    <3> SUFFICES ASSUME NEW i \in Jobs, i < cur[p], owner[i] = p, status[i] \notin Terminal
                 PROVE  FALSE
      OBVIOUS
    <3>1. i <= seq /\ i # cur[p]
      BY <1>0, <2>1 DEF TypeOK, Jobs
    <3>2. PICK k \in 1..Len(pending[p]) : pending[p][k] = i
      BY <1>0, <3>1 DEF InvUnsettled
    <3>3. cur[p] < i
      BY <1>0, <3>2 DEF InvQueue
    <3> QED BY <2>1, <3>3 DEF Jobs
  <2>3. \A j \in Jobs : j # cur[p] => status'[j] = status[j]
    BY <1>0, <1>2, <2>1 DEF MarkRunning, Settle, SetStatus, TypeOK
  <2>4. status[cur[p]] \in Terminal => status'[cur[p]] \in Terminal
    <3>1. status[cur[p]] \in Terminal => cur[p] \in finalized
      BY <1>0, <1>2 DEF MarkRunning, Settle, InvWorker, Holding, Visible, Terminal
    <3> QED BY <1>2, <3>1 DEF MarkRunning, Settle, SetStatus
  <2>5. seq' = seq /\ owner' = owner
    BY <1>2 DEF MarkRunning, Settle
  <2> QED BY <1>0, <2>1, <2>2, <2>3, <2>4, <2>5 DEF SequentialPerProfile
<1>3. CASE /\ UNCHANGED <<seq, owner>>
           /\ \A j \in Jobs : status'[j] = status[j] \/ status'[j] = "failed"
  BY <1>0, <1>3 DEF SequentialPerProfile, Terminal
<1>4. CASE Close
  BY <1>0, <1>3, <1>4 DEF Close, TypeOK
<1>5. CASE FailStuckJobs
  BY <1>0, <1>3, <1>5 DEF FailStuckJobs, TypeOK
<1>6. ASSUME NEW c \in Callers, CallerStep(c) PROVE SequentialPerProfile'
  BY <1>3, <1>6 DEF CallerStep, EnsureWorker, Wake, jobVars
<1>7. ASSUME NEW p \in Profiles,
             \/ PopPending(p) \/ Wakened(p) \/ Exit(p) \/ Activate(p) \/ SetStartedAt(p)
             \/ Service(p) \/ Build(p) \/ Publish(p) \/ Flush(p) \/ Deactivate(p)
      PROVE  SequentialPerProfile'
  BY <1>3, <1>7 DEF PopPending, Wakened, Exit, Activate, SetStartedAt, Service, Build, Publish, Flush,
                    Deactivate, jobVars
<1>8. CASE \/ Cancel \/ Joined \/ JoinTimeout \/ SweepEnd
           \/ \E p \in Profiles : SweepCheck(p) \/ Dispose(p)
  BY <1>3, <1>8 DEF Cancel, Joined, JoinTimeout, SweepEnd, SweepCheck, Dispose, jobVars
<1>9. CASE UNCHANGED vars
  BY <1>3, <1>9 DEF vars, jobVars
<1> QED
  BY <1>1, <1>2, <1>4, <1>5, <1>6, <1>7, <1>8, <1>9
  DEF Next, WorkerStep, CloserStep

(* Service handles: one per worker, opened before shutdown only, and never *)
(* closed under the flush of a job that shutdown finalized.                *)
LEMMA ServiceInductive == IInv /\ [Next]_vars => InvService'
<1> SUFFICES ASSUME IInv, [Next]_vars PROVE InvService'
  OBVIOUS
<1>0. TypeOK /\ InvJobs /\ InvWorker /\ InvCloser /\ InvService
  BY DEF IInv
<1> USE DEF Holding, Visible, ServiceOK
<1>1. ASSUME NEW c \in Callers, NEW p \in Profiles, Enqueue(c, p) PROVE InvService'
  BY <1>0, <1>1 DEF Enqueue, InvService, workerVars, svcVars, closerVars
<1>2. ASSUME NEW c \in Callers, EnsureWorker(c) PROVE InvService'
  <2>1. UNCHANGED <<finalized, cur, svc, handles, closer, sweep, disposing>>
    BY <1>2 DEF EnsureWorker, jobVars, svcVars, closerVars
  <2>2. ASSUME NEW q \in Profiles
        PROVE  worker'[q] = worker[q] \/ (worker[q] = "none" /\ worker'[q] = "pop")
    <3>1. CASE q = owner[request[c]] BY <1>0, <1>2, <3>1 DEF EnsureWorker, TypeOK
    <3>2. CASE q # owner[request[c]] BY <1>0, <1>2, <3>2 DEF EnsureWorker, TypeOK
    <3> QED BY <3>1, <3>2
  <2> QED BY <1>0, <2>1, <2>2 DEF InvService
<1>3. ASSUME NEW p \in Profiles, PopPending(p) PROVE InvService'
  <2>1. CASE pending[p] = <<>>
    <3>1. /\ worker' = [worker EXCEPT ![p] = "select"]
          /\ UNCHANGED <<finalized, cur, svc, handles, closer, sweep, disposing>>
      BY <1>3, <2>1 DEF PopPending, To, jobVars, svcVars, closerVars
    <3>2. /\ worker[p] = "pop" /\ worker'[p] = "select"
          /\ \A q \in Profiles : q # p => worker'[q] = worker[q]
      BY <1>0, <1>3, <3>1 DEF PopPending, TypeOK
    <3> QED BY <1>0, <3>1, <3>2 DEF InvService
  <2>2. CASE pending[p] # <<>>
    <3>1. Head(pending[p]) \notin finalized
      <4>1. closer = "open"
        BY <1>0, <2>2 DEF InvCloser, closed
      <4>2. Head(pending[p]) \in Jobs
        BY <1>0, <2>2 DEF TypeOK
      <4> QED BY <1>0, <4>1, <4>2 DEF InvJobs
    <3>2. /\ worker' = [worker EXCEPT ![p] = "activate"]
          /\ cur' = [cur EXCEPT ![p] = Head(pending[p])]
          /\ UNCHANGED <<finalized, svc, handles, closer, sweep, disposing>>
      BY <1>3, <2>2 DEF PopPending, To, jobVars, svcVars, closerVars
    <3>3. worker[p] = "pop"
      BY <1>3 DEF PopPending
    <3> QED BY <1>0, <3>1, <3>2, <3>3 DEF InvService, TypeOK
  <2> QED BY <2>1, <2>2
<1>4. ASSUME NEW p \in Profiles,
             \/ Wakened(p) \/ Exit(p) \/ Activate(p) \/ MarkRunning(p) \/ SetStartedAt(p)
             \/ Settle(p) \/ Flush(p)
      PROVE  InvService'
  <2>1. UNCHANGED <<finalized, cur, svc, handles, closer, sweep, disposing>>
    BY <1>4 DEF Wakened, Exit, Activate, MarkRunning, SetStartedAt, Settle, Flush, jobVars, svcVars,
                closerVars
  <2>2. /\ \A q \in Profiles : q # p => worker'[q] = worker[q]
        /\ worker'[p] \in {"pop", "exited", "run", "stamp", "service", "deactivate", "settle"}
    BY <1>0, <1>4 DEF Wakened, Exit, Activate, MarkRunning, SetStartedAt, Settle, Flush, To, TypeOK
  <2>3. /\ worker[p] \in {"select", "activate", "run", "stamp", "settle", "flush"}
        /\ worker[p] = "select" <=> worker'[p] \in {"pop", "exited"}
    BY <1>0, <1>4 DEF Wakened, Exit, Activate, MarkRunning, SetStartedAt, Settle, Flush, To, TypeOK
  <2> QED BY <1>0, <2>1, <2>2, <2>3 DEF InvService
<1>5. ASSUME NEW p \in Profiles, Deactivate(p) PROVE InvService'
  BY <1>0, <1>5 DEF Deactivate, To, InvService, TypeOK, jobVars, svcVars, closerVars
<1>6. ASSUME NEW p \in Profiles, Service(p) PROVE InvService'
  <2>1. UNCHANGED <<finalized, cur, svc, handles, closer, sweep, disposing>> /\ worker[p] = "service"
    BY <1>6 DEF Service, jobVars, svcVars, closerVars
  <2>2. \A q \in Profiles : q # p => worker'[q] = worker[q]
    BY <1>0, <1>6 DEF Service, FailWith, To, TypeOK
  <2>3. \/ worker'[p] = "settle"
        \/ worker'[p] = "build" /\ svc[p] = "none"
        \/ worker'[p] = "flush" /\ svc[p] # "none"
    BY <1>0, <1>6 DEF Service, FailWith, To, TypeOK
  <2> QED BY <1>0, <2>1, <2>2, <2>3 DEF InvService
<1>7. ASSUME NEW p \in Profiles, Build(p) PROVE InvService'
  <2>1. UNCHANGED <<finalized, cur, svc, closer, sweep, disposing>> /\ worker[p] = "build"
    BY <1>7 DEF Build, jobVars, closerVars
  <2>2. \A q \in Profiles : q # p => worker'[q] = worker[q] /\ handles'[q] = handles[q]
    BY <1>0, <1>7 DEF Build, FailWith, To, TypeOK
  <2>3. \/ worker'[p] = "settle" /\ handles'[p] = handles[p]
        \/ worker'[p] = "publish" /\ handles'[p] = handles[p] + 1
    BY <1>0, <1>7 DEF Build, FailWith, To, TypeOK
  <2>4. ASSUME NEW q \in Profiles, q # p PROVE ServiceOK(q)'
    BY <1>0, <2>1, <2>2, <2>4 DEF InvService
  <2>5. ServiceOK(p)'
    <3>1. handles[p] = 0 /\ svc[p] = "none" /\ ServiceOK(p)
      BY <1>0, <2>1 DEF InvService
    <3> QED BY <2>1, <2>3, <3>1
  <2> QED BY <2>4, <2>5 DEF InvService
<1>8. ASSUME NEW p \in Profiles, Publish(p) PROVE InvService'
  <2>1. UNCHANGED <<finalized, cur, closer, sweep, disposing>> /\ worker[p] = "publish"
    BY <1>8 DEF Publish, jobVars, closerVars
  <2>2. \A q \in Profiles : q # p => /\ worker'[q] = worker[q] /\ handles'[q] = handles[q]
                                     /\ svc'[q] = svc[q]
    <3>1. CASE closed  BY <1>0, <1>8, <3>1 DEF Publish, FailWith, To, TypeOK
    <3>2. CASE ~closed BY <1>0, <1>8, <3>2 DEF Publish, To, TypeOK
    <3> QED BY <3>1, <3>2
  <2>3. CASE closed
    <3>1. worker'[p] = "settle" /\ handles'[p] = handles[p] - 1 /\ svc'[p] = svc[p]
      BY <1>0, <1>8, <2>3 DEF Publish, FailWith, To, TypeOK
    <3>2. ASSUME NEW q \in Profiles, q # p PROVE ServiceOK(q)'
      BY <1>0, <2>1, <2>2, <3>2 DEF InvService
    <3>3. ServiceOK(p)'
      <4>1. handles[p] = 1 /\ svc[p] = "none" /\ ServiceOK(p)
        BY <1>0, <2>1 DEF InvService
      <4> QED BY <2>1, <3>1, <4>1
    <3> QED BY <3>2, <3>3 DEF InvService
  <2>4. CASE ~closed
    <3>1. worker'[p] = "flush" /\ handles'[p] = handles[p] /\ svc'[p] = "open"
      BY <1>0, <1>8, <2>4 DEF Publish, To, TypeOK
    <3>2. closer = "open" /\ sweep = {} /\ disposing = {}
      BY <1>0, <2>4 DEF InvCloser, closed
    <3> QED BY <1>0, <2>1, <2>2, <3>1, <3>2 DEF InvService, TypeOK
  <2> QED BY <2>3, <2>4
<1>9. CASE Close
  BY <1>0, <1>9 DEF Close, InvService, workerVars, svcVars
<1>10. CASE Cancel \/ JoinTimeout \/ SweepEnd
  BY <1>0, <1>10 DEF Cancel, JoinTimeout, SweepEnd, InvService, jobVars, workerVars, svcVars
<1>11. CASE Joined
  <2>1. UNCHANGED <<finalized, worker, cur, sweep, disposing>> /\ closer' = "joined"
    BY <1>11 DEF Joined, jobVars, workerVars
  <2>2. \A p \in Profiles : worker[p] \in {"none", "exited"}
    BY <1>11 DEF Joined
  <2>3. \A p \in Profiles :
          /\ svc'[p] = IF svc[p] = "none" THEN "none" ELSE "closed"
          /\ handles'[p] = IF svc[p] = "open" THEN handles[p] - 1 ELSE handles[p]
    BY <1>11 DEF Joined
  <2>4. sweep = {} /\ disposing = {}
    BY <1>0, <1>11 DEF Joined, InvCloser
  <2> QED BY <1>0, <2>1, <2>2, <2>3, <2>4 DEF InvService, TypeOK
<1>12. CASE FailStuckJobs
  <2>1. UNCHANGED <<worker, cur, svc, handles, disposing>> /\ closer' = "sweep"
    BY <1>12 DEF FailStuckJobs, workerVars, svcVars
  <2>2. disposing = {} /\ sweep' \subseteq Profiles /\ closer = "failStuck"
    BY <1>0, <1>12 DEF FailStuckJobs, InvCloser
  <2>3. \A p \in Profiles : svc[p] # "closed"
    BY <1>0, <2>2 DEF InvService
  <2>4. \A j \in Jobs : j \notin finalized
    BY <1>0, <2>2 DEF InvJobs
  <2>5. \A p \in Profiles : (worker[p] \in Holding /\ cur[p] \in finalized') => worker[p] \in Visible
    <3> SUFFICES ASSUME NEW p \in Profiles, worker[p] \in Holding, cur[p] \in finalized'
                 PROVE  worker[p] \in Visible
      OBVIOUS
    <3>1. cur[p] \in Jobs /\ owner[cur[p]] = p
      BY HeldJob
    <3>2. PICK q \in Profiles : active[q] = cur[p]
      BY <1>12, <2>4, <3>1 DEF FailStuckJobs, Stuck
    <3>3. worker[q] \in Visible /\ cur[q] = cur[p]
      BY <1>0, <3>1, <3>2 DEF InvWorker, NoJob, Jobs
    <3>4. q = p
      BY <1>0, <3>1, <3>3 DEF InvWorker
    <3> QED BY <3>3, <3>4
  <2> QED BY <1>0, <2>1, <2>2, <2>3, <2>5 DEF InvService
<1>13. ASSUME NEW p \in Profiles, SweepCheck(p) PROVE InvService'
  <2>1. UNCHANGED <<finalized, worker, cur, svc, handles, closer>> /\ sweep' = sweep \ {p} /\ p \in sweep
    BY <1>13 DEF SweepCheck, jobVars, workerVars, svcVars
  <2>2. \A q \in Profiles : q \in disposing' => q = p /\ active[p] = NoJob /\ svc[p] # "none"
    BY <1>13 DEF SweepCheck
  <2>3. active[p] = NoJob => worker[p] \notin Visible
    BY <1>0 DEF InvWorker
  <2>4. svc[p] \in {"none", "open"}
    BY <1>0, <2>1 DEF InvService, TypeOK
  <2> QED BY <1>0, <2>1, <2>2, <2>3, <2>4 DEF InvService
<1>14. ASSUME NEW p \in Profiles, Dispose(p) PROVE InvService'
  <2>1. UNCHANGED <<finalized, worker, cur, sweep, closer>> /\ disposing' = disposing \ {p} /\ p \in disposing
    BY <1>14 DEF Dispose, jobVars, workerVars
  <2>2. closer = "sweep" /\ p \notin sweep
    BY <1>0, <2>1 DEF InvCloser
  <2>3. svc'[p] = "closed" /\ handles'[p] = handles[p] - 1 /\ svc[p] = "open"
    BY <1>0, <1>14, <2>1 DEF Dispose, TypeOK, InvService
  <2>4. \A q \in Profiles : q # p => svc'[q] = svc[q] /\ handles'[q] = handles[q]
    BY <1>0, <1>14 DEF Dispose, TypeOK
  <2> QED BY <1>0, <2>1, <2>2, <2>3, <2>4 DEF InvService, TypeOK
<1>15. CASE UNCHANGED <<finalized, worker, cur, svc, handles, closer, sweep, disposing>>
  BY <1>0, <1>15 DEF InvService
<1>16. ASSUME NEW c \in Callers, Wake(c) PROVE InvService'
  BY <1>15, <1>16 DEF Wake, jobVars, workerVars, svcVars, closerVars
<1>17. CASE UNCHANGED vars
  BY <1>15, <1>17 DEF vars, jobVars, workerVars, svcVars, closerVars
<1> QED
  BY <1>1, <1>2, <1>3, <1>4, <1>5, <1>6, <1>7, <1>8, <1>9, <1>10, <1>11, <1>12, <1>13, <1>14,
     <1>16, <1>17
  DEF Next, CallerStep, WorkerStep, CloserStep

(* No wakeup is lost.                                                      *)
LEMMA WakeupInductive == IInv /\ [Next]_vars => NoLostWakeup'
<1> SUFFICES ASSUME IInv, [Next]_vars PROVE NoLostWakeup'
  OBVIOUS
<1>0. TypeOK /\ InvWorker /\ InvCloser /\ InvCaller /\ NoLostWakeup
  BY DEF IInv
<1>1. ASSUME NEW c \in Callers, NEW p \in Profiles, Enqueue(c, p) PROVE NoLostWakeup'
  <2>1. /\ UNCHANGED <<worker, wake>> /\ caller[c] = "idle"
        /\ caller' = [caller EXCEPT ![c] = IF Live(p) THEN "wake" ELSE "ensure"]
        /\ request' = [request EXCEPT ![c] = seq + 1]
        /\ owner' = [owner EXCEPT ![seq + 1] = p]
    BY <1>1 DEF Enqueue, workerVars
  <2>2. seq \in Nat /\ seq + 1 \in Jobs
    BY <1>0, <1>1, MaxJobsAssumption DEF Enqueue, TypeOK, Jobs
  <2>3. owner'[request'[c]] = p /\ caller'[c] = IF worker[p] = "none" THEN "ensure" ELSE "wake"
    BY <1>0, <2>1, <2>2 DEF TypeOK, Live
  <2>4. ASSUME NEW d \in Callers, caller[d] # "idle"
        PROVE  caller'[d] = caller[d] /\ owner'[request'[d]] = owner[request[d]]
    <3>1. d # c /\ request[d] \in 1..seq
      BY <1>0, <2>1, <2>4 DEF InvCaller
    <3>2. request'[d] = request[d] /\ caller'[d] = caller[d]
      BY <1>0, <2>1, <3>1 DEF TypeOK
    <3>3. request[d] # seq + 1
      BY <2>2, <3>1
    <3> QED BY <1>0, <2>1, <3>2, <3>3 DEF TypeOK
  <2>5. ASSUME NEW q \in Profiles, q # p PROVE pending'[q] = pending[q]
    BY <1>0, <1>1, <2>5 DEF Enqueue, TypeOK
  <2>6. worker[p] # "exited"
    BY <1>0, <1>1 DEF Enqueue, InvCloser, closed, cancelled
  <2> QED BY <1>0, <2>1, <2>3, <2>4, <2>5, <2>6 DEF NoLostWakeup
<1>2. ASSUME NEW c \in Callers, EnsureWorker(c) PROVE NoLostWakeup'
  <2>1. UNCHANGED <<pending, owner, request, wake>>
    BY <1>2 DEF EnsureWorker, jobVars
  <2>2. CASE closed
    BY <1>0, <2>1, <2>2 DEF InvCloser, NoLostWakeup
  <2>3. CASE ~closed
    <3>1. /\ caller[c] = "ensure" /\ caller'[c] = "wake"
          /\ \A d \in Callers : d # c => caller'[d] = caller[d]
      BY <1>0, <1>2, <2>3 DEF EnsureWorker, TypeOK
    <3>2. ASSUME NEW q \in Profiles, q # owner[request[c]] PROVE worker'[q] = worker[q]
      BY <1>0, <1>2, <3>2 DEF EnsureWorker, TypeOK
    <3>3. ASSUME NEW q \in Profiles, q = owner[request[c]]
          PROVE  worker'[q] = IF worker[q] = "none" THEN "pop" ELSE worker[q]
      BY <1>0, <1>2, <2>3, <3>3 DEF EnsureWorker, TypeOK
    <3> QED BY <1>0, <2>1, <3>1, <3>2, <3>3 DEF NoLostWakeup
  <2> QED BY <2>2, <2>3
<1>3. ASSUME NEW c \in Callers, Wake(c) PROVE NoLostWakeup'
  <2>1. UNCHANGED <<pending, owner, request, worker>> /\ wake' = wake \cup {owner[request[c]]}
    BY <1>3 DEF Wake, jobVars, workerVars
  <2>2. caller[c] = "wake" /\ \A d \in Callers : d # c => caller'[d] = caller[d]
    BY <1>0, <1>3 DEF Wake, TypeOK
  <2> QED BY <1>0, <2>1, <2>2 DEF NoLostWakeup
<1>4. ASSUME NEW p \in Profiles, PopPending(p) PROVE NoLostWakeup'
  <2>1. UNCHANGED <<owner, request, caller, wake>>
    BY <1>4 DEF PopPending, jobVars, callerVars
  <2>2. ASSUME NEW q \in Profiles, q # p PROVE pending'[q] = pending[q] /\ worker'[q] = worker[q]
    BY <1>0, <1>4, <2>2 DEF PopPending, To, TypeOK
  <2>3. pending'[p] = <<>> \/ worker'[p] = "activate"
    BY <1>0, <1>4 DEF PopPending, To, TypeOK
  <2> QED BY <1>0, <2>1, <2>2, <2>3 DEF NoLostWakeup
<1>5. ASSUME NEW p \in Profiles, Wakened(p) PROVE NoLostWakeup'
  BY <1>0, <1>5 DEF Wakened, To, NoLostWakeup, TypeOK, jobVars, callerVars
<1>6. ASSUME NEW p \in Profiles, Exit(p) PROVE NoLostWakeup'
  BY <1>0, <1>6 DEF Exit, NoLostWakeup, InvCloser, closed, cancelled
<1>7. ASSUME NEW p \in Profiles,
             \/ Activate(p) \/ MarkRunning(p) \/ SetStartedAt(p) \/ Settle(p) \/ Deactivate(p)
             \/ Service(p) \/ Build(p) \/ Publish(p) \/ Flush(p)
      PROVE  NoLostWakeup'
  <2>1. UNCHANGED <<pending, owner, request, caller, wake>>
    BY <1>7 DEF Activate, MarkRunning, SetStartedAt, Settle, Deactivate, Service, Build, Publish, Flush,
                jobVars, callerVars
  <2>2. /\ \A q \in Profiles : q # p => worker'[q] = worker[q]
        /\ worker'[p] \notin {"none", "select", "exited"}
    BY <1>0, <1>7 DEF Activate, MarkRunning, SetStartedAt, Settle, Deactivate, Service, Build, Publish,
                      Flush, FailWith, To, TypeOK
  <2> QED BY <1>0, <2>1, <2>2 DEF NoLostWakeup
<1>8. CASE Close
  BY <1>8 DEF Close, NoLostWakeup
<1>9. CASE UNCHANGED <<pending, owner, request, caller, wake, worker>>
  BY <1>0, <1>9 DEF NoLostWakeup
<1>10. CASE CloserStep
  BY <1>9, <1>10 DEF CloserStep, Cancel, Joined, JoinTimeout, FailStuckJobs, SweepEnd, SweepCheck,
                     Dispose, jobVars, callerVars, workerVars
<1>11. CASE UNCHANGED vars
  BY <1>9, <1>11 DEF vars, jobVars, callerVars, workerVars
<1> QED
  BY <1>1, <1>2, <1>3, <1>4, <1>5, <1>6, <1>7, <1>8, <1>10, <1>11
  DEF Next, CallerStep, WorkerStep

-----------------------------------------------------------------------------
(* The inductive invariant.                                                *)

(* NewFlushManager establishes it: no job, no worker, nobody shutting down. *)
LEMMA InitInv == Init => IInv
<1> SUFFICES ASSUME Init PROVE IInv
  OBVIOUS
<1> USE DEF Init, Jobs, NoJob
<1>1. TypeOK
  BY MaxJobsAssumption, ProfilesAssumption DEF TypeOK, Statuses, WorkerStates, CloserStates, Outcomes
<1>2. InvJobs /\ InvUnsettled /\ SequentialPerProfile
  BY MaxJobsAssumption DEF InvJobs, InvUnsettled, SequentialPerProfile, Terminal
<1>3. InvQueue /\ NoLostWakeup
  BY DEF InvQueue, NoLostWakeup
<1>4. InvWorker /\ InvService
  BY DEF InvWorker, InvService, ServiceOK, Holding, Visible
<1>5. InvCloser /\ InvCaller
  BY DEF InvCloser, InvCaller, closed, cancelled
<1> QED BY <1>1, <1>2, <1>3, <1>4, <1>5 DEF IInv

(* The conjunction of what each part of the invariant is preserved by:     *)
(* every critical section of flushmgr.go.                                  *)
LEMMA NextInv == IInv /\ [Next]_vars => IInv'
BY TypeInductive, JobsInductive, QueueInductive, WorkerInductive, UnsettledInductive,
   CloserInductive, CallerInductive, ServiceInductive, WakeupInductive, SequentialInductive
DEF IInv

(* IInv holds in every state the manager reaches, for every set of         *)
(* profiles and callers and every number of jobs.                          *)
THEOREM Invariance == Spec => []IInv
BY InitInv, NextInv, PTL DEF Spec

-----------------------------------------------------------------------------
(* What the invariant gives.                                               *)

(* TypeOK, for every number of profiles, callers and jobs.                 *)
THEOREM TypeCorrect == Spec => []TypeOK
<1>1. IInv => TypeOK
  BY DEF IInv
<1> QED BY <1>1, Invariance, PTL

(* setStatus, Close and failStuckJobs close a job's completion channel     *)
(* exactly once, when it becomes terminal.                                 *)
THEOREM CompletionSignal == Spec => []DoneClosedOnce
<1>1. IInv => DoneClosedOnce
  BY DEF IInv, InvJobs, DoneClosedOnce
<1> QED BY <1>1, Invariance, PTL

(* Enqueue / runWorker: a queued job always has somebody coming for it.    *)
THEOREM Wakeups == Spec => []NoLostWakeup
<1>1. IInv => NoLostWakeup
  BY DEF IInv
<1> QED BY <1>1, Invariance, PTL

(* runWorker: the jobs of a profile are settled in the order of Enqueue.   *)
THEOREM Sequential == Spec => []SequentialPerProfile
<1>1. IInv => SequentialPerProfile
  BY DEF IInv
<1> QED BY <1>1, Invariance, PTL

(* Once Close has begun, no job is left in a queue or to a worker that is  *)
(* gone: an unsettled job is the one its profile's live worker holds.      *)
UnsettledJobHasWorker ==
  closed => \A j \in 1..seq :
    status[j] \notin Terminal => \E p \in Profiles : cur[p] = j /\ worker[p] \notin {"none", "exited"}

(* Close emptied the queues, so what is unsettled was popped before.       *)
LEMMA UnsettledHeld == IInv => UnsettledJobHasWorker
<1> SUFFICES ASSUME IInv, closed, NEW j \in 1..seq, status[j] \notin Terminal
             PROVE  \E p \in Profiles : cur[p] = j /\ worker[p] \notin {"none", "exited"}
  BY DEF UnsettledJobHasWorker
<1>1. TypeOK /\ InvWorker /\ InvUnsettled /\ InvCloser
  BY DEF IInv
<1>2. j \in Jobs /\ j <= seq /\ owner[j] \in Profiles
  BY <1>1, MaxJobsAssumption DEF TypeOK, Jobs
<1>3. cur[owner[j]] = j
  BY <1>1, <1>2 DEF InvUnsettled, InvCloser
<1>4. worker[owner[j]] \in Holding
  BY <1>1, <1>2, <1>3 DEF InvWorker, Jobs, NoJob
<1> QED BY <1>2, <1>3, <1>4 DEF Holding, Visible

(* Close: what it could not settle is in the hands of a running worker.    *)
THEOREM NothingAbandoned == Spec => []UnsettledJobHasWorker
BY UnsettledHeld, Invariance, PTL

(* Close, timed-out branch: failStuckJobs resolves every job but one that  *)
(* is popped and not yet w.active.                                         *)
THEOREM GivenUpIsResolved == Spec => GivingUpResolvesJobs
<1> DEFINE Resolved(j) == \/ status'[j] \in Terminal
                          \/ \E p \in Profiles : cur[p] = j /\ worker[p] = "activate"
           Resolves == closer = "failStuck" /\ closer' # "failStuck" => \A j \in 1..seq : Resolved(j)
<1>1. IInv /\ [Next]_vars => Resolves
  <2> SUFFICES ASSUME IInv, [Next]_vars, closer = "failStuck", closer' # "failStuck", NEW j \in 1..seq
               PROVE  Resolved(j)
    OBVIOUS
  <2>0. TypeOK /\ InvWorker /\ j \in Jobs
    BY MaxJobsAssumption DEF IInv, TypeOK, Jobs
  <2>1. FailStuckJobs
    <3>1. ~(\E c \in Callers : CallerStep(c))
      BY DEF CallerStep, EnsureWorker, Wake, closerVars
    <3>2. ~(\E c \in Callers, p \in Profiles : Enqueue(c, p))
      BY DEF Enqueue, closerVars
    <3>3. ~(\E p \in Profiles : WorkerStep(p) \/ Flush(p))
      BY DEF WorkerStep, PopPending, Wakened, Exit, Activate, MarkRunning, SetStartedAt,
             Service, Build, Publish, Settle, Deactivate, Flush, closerVars
    <3>4. ~UNCHANGED vars /\ ~Close
      BY DEF vars, closerVars, Close
    <3>5. ~(Cancel \/ Joined \/ JoinTimeout \/ SweepEnd \/ \E p \in Profiles : SweepCheck(p) \/ Dispose(p))
      BY DEF Cancel, Joined, JoinTimeout, SweepEnd, SweepCheck, Dispose
    <3> QED BY <3>1, <3>2, <3>3, <3>4, <3>5 DEF Next, CloserStep
  <2>2. CASE status[j] \in Terminal
    BY <2>0, <2>1, <2>2 DEF FailStuckJobs, TypeOK, Terminal
  <2>3. CASE status[j] \notin Terminal
    <3>1. PICK p \in Profiles : cur[p] = j /\ worker[p] \notin {"none", "exited"}
      BY <2>3, UnsettledHeld DEF UnsettledJobHasWorker, closed
    <3>2. CASE worker[p] = "activate"
      BY <3>1, <3>2
    <3>3. CASE worker[p] # "activate"
      <4>1. active[p] = j
        BY <2>0, <3>1, <3>3 DEF InvWorker, Holding, Visible, Jobs, NoJob
      <4>2. status'[j] = "failed" \/ j \in finalized
        BY <2>0, <2>1, <3>1, <4>1 DEF FailStuckJobs, Stuck, Live, TypeOK
      <4>3. j \notin finalized
        BY <2>0, <2>3 DEF IInv, InvJobs, Terminal
      <4> QED BY <4>2, <4>3 DEF Terminal
    <3> QED BY <3>2, <3>3
  <2> QED BY <2>2, <2>3
<1> QED BY <1>1, Invariance, PTL DEF Spec, GivingUpResolvesJobs

(* Close, joined branch: no worker, no open job and no service are left.   *)
THEOREM JoinedIsQuiescent == Spec => []QuiescentAfterJoin
<1>1. IInv => QuiescentAfterJoin
  <2> SUFFICES ASSUME IInv, closer = "joined"
               PROVE  /\ \A p \in Profiles : worker[p] \in {"none", "exited"} /\ handles[p] = 0
                      /\ \A j \in 1..seq : status[j] \in Terminal
    BY DEF QuiescentAfterJoin
  <2>1. \A p \in Profiles : worker[p] \in {"none", "exited"}
    BY DEF IInv, InvCloser
  <2>2. \A p \in Profiles : handles[p] = 0
    BY <2>1 DEF IInv, InvService, ServiceOK
  <2>3. \A j \in 1..seq : status[j] \in Terminal
    BY <2>1, UnsettledHeld DEF UnsettledJobHasWorker, closed
  <2> QED BY <2>1, <2>2, <2>3
<1> QED BY <1>1, Invariance, PTL

(* Close, timed-out branch: the service of a flush it gave up on is open.  *)
THEOREM StuckServiceOpen == Spec => []StuckWorkerKeepsService
<1>1. IInv => StuckWorkerKeepsService
  BY DEF IInv, InvService, ServiceOK, StuckWorkerKeepsService, TypeOK, Holding, Visible
<1> QED BY <1>1, Invariance, PTL

(* setStatus / setStartedAt / failStuckJobs: no step touches a failed job. *)
THEOREM FailedJobsStay == Spec => FailedIsFinal
<1> DEFINE Stays == \A j \in Jobs : status[j] = "failed" =>
                      status'[j] = "failed" /\ closes'[j] = closes[j] /\ (j \in started' <=> j \in started)
<1>1. IInv /\ [Next]_vars => Stays
  <2> SUFFICES ASSUME IInv, [Next]_vars, NEW j \in Jobs, status[j] = "failed"
               PROVE  status'[j] = "failed" /\ closes'[j] = closes[j] /\ (j \in started' <=> j \in started)
    OBVIOUS
  <2>0. TypeOK /\ InvJobs /\ InvQueue /\ InvWorker
    BY DEF IInv
  <2>1. ASSUME NEW c \in Callers, NEW p \in Profiles, Enqueue(c, p)
        PROVE  status'[j] = "failed" /\ UNCHANGED <<closes, started>>
    <3>1. j # seq + 1
      BY <2>0 DEF InvJobs, TypeOK, Jobs
    <3> QED BY <2>0, <2>1, <3>1 DEF Enqueue, TypeOK
  <2>2. ASSUME NEW p \in Profiles, MarkRunning(p) \/ Settle(p)
        PROVE  status'[j] = "failed" /\ closes'[j] = closes[j] /\ started' = started
    <3>1. j = cur[p] => j \in finalized
      BY <2>0, <2>2 DEF MarkRunning, Settle, InvWorker, Holding, Visible
    <3> QED BY <2>0, <2>2, <3>1 DEF MarkRunning, Settle, SetStatus, TypeOK
  <2>3. ASSUME NEW p \in Profiles, SetStartedAt(p)
        PROVE  UNCHANGED <<status, closes>> /\ (j \in started' <=> j \in started)
    <3>1. j = cur[p] => j \in finalized
      BY <2>0, <2>3 DEF SetStartedAt, InvWorker, Holding, Visible
    <3> QED BY <2>3, <3>1 DEF SetStartedAt
  <2>4. ASSUME Close PROVE status'[j] = "failed" /\ closes'[j] = closes[j] /\ started' = started
    BY <2>0, <2>4 DEF Close, InvJobs, TypeOK, Terminal
  <2>5. ASSUME FailStuckJobs PROVE status'[j] = "failed" /\ closes'[j] = closes[j] /\ started' = started
    BY <2>0, <2>5 DEF FailStuckJobs, InvJobs, TypeOK, Terminal
  <2>6. ASSUME NEW c \in Callers, CallerStep(c) PROVE UNCHANGED <<status, closes, started>>
    BY <2>6 DEF CallerStep, EnsureWorker, Wake, jobVars
  <2>7. ASSUME NEW p \in Profiles,
               \/ PopPending(p) \/ Wakened(p) \/ Exit(p) \/ Activate(p) \/ Service(p) \/ Build(p)
               \/ Publish(p) \/ Flush(p) \/ Deactivate(p)
        PROVE  UNCHANGED <<status, closes, started>>
    BY <2>7 DEF PopPending, Wakened, Exit, Activate, Service, Build, Publish, Flush, Deactivate, jobVars
  <2>8. ASSUME \/ Cancel \/ Joined \/ JoinTimeout \/ SweepEnd
               \/ \E p \in Profiles : SweepCheck(p) \/ Dispose(p)
        PROVE  UNCHANGED <<status, closes, started>>
    BY <2>8 DEF Cancel, Joined, JoinTimeout, SweepEnd, SweepCheck, Dispose, jobVars
  <2>9. ASSUME UNCHANGED vars PROVE UNCHANGED <<status, closes, started>>
    BY <2>9 DEF vars, jobVars
  <2> QED
    BY <2>1, <2>2, <2>3, <2>4, <2>5, <2>6, <2>7, <2>8, <2>9
    DEF Next, WorkerStep, CloserStep
<1> QED BY <1>1, Invariance, PTL DEF Spec, FailedIsFinal
-----------------------------------------------------------------------------
(* A request whose profile has no worker yet has a job nobody has begun.   *)
UnservedInv ==
  \A c \in Callers : caller[c] = "ensure" /\ ~Live(owner[request[c]]) =>
    status[request[c]] \in {"queued", "failed"}

(* The job of a refused request was failed, or a worker that another       *)
(* request created has flushed it or holds it.                             *)
RefusedJobIsFailedOrServed ==
  \A c \in Callers : (caller[c] = "ensure" /\ closed /\ status[request[c]] # "failed") =>
    /\ Live(owner[request[c]])
    /\ status[request[c]] = "done" \/ cur[owner[request[c]]] = request[c]

LEMMA UnservedInductive == IInv /\ UnservedInv /\ [Next]_vars => UnservedInv'
<1> SUFFICES ASSUME IInv, UnservedInv, [Next]_vars PROVE UnservedInv'
  OBVIOUS
<1>0. TypeOK /\ InvJobs /\ InvWorker /\ InvCaller
  BY DEF IInv
<1>1. ASSUME NEW c \in Callers, caller'[c] = "ensure", worker'[owner'[request'[c]]] = "none",
             UNCHANGED <<owner, request>>, caller[c] = "ensure",
             worker[owner[request[c]]] = "none" => status'[request[c]] \in {status[request[c]], "failed"},
             worker'[owner[request[c]]] = "none" => worker[owner[request[c]]] = "none"
      PROVE  status'[request'[c]] \in {"queued", "failed"}
  BY <1>1 DEF UnservedInv, Live
<1>2. ASSUME NEW c \in Callers, caller[c] = "ensure" PROVE request[c] \in Jobs /\ owner[request[c]] \in Profiles
  BY <1>0, <1>2, MaxJobsAssumption DEF InvCaller, TypeOK, Jobs
<1>3. ASSUME NEW b \in Callers, NEW p \in Profiles, Enqueue(b, p) PROVE UnservedInv'
  <2>1. SUFFICES ASSUME NEW c \in Callers, caller'[c] = "ensure", worker'[owner'[request'[c]]] = "none"
                 PROVE  status'[request'[c]] \in {"queued", "failed"}
    BY DEF UnservedInv, Live
  <2>2. CASE c = b
    BY <1>0, <1>3, <2>2, MaxJobsAssumption DEF Enqueue, TypeOK, Jobs
  <2>3. CASE c # b
    <3>1. caller[c] = "ensure" /\ request'[c] = request[c] /\ worker' = worker
      BY <1>0, <1>3, <2>1, <2>3 DEF Enqueue, TypeOK, workerVars
    <3>2. request[c] # seq + 1
      <4>1. request[c] \in 1..seq /\ seq \in Nat
        BY <1>0, <3>1, MaxJobsAssumption DEF InvCaller, TypeOK
      <4> QED BY <4>1
    <3>3. owner'[request[c]] = owner[request[c]] /\ status'[request[c]] = status[request[c]]
      BY <1>0, <1>2, <1>3, <3>1, <3>2 DEF Enqueue, TypeOK
    <3> QED BY <2>1, <3>1, <3>3 DEF UnservedInv, Live
  <2> QED BY <2>2, <2>3
<1>4. ASSUME NEW b \in Callers, CallerStep(b) PROVE UnservedInv'
  <2>1. UNCHANGED <<owner, request, status>>
    BY <1>4 DEF CallerStep, EnsureWorker, Wake, jobVars
  <2>2. \A c \in Callers : caller'[c] = "ensure" => caller[c] = "ensure"
    BY <1>0, <1>4 DEF CallerStep, EnsureWorker, Wake, TypeOK
  <2>3. \A p \in Profiles : worker'[p] = "none" => worker[p] = "none"
    BY <1>0, <1>4 DEF CallerStep, EnsureWorker, Wake, TypeOK, workerVars
  <2> QED BY <1>2, <2>1, <2>2, <2>3 DEF UnservedInv, Live
<1>5. ASSUME NEW p \in Profiles, WorkerStep(p) \/ Flush(p) PROVE UnservedInv'
  <2>1. /\ UNCHANGED <<owner, request, caller>> /\ worker[p] # "none"
        /\ \A q \in Profiles : worker'[q] = "none" => worker[q] = "none"
    <3>1. UNCHANGED <<owner, request, caller>> /\ worker[p] # "none"
      BY <1>5 DEF WorkerStep, PopPending, Wakened, Exit, Activate, MarkRunning, SetStartedAt,
         Service, Build, Publish, Settle, Deactivate, Flush, jobVars, callerVars
    <3>2. \E s : s # "none" /\ To(p, s)
      BY <1>5 DEF WorkerStep, PopPending, Wakened, Exit, Activate, MarkRunning, SetStartedAt,
         Service, Build, Publish, Settle, Deactivate, Flush, FailWith
    <3>3. worker'[p] # "none" /\ \A q \in Profiles \ {p} : worker'[q] = worker[q]
      BY <1>0, <3>2 DEF To, TypeOK
    <3> QED BY <3>1, <3>3
  <2>2. UNCHANGED status \/ \E s : worker[p] \in Holding /\ (UNCHANGED status \/ status' = [status EXCEPT ![cur[p]] = s])
    BY <1>5 DEF WorkerStep, PopPending, Wakened, Exit, Activate, MarkRunning, SetStartedAt, SetStatus,
       Service, Build, Publish, Settle, Deactivate, Flush, jobVars, Holding, Visible
  <2>3. ASSUME NEW c \in Callers, caller[c] = "ensure", worker[owner[request[c]]] = "none"
        PROVE  status'[request[c]] = status[request[c]]
    <3>1. worker[p] \in Holding => request[c] # cur[p]
      BY <1>0, <2>1, <2>3 DEF InvWorker
    <3> QED BY <1>0, <1>2, <2>2, <2>3, <3>1 DEF TypeOK
  <2> QED BY <1>2, <2>1, <2>3 DEF UnservedInv, Live
<1>6. CASE Close \/ CloserStep
  <2>1. UNCHANGED <<owner, request, caller, worker>>
    BY <1>6 DEF Close, CloserStep, Cancel, Joined, JoinTimeout, FailStuckJobs, SweepEnd,
       SweepCheck, Dispose, jobVars, callerVars, workerVars
  <2>2. \A j \in Jobs : status'[j] \in {status[j], "failed"}
    <3>1. CASE Close \/ FailStuckJobs
      BY <1>0, <3>1 DEF Close, FailStuckJobs, TypeOK
    <3>2. CASE UNCHANGED status
      BY <3>2
    <3> QED BY <1>6, <3>1, <3>2 DEF CloserStep, Cancel, Joined, JoinTimeout, SweepEnd, SweepCheck, Dispose, jobVars
  <2> QED BY <1>2, <2>1, <2>2 DEF UnservedInv, Live
<1>7. CASE UNCHANGED vars
  BY <1>7 DEF vars, jobVars, callerVars, workerVars, UnservedInv, Live
<1> QED BY <1>3, <1>4, <1>5, <1>6, <1>7 DEF Next

(* What remains true of "The job was already marked failed by Close()"     *)
(* (flushmgr.go:129): a job that Enqueue refuses is failed unless a worker *)
(* that another request created between Enqueue's two critical sections    *)
(* has popped it; that one has flushed it or still holds it.               *)
THEOREM RefusedJobs == Spec => []RefusedJobIsFailedOrServed
<1>1. Init => UnservedInv
  BY DEF Init, UnservedInv
<1>2. IInv /\ UnservedInv => RefusedJobIsFailedOrServed
  <2> SUFFICES ASSUME IInv, UnservedInv, NEW c \in Callers, caller[c] = "ensure", closed,
                      status[request[c]] # "failed"
               PROVE  /\ Live(owner[request[c]])
                      /\ status[request[c]] = "done" \/ cur[owner[request[c]]] = request[c]
    BY DEF RefusedJobIsFailedOrServed
  <2> DEFINE j == request[c]
  <2>1. j \in 1..seq /\ j \in Jobs /\ owner[j] \in Profiles /\ j # NoJob
    BY MaxJobsAssumption DEF IInv, InvCaller, TypeOK, Jobs, NoJob
  <2>2. status[j] \in Terminal \/ cur[owner[j]] = j
    BY <2>1 DEF IInv, InvUnsettled, InvCloser, TypeOK
  <2>3. cur[owner[j]] = j => worker[owner[j]] \in Holding
    BY <2>1 DEF IInv, InvWorker
  <2>4. cur[owner[j]] = j => Live(owner[j])
    BY <2>3 DEF Holding, Visible, Live
  <2>5. status[j] \in Terminal => Live(owner[j])
    BY DEF UnservedInv, Terminal
  <2> QED BY <2>2, <2>4, <2>5 DEF Terminal
<1>3. IInv /\ [Next]_vars => IInv'
  BY NextInv
<1> QED BY <1>1, <1>2, <1>3, InitInv, UnservedInductive, PTL DEF Spec
=============================================================================
