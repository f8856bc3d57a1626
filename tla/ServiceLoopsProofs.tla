------------------------- MODULE ServiceLoopsProofs -------------------------
(***************************************************************************)
(* The safety properties of ServiceLoops hold for every set of loops and   *)
(* profiles and every number of services.                                  *)
(***************************************************************************)
EXTENDS ServiceLoops, TLAPS

(* No service is in two places of the caches.                              *)
OnePlaceEach ==
  \A l, k \in Loops, p, q \in Profiles :
    (svcs[l][p] # NoService /\ svcs[l][p] = svcs[k][q]) => l = k /\ p = q

(* The caches hold the open services, and nothing else.                    *)
CacheInv ==
  /\ \A l \in Loops, p \in Profiles :
       svcs[l][p] # NoService =>
         /\ svcs[l][p] <= built
         /\ closes[svcs[l][p]] = 0
         /\ l \notin closed
  /\ OnePlaceEach
  /\ \A i \in Services :
       /\ closes[i] <= 1
       /\ i > built => closes[i] = 0
       /\ i <= built /\ closes[i] = 0 => \E l \in Loops, p \in Profiles : svcs[l][p] = i

(* A tick drains the service that its loop caches for the profile.         *)
DrainInv ==
  \A l \in Loops :
    worker[l] \in {"drain", "call"} =>
      /\ using[l] # NoService
      /\ using[l] = svcs[l][cur[l]] \/ l \in closed

(* Once Shutdown was called the context of every worker is cancelled.      *)
ShutdownInv ==
  /\ ~started => launching = {} /\ \A l \in Loops : worker[l] = "off"
  /\ down # "no" /\ started => cancelled
  /\ NoWorkAfterShutdown

IInv == TypeOK /\ CacheInv /\ DrainInv /\ ShutdownInv

-----------------------------------------------------------------------------
(* Closing cached services: what is closed leaves the cache.               *)
LEMMA CloseServicesFacts ==
  ASSUME TypeOK, NEW l \in Loops, NEW S \in SUBSET Profiles, CloseServices(l, S)
  PROVE  /\ svcs' \in [Loops -> [Profiles -> {NoService} \cup Services]]
         /\ closes' \in [Services -> Nat]
         /\ \A k \in Loops, p \in Profiles :
              svcs'[k][p] = IF k = l /\ p \in S THEN NoService ELSE svcs[k][p]
         /\ \A i \in Services :
              closes'[i] = IF \E p \in S : svcs[l][p] = i THEN closes[i] + 1 ELSE closes[i]
<1> DEFINE ids == {svcs[l][p] : p \in S} \ {NoService}
           row == [p \in Profiles |-> IF p \in S THEN NoService ELSE svcs[l][p]]
<1>1. /\ svcs \in [Loops -> [Profiles -> {NoService} \cup Services]]
      /\ closes \in [Services -> Nat]
  BY DEF TypeOK
<1>2. /\ closes' = [i \in Services |-> IF i \in ids THEN closes[i] + 1 ELSE closes[i]]
      /\ svcs' = [svcs EXCEPT ![l] = row]
  BY DEF CloseServices
<1>3. row \in [Profiles -> {NoService} \cup Services]
  BY <1>1
<1>4. svcs' \in [Loops -> [Profiles -> {NoService} \cup Services]]
  BY <1>1, <1>2, <1>3
<1>5. closes' \in [Services -> Nat]
  BY <1>1, <1>2
<1>6. ASSUME NEW k \in Loops, NEW p \in Profiles
      PROVE  svcs'[k][p] = IF k = l /\ p \in S THEN NoService ELSE svcs[k][p]
  <2>1. CASE k = l  BY <1>1, <1>2, <2>1
  <2>2. CASE k # l  BY <1>1, <1>2, <2>2
  <2> QED BY <2>1, <2>2
<1>7. ASSUME NEW i \in Services
      PROVE  closes'[i] = IF \E p \in S : svcs[l][p] = i THEN closes[i] + 1 ELSE closes[i]
  <2>1. i # NoService
    BY MaxServicesAssumption DEF Services, NoService
  <2>2. i \in ids <=> \E p \in S : svcs[l][p] = i
    BY <2>1
  <2> QED BY <1>2, <2>2
<1> QED
  BY <1>4, <1>5, <1>6, <1>7

(* It keeps the cache consistent, also when the loop is closed with it.    *)
LEMMA CloseServicesKeepsCache ==
  ASSUME TypeOK, CacheInv, NEW l \in Loops, NEW S \in SUBSET Profiles,
         CloseServices(l, S), built' = built,
         closed' = closed \/ (closed' = closed \cup {l} /\ S = Profiles)
  PROVE  CacheInv'
<1>1. /\ \A k \in Loops, p \in Profiles :
           svcs'[k][p] = IF k = l /\ p \in S THEN NoService ELSE svcs[k][p]
      /\ \A i \in Services :
           closes'[i] = IF \E p \in S : svcs[l][p] = i THEN closes[i] + 1 ELSE closes[i]
  BY CloseServicesFacts
<1>2. /\ svcs \in [Loops -> [Profiles -> {NoService} \cup Services]]
      /\ closes \in [Services -> Nat] /\ S \subseteq Profiles
  BY DEF TypeOK
<1>3. ASSUME NEW k \in Loops, NEW p \in Profiles, svcs'[k][p] # NoService
      PROVE  /\ svcs'[k][p] <= built'
             /\ closes'[svcs'[k][p]] = 0
             /\ k \notin closed'
  <2>1. svcs'[k][p] = svcs[k][p] /\ ~(k = l /\ p \in S)
    BY <1>1, <1>3
  <2>2. svcs[k][p] \in Services
    BY <1>2, <1>3, <2>1
  <2>3. svcs[k][p] <= built /\ closes[svcs[k][p]] = 0 /\ k \notin closed
    BY <1>3, <2>1 DEF CacheInv
  <2>4. ~ \E q \in S : svcs[l][q] = svcs[k][p]
    <3>1. OnePlaceEach
      BY DEF CacheInv
    <3> QED BY <1>2, <1>3, <2>1, <3>1 DEF OnePlaceEach
  <2>5. closes'[svcs[k][p]] = 0
    BY <1>1, <2>2, <2>3, <2>4
  <2>6. k \notin closed'
    BY <2>1, <2>3
  <2> QED BY <2>1, <2>3, <2>5, <2>6
<1>4. ASSUME NEW j \in Loops, NEW k \in Loops, NEW p \in Profiles, NEW q \in Profiles,
             svcs'[j][p] # NoService, svcs'[j][p] = svcs'[k][q]
      PROVE  j = k /\ p = q
  <2>1. svcs'[j][p] = svcs[j][p] /\ svcs'[k][q] = svcs[k][q]
    BY <1>1, <1>4
  <2>2. (svcs[j][p] # NoService /\ svcs[j][p] = svcs[k][q]) => j = k /\ p = q
    BY DEF CacheInv, OnePlaceEach
  <2> QED BY <1>4, <2>1, <2>2
<1>5. ASSUME NEW i \in Services
      PROVE  /\ closes'[i] <= 1
             /\ i > built' => closes'[i] = 0
             /\ i <= built' /\ closes'[i] = 0 => \E k \in Loops, p \in Profiles : svcs'[k][p] = i
  <2>1. i # NoService /\ i \in Nat /\ closes[i] \in Nat
    BY <1>2, MaxServicesAssumption DEF Services, NoService
  <2>2. CASE \E p \in S : svcs[l][p] = i
    <3>1. PICK p \in S : svcs[l][p] = i
      BY <2>2
    <3>2. i <= built /\ closes[i] = 0
      <4>1. p \in Profiles /\ svcs[l][p] # NoService
        BY <1>2, <2>1, <3>1
      <4> QED BY <3>1, <4>1 DEF CacheInv
    <3>3. closes'[i] = 1
      BY <1>1, <2>2, <3>2
    <3>4. built \in Nat
      BY MaxServicesAssumption DEF TypeOK
    <3> QED BY <2>1, <3>2, <3>3, <3>4
  <2>3. CASE ~ \E p \in S : svcs[l][p] = i
    <3>1. closes'[i] = closes[i]
      BY <1>1, <2>3
    <3>2. ASSUME NEW k \in Loops, NEW p \in Profiles, svcs[k][p] = i
          PROVE  svcs'[k][p] = i
      BY <1>1, <2>3, <3>2
    <3> QED BY <3>1, <3>2 DEF CacheInv
  <2> QED BY <2>2, <2>3
<1> QED
  BY <1>3, <1>4, <1>5 DEF CacheInv, OnePlaceEach

(* Building a service for a profile without one keeps it consistent.       *)
LEMMA BuildKeepsCache ==
  ASSUME TypeOK, CacheInv, NEW l \in Loops, NEW p \in Profiles,
         Build(l, p), l \notin closed, svcs[l][p] = NoService,
         UNCHANGED <<closes, closed>>
  PROVE  /\ CacheInv'
         /\ built' \in 0..MaxServices /\ built' # NoService /\ built' \in Services
         /\ svcs' \in [Loops -> [Profiles -> {NoService} \cup Services]]
         /\ svcs'[l][p] = built'
         /\ \A k \in Loops : k # l => svcs'[k] = svcs[k]
<1>1. /\ built' = built + 1 /\ built < MaxServices
      /\ svcs' = [svcs EXCEPT ![l][p] = built + 1]
  BY DEF Build
<1>2. /\ svcs \in [Loops -> [Profiles -> {NoService} \cup Services]]
      /\ built \in Nat /\ built + 1 \in Services
  BY <1>1, MaxServicesAssumption DEF TypeOK, Services
<1>3. /\ built' \in 0..MaxServices /\ built' # NoService /\ built' \in Services
  BY <1>1, <1>2, MaxServicesAssumption DEF Services, NoService
<1>4. svcs' \in [Loops -> [Profiles -> {NoService} \cup Services]]
  BY <1>1, <1>2
<1>5. /\ svcs'[l][p] = built'
      /\ \A k \in Loops : k # l => svcs'[k] = svcs[k]
      /\ \A k \in Loops, q \in Profiles : (k # l \/ q # p) => svcs'[k][q] = svcs[k][q]
  BY <1>1, <1>2
<1>6. \A k \in Loops, q \in Profiles : svcs[k][q] # built'
  <2> SUFFICES ASSUME NEW k \in Loops, NEW q \in Profiles, svcs[k][q] = built' PROVE FALSE
    OBVIOUS
  <2>1. svcs[k][q] <= built
    BY <1>3 DEF CacheInv
  <2> QED BY <1>1, <1>2, <2>1
<1>7. ASSUME NEW k \in Loops, NEW q \in Profiles, svcs'[k][q] # NoService
      PROVE  /\ svcs'[k][q] <= built' /\ closes'[svcs'[k][q]] = 0 /\ k \notin closed'
  <2>1. CASE k = l /\ q = p
    <3>1. closes[built'] = 0
      BY <1>1, <1>2, <1>3 DEF CacheInv
    <3> QED BY <1>1, <1>2, <1>5, <2>1, <3>1
  <2>2. CASE k # l \/ q # p
    <3>1. svcs'[k][q] = svcs[k][q] /\ svcs[k][q] \in Services
      BY <1>2, <1>5, <1>7, <2>2
    <3>2. svcs[k][q] <= built /\ closes[svcs[k][q]] = 0 /\ k \notin closed
      BY <1>7, <3>1 DEF CacheInv
    <3> QED BY <1>1, <1>2, <3>1, <3>2 DEF Services
  <2> QED BY <2>1, <2>2
<1>8. ASSUME NEW j \in Loops, NEW k \in Loops, NEW q \in Profiles, NEW r \in Profiles,
             svcs'[j][q] # NoService, svcs'[j][q] = svcs'[k][r]
      PROVE  j = k /\ q = r
  <2>1. CASE j = l /\ q = p
    BY <1>5, <1>6, <1>8, <2>1
  <2>2. CASE k = l /\ r = p
    BY <1>5, <1>6, <1>8, <2>2
  <2>3. CASE ~(j = l /\ q = p) /\ ~(k = l /\ r = p)
    <3>1. svcs'[j][q] = svcs[j][q] /\ svcs'[k][r] = svcs[k][r]
      BY <1>5, <2>3
    <3>2. (svcs[j][q] # NoService /\ svcs[j][q] = svcs[k][r]) => j = k /\ q = r
      BY DEF CacheInv, OnePlaceEach
    <3> QED BY <1>8, <3>1, <3>2
  <2> QED BY <2>1, <2>2, <2>3
<1>9. ASSUME NEW i \in Services
      PROVE  /\ closes'[i] <= 1
             /\ i > built' => closes'[i] = 0
             /\ i <= built' /\ closes'[i] = 0 => \E k \in Loops, q \in Profiles : svcs'[k][q] = i
  <2>1. closes'[i] = closes[i] /\ i \in Nat /\ i # NoService
    BY MaxServicesAssumption DEF Services, NoService
  <2>2. closes'[i] <= 1 /\ (i > built' => closes'[i] = 0)
    BY <1>1, <1>2, <2>1 DEF CacheInv
  <2>3. CASE i = built'
    BY <1>5, <2>2, <2>3
  <2>4. CASE i # built'
    <3>1. i <= built' => i <= built
      BY <1>1, <1>2, <2>1, <2>4
    <3>2. ASSUME i <= built, closes[i] = 0 PROVE \E k \in Loops, q \in Profiles : svcs'[k][q] = i
      <4>1. PICK k \in Loops, q \in Profiles : svcs[k][q] = i
        BY <3>2 DEF CacheInv
      <4>2. k # l \/ q # p
        BY <2>1, <4>1
      <4> QED BY <1>5, <4>1, <4>2
    <3> QED BY <2>1, <2>2, <3>1, <3>2
  <2> QED BY <2>3, <2>4
<1>10. CacheInv'
  BY <1>7, <1>8, <1>9 DEF CacheInv, OnePlaceEach
<1> QED
  BY <1>3, <1>4, <1>5, <1>10

-----------------------------------------------------------------------------
(* The types are kept by every step.                                       *)
LEMMA TypeStep ==
  ASSUME TypeOK, Next
  PROVE  TypeOK'
<1> USE DEF schedVars, wakeVars, tickVars, svcVars, idleVars, To, WorkerAt, WorkerStates
<1>1. CASE Start  BY <1>1 DEF TypeOK, Start
<1>2. CASE Shutdown  BY <1>2 DEF TypeOK, Shutdown
<1>3. CASE ShutdownReturn  BY <1>3 DEF TypeOK, ShutdownReturn
<1>4. CASE CancelContext  BY <1>4 DEF TypeOK, CancelContext
<1>5. ASSUME NEW l \in Loops, Launch(l) PROVE TypeOK'
  BY <1>5 DEF TypeOK, Launch
<1>6. ASSUME NEW l \in Loops, TriggerNow(l) PROVE TypeOK'
  BY <1>6 DEF TypeOK, TriggerNow
<1>7. ASSUME NEW l \in Loops, Close(l) PROVE TypeOK'
  <2>1. /\ svcs' \in [Loops -> [Profiles -> {NoService} \cup Services]]
        /\ closes' \in [Services -> Nat]
    BY <1>7, CloseServicesFacts DEF Close
  <2> QED BY <1>7, <2>1 DEF TypeOK, Close
<1>8. ASSUME NEW l \in Loops, TimerTick(l) PROVE TypeOK'
  BY <1>8 DEF TypeOK, TimerTick
<1>9. ASSUME NEW l \in Loops, TriggerTick(l) PROVE TypeOK'
  BY <1>9 DEF TypeOK, TriggerTick
<1>10. ASSUME NEW l \in Loops, Exit(l) PROVE TypeOK'
  BY <1>10 DEF TypeOK, Exit
<1>11. ASSUME NEW l \in Loops, Begin(l) PROVE TypeOK'
  BY <1>11 DEF TypeOK, Begin, EndTick
<1>12. ASSUME NEW l \in Loops, Retire(l) PROVE TypeOK'
  <2> DEFINE gone == {p \in Profiles : svcs[l][p] # NoService /\ p \notin todo[l]}
  <2>1. /\ svcs' \in [Loops -> [Profiles -> {NoService} \cup Services]]
        /\ closes' \in [Services -> Nat]
    <3>1. CloseServices(l, gone)  BY <1>12 DEF Retire
    <3>2. gone \in SUBSET Profiles  OBVIOUS
    <3> QED BY <3>1, <3>2, CloseServicesFacts
  <2>2. last' \in [Loops -> SUBSET Profiles] /\ aged' \in [Loops -> SUBSET Profiles]
    BY <1>12 DEF TypeOK, Retire
  <2>3. worker' \in [Loops -> WorkerStates]
    BY <1>12 DEF TypeOK, Retire
  <2> QED BY <1>12, <2>1, <2>2, <2>3 DEF TypeOK, Retire
<1>13. ASSUME NEW l \in Loops, NextProfile(l) PROVE TypeOK'
  <2>1. CASE EndTick(l, FALSE) \/ EndTick(l, l \in rerun)
    <3>1. UNCHANGED <<schedVars, trigger, cur, accessible, svcVars, idleVars>>
      BY <1>13, <2>1 DEF TypeOK, NextProfile, EndTick
    <3> QED BY <2>1, <3>1 DEF TypeOK, EndTick
  <2>2. CASE To(l, "ensure")
    <3>1. PICK p \in todo[l] : /\ cur' = [cur EXCEPT ![l] = p]
                               /\ todo' = [todo EXCEPT ![l] = todo[l] \ {p}]
      BY <1>13, <2>2 DEF TypeOK, NextProfile, EndTick
    <3>2. UNCHANGED <<schedVars, trigger, accessible, svcVars, idleVars, due, using, drained, rerun>>
      BY <1>13, <2>2 DEF TypeOK, NextProfile, EndTick
    <3> QED BY <2>2, <3>1, <3>2 DEF TypeOK
  <2>3. CASE To(l, "idleClose")
    <3>1. UNCHANGED <<schedVars, wakeVars, accessible, svcVars, idleVars, todo, cur, using, drained, rerun>>
      BY <1>13, <2>3 DEF TypeOK, NextProfile, EndTick
    <3> QED BY <2>3, <3>1 DEF TypeOK
  <2> QED BY <1>13, <2>1, <2>2, <2>3 DEF NextProfile
<1>14. ASSUME NEW l \in Loops, EnsureService(l) PROVE TypeOK'
  <2> DEFINE p == cur[l]
  <2>0. p \in Profiles  BY DEF TypeOK
  <2>1. CASE svcs[l][p] = NoService /\ Build(l, p)
    <3>1. /\ built' \in 0..MaxServices /\ built' \in Services
          /\ svcs' \in [Loops -> [Profiles -> {NoService} \cup Services]]
      BY <2>0, <2>1, MaxServicesAssumption DEF TypeOK, Build, Services
    <3>2. using' \in [Loops -> {NoService} \cup Services]
      BY <2>1, <3>1 DEF TypeOK, Build
    <3>3. last' \in [Loops -> SUBSET Profiles] /\ aged' \in [Loops -> SUBSET Profiles]
      <4>1. CASE l \in SyncLoops /\ cur[l] \notin last[l]
        <5>1. last' = [last EXCEPT ![l] = last[l] \cup {cur[l]}] /\ aged' = aged
          BY <2>1, <4>1 DEF Build
        <5> QED BY <2>0, <5>1 DEF TypeOK
      <4>2. CASE ~(l \in SyncLoops /\ cur[l] \notin last[l])
        <5>1. last' = last /\ aged' = aged
          BY <2>1, <4>2 DEF Build
        <5> QED BY <5>1 DEF TypeOK
      <4> QED BY <4>1, <4>2
    <3>4. worker' \in [Loops -> WorkerStates]
      BY <2>1 DEF TypeOK, Build, StartDrain
    <3> QED BY <1>14, <3>1, <3>2, <3>3, <3>4 DEF TypeOK, EnsureService
  <2>2. CASE ~(svcs[l][p] = NoService /\ Build(l, p))
    <3>1. UNCHANGED <<svcs, built, idleVars>>
      BY <1>14, <2>2 DEF EnsureService
    <3>2. using' \in [Loops -> {NoService} \cup Services]
      BY <1>14, <2>0, <2>2 DEF TypeOK, EnsureService
    <3>3. worker' \in [Loops -> WorkerStates]
      BY <1>14, <2>2 DEF TypeOK, EnsureService, StartDrain
    <3> QED BY <1>14, <3>1, <3>2, <3>3 DEF TypeOK, EnsureService
  <2> QED BY <2>1, <2>2
<1>15. ASSUME NEW l \in Loops, Drain(l) PROVE TypeOK'
  BY <1>15 DEF TypeOK, Drain, DrainTo, AfterDrain
<1>16. ASSUME NEW l \in Loops, NoteActivity(l) PROVE TypeOK'
  BY <1>16 DEF TypeOK, NoteActivity
<1>17. ASSUME NEW l \in Loops, CloseIdle(l) PROVE TypeOK'
  <2> DEFINE idle == {p \in last[l] : svcs[l][p] # NoService /\ p \in aged[l]}
  <2>1. /\ svcs' \in [Loops -> [Profiles -> {NoService} \cup Services]]
        /\ closes' \in [Services -> Nat]
    <3>1. CloseServices(l, idle)  BY <1>17 DEF CloseIdle
    <3>2. idle \in SUBSET Profiles  BY DEF TypeOK
    <3> QED BY <3>1, <3>2, CloseServicesFacts
  <2>2. last' \in [Loops -> SUBSET Profiles] /\ aged' \in [Loops -> SUBSET Profiles]
    BY <1>17 DEF TypeOK, CloseIdle
  <2>3. /\ worker' \in [Loops -> WorkerStates] /\ todo' \in [Loops -> SUBSET Profiles]
        /\ using' \in [Loops -> {NoService} \cup Services]
        /\ due' \subseteq Loops /\ drained' \subseteq Loops /\ rerun' \subseteq Loops
    BY <1>17 DEF TypeOK, CloseIdle, EndTick
  <2> QED BY <1>17, <2>1, <2>2, <2>3 DEF TypeOK, CloseIdle
<1>18. ASSUME NEW l \in Loops, SyncFull(l) PROVE TypeOK'
  BY <1>18 DEF TypeOK, SyncFull
<1>19. ASSUME NEW l \in Loops, SyncLast(l) PROVE TypeOK'
  BY <1>19 DEF TypeOK, SyncLast, DrainTo, AfterDrain
<1>20. ASSUME NEW l \in Loops, Flush(l) PROVE TypeOK'
  BY <1>20 DEF TypeOK, Flush, DrainTo
<1>21. ASSUME NEW l \in Loops, Recover(l) PROVE TypeOK'
  BY <1>21 DEF TypeOK, Recover, EndTick
<1>22. ASSUME NEW p \in Profiles, Forget(p) \/ Register(p) PROVE TypeOK'
  BY <1>22 DEF TypeOK, Forget, Register
<1> QED
  BY <1>1, <1>2, <1>3, <1>4, <1>5, <1>6, <1>7, <1>8, <1>9, <1>10, <1>11, <1>12, <1>13, <1>14,
     <1>15, <1>16, <1>17, <1>18, <1>19, <1>20, <1>21, <1>22
     DEF Next, WorkerStep, ServiceCall

-----------------------------------------------------------------------------
(* What every step does to the caches: it leaves them, closes some services *)
(* or caches one that it built.                                             *)
LEMMA CacheStep ==
  ASSUME TypeOK, CacheInv, Next
  PROVE  CacheInv'
<1> USE DEF schedVars, wakeVars, tickVars, svcVars, idleVars
<1>1. ASSUME UNCHANGED svcVars PROVE CacheInv'
  BY <1>1 DEF CacheInv, OnePlaceEach
<1>2. CASE Start \/ Shutdown \/ ShutdownReturn \/ CancelContext
  BY <1>1, <1>2 DEF Start, Shutdown, ShutdownReturn, CancelContext
<1>3. ASSUME NEW l \in Loops,
             \/ Launch(l) \/ TriggerNow(l) \/ TimerTick(l) \/ TriggerTick(l) \/ Exit(l)
             \/ Begin(l) \/ NextProfile(l)
      PROVE  CacheInv'
  BY <1>1, <1>3 DEF Launch, TriggerNow, TimerTick, TriggerTick, Exit, Begin, NextProfile
<1>4. ASSUME NEW l \in Loops,
             \/ Drain(l) \/ NoteActivity(l) \/ SyncFull(l) \/ SyncLast(l) \/ Flush(l) \/ Recover(l)
      PROVE  CacheInv'
  BY <1>1, <1>4 DEF Drain, DrainTo, NoteActivity, SyncFull, SyncLast, Flush, Recover
<1>5. ASSUME NEW l \in Loops, Close(l) PROVE CacheInv'
  BY <1>5, CloseServicesKeepsCache DEF Close
<1>6. ASSUME NEW l \in Loops, Retire(l) PROVE CacheInv'
  <2> DEFINE gone == {p \in Profiles : svcs[l][p] # NoService /\ p \notin todo[l]}
  <2>1. CloseServices(l, gone) /\ UNCHANGED <<built, closed>>
    BY <1>6 DEF Retire
  <2>2. gone \in SUBSET Profiles
    OBVIOUS
  <2> QED BY <2>1, <2>2, CloseServicesKeepsCache
<1>7. ASSUME NEW l \in Loops, CloseIdle(l) PROVE CacheInv'
  <2> DEFINE idle == {p \in last[l] : svcs[l][p] # NoService /\ p \in aged[l]}
  <2>1. CloseServices(l, idle) /\ UNCHANGED <<built, closed>>
    BY <1>7 DEF CloseIdle
  <2>2. idle \in SUBSET Profiles
    BY DEF TypeOK
  <2> QED BY <2>1, <2>2, CloseServicesKeepsCache
<1>8. ASSUME NEW l \in Loops, EnsureService(l) PROVE CacheInv'
  <2>1. CASE l \notin closed /\ svcs[l][cur[l]] = NoService /\ Build(l, cur[l])
    <3>1. cur[l] \in Profiles
      BY DEF TypeOK
    <3>2. UNCHANGED <<closes, closed>>
      BY <1>8 DEF EnsureService
    <3> QED BY <2>1, <3>1, <3>2, BuildKeepsCache
  <2>2. CASE ~(l \notin closed /\ svcs[l][cur[l]] = NoService /\ Build(l, cur[l]))
    BY <1>1, <1>8, <2>2 DEF EnsureService
  <2> QED BY <2>1, <2>2
<1>9. ASSUME NEW p \in Profiles, Forget(p) \/ Register(p) PROVE CacheInv'
  BY <1>1, <1>9 DEF Forget, Register
<1> QED
  BY <1>2, <1>3, <1>4, <1>5, <1>6, <1>7, <1>8, <1>9 DEF Next, WorkerStep, ServiceCall

-----------------------------------------------------------------------------
(* A tick's service is not taken from it: retiring and idle closing happen *)
(* when their own tick drains nothing, and Close marks the loop closed.    *)
DrainInvOf(l) ==
  worker[l] \in {"drain", "call"} =>
    /\ using[l] # NoService
    /\ using[l] = svcs[l][cur[l]] \/ l \in closed

LEMMA DrainStep ==
  ASSUME TypeOK, CacheInv, DrainInv, Next
  PROVE  DrainInv'
<1> USE DEF schedVars, wakeVars, tickVars, svcVars, idleVars
<1>0. \A l \in Loops : DrainInvOf(l)
  BY DEF DrainInv, DrainInvOf
<1>t. /\ worker \in [Loops -> WorkerStates] /\ using \in [Loops -> {NoService} \cup Services]
      /\ cur \in [Loops -> Profiles]
      /\ svcs \in [Loops -> [Profiles -> {NoService} \cup Services]]
  BY DEF TypeOK
<1>1. ASSUME UNCHANGED <<tickVars, svcs, closed>> PROVE DrainInv'
  BY <1>1 DEF DrainInv
<1>2. CASE Start \/ Shutdown \/ ShutdownReturn \/ CancelContext
  BY <1>1, <1>2 DEF Start, Shutdown, ShutdownReturn, CancelContext
<1>3. ASSUME NEW l \in Loops, NEW s, To(l, s), s \notin {"drain", "call"},
             \A k \in Loops \ {l} : using'[k] = using[k] /\ cur'[k] = cur[k] /\ svcs'[k] = svcs[k],
             closed \subseteq closed'
      PROVE  DrainInv'
  <2> SUFFICES ASSUME NEW k \in Loops PROVE DrainInvOf(k)'
    BY DEF DrainInv, DrainInvOf
  <2>1. CASE k = l
    BY <1>t, <1>3, <2>1 DEF To, DrainInvOf
  <2>2. CASE k # l
    <3>1. worker'[k] = worker[k] /\ using'[k] = using[k] /\ cur'[k] = cur[k] /\ svcs'[k] = svcs[k]
      BY <1>t, <1>3, <2>2 DEF To
    <3> QED BY <1>0, <1>3, <3>1 DEF DrainInvOf
  <2> QED BY <2>1, <2>2
<1>4. ASSUME NEW l \in Loops, EndTick(l, FALSE) \/ EndTick(l, l \in rerun), UNCHANGED <<cur, closed>>,
             \A k \in Loops \ {l} : svcs'[k] = svcs[k]
      PROVE  DrainInv'
  <2>1. To(l, "wait") /\ using' = [using EXCEPT ![l] = NoService]
    BY <1>4 DEF EndTick
  <2>2. \A k \in Loops \ {l} : using'[k] = using[k] /\ cur'[k] = cur[k]
    BY <1>t, <1>4, <2>1
  <2>3. closed \subseteq closed'
    BY <1>4
  <2>4. "wait" \notin {"drain", "call"}
    OBVIOUS
  <2> QED BY <1>3, <1>4, <2>1, <2>2, <2>3, <2>4
<1>5. ASSUME NEW l \in Loops, Launch(l) \/ TimerTick(l) \/ TriggerTick(l) \/ Exit(l) PROVE DrainInv'
  <2>1. UNCHANGED <<using, cur, svcs, closed>>
    BY <1>5 DEF Launch, TimerTick, TriggerTick, Exit
  <2>2. To(l, "wait") \/ To(l, "begin") \/ To(l, "exited")
    BY <1>5 DEF Launch, TimerTick, TriggerTick, Exit
  <2> QED BY <1>3, <2>1, <2>2
<1>6. ASSUME NEW l \in Loops, TriggerNow(l) PROVE DrainInv'
  BY <1>1, <1>6 DEF TriggerNow
<1>7. ASSUME NEW l \in Loops, Close(l) PROVE DrainInv'
  <2> SUFFICES ASSUME NEW k \in Loops PROVE DrainInvOf(k)'
    BY DEF DrainInv, DrainInvOf
  <2>1. worker' = worker /\ using' = using /\ cur' = cur /\ closed' = closed \cup {l}
    BY <1>7 DEF Close
  <2>2. k # l => svcs'[k] = svcs[k]
    BY <1>t, <1>7 DEF Close, CloseServices
  <2> QED BY <1>0, <2>1, <2>2 DEF DrainInvOf
<1>8. ASSUME NEW l \in Loops, Begin(l) PROVE DrainInv'
  <2>1. UNCHANGED <<cur, svcs, closed>>
    BY <1>8 DEF Begin
  <2>2. CASE EndTick(l, FALSE)
    BY <1>4, <2>1, <2>2
  <2>3. CASE ~EndTick(l, FALSE)
    <3>1. (To(l, "retire") \/ To(l, "next")) /\ UNCHANGED using
      BY <1>8, <2>3 DEF Begin
    <3> QED BY <1>3, <2>1, <3>1
  <2> QED BY <2>2, <2>3
<1>9. ASSUME NEW l \in Loops, Retire(l) PROVE DrainInv'
  <2>1. To(l, "next") /\ UNCHANGED <<using, cur, closed>>
    BY <1>9 DEF Retire
  <2>2. \A k \in Loops \ {l} : svcs'[k] = svcs[k]
    BY <1>t, <1>9 DEF Retire, CloseServices
  <2> QED BY <1>3, <2>1, <2>2
<1>10. ASSUME NEW l \in Loops, NextProfile(l) PROVE DrainInv'
  <2>1. UNCHANGED <<svcs, closed>>
    BY <1>10 DEF NextProfile
  <2>2. CASE EndTick(l, FALSE) \/ EndTick(l, l \in rerun)
    <3>1. UNCHANGED cur
      BY <1>t, <1>10, <2>2 DEF NextProfile, EndTick, To
    <3> QED BY <1>4, <2>1, <2>2, <3>1
  <2>3. CASE ~(EndTick(l, FALSE) \/ EndTick(l, l \in rerun))
    <3>1. (To(l, "ensure") \/ To(l, "idleClose")) /\ UNCHANGED using
      BY <1>10, <2>3 DEF NextProfile
    <3>2. \A k \in Loops \ {l} : cur'[k] = cur[k]
      BY <1>t, <1>10, <2>3 DEF NextProfile
    <3> QED BY <1>3, <2>1, <3>1, <3>2
  <2> QED BY <2>2, <2>3
<1>11. ASSUME NEW l \in Loops, EnsureService(l) PROVE DrainInv'
  <2>0. cur[l] \in Profiles /\ UNCHANGED <<cur, closed>>
    BY <1>11 DEF TypeOK, EnsureService
  <2>1. CASE l \notin closed /\ svcs[l][cur[l]] # NoService /\ StartDrain(l)
             /\ using' = [using EXCEPT ![l] = svcs[l][cur[l]]] /\ UNCHANGED svcs
    <3> SUFFICES ASSUME NEW k \in Loops PROVE DrainInvOf(k)'
      BY DEF DrainInv, DrainInvOf
    <3>1. CASE k = l
      BY <1>t, <2>0, <2>1, <3>1 DEF DrainInvOf
    <3>2. CASE k # l
      <4>1. worker'[k] = worker[k] /\ using'[k] = using[k]
        BY <1>t, <2>1, <3>2 DEF StartDrain, To
      <4> QED BY <1>0, <2>0, <2>1, <4>1 DEF DrainInvOf
    <3> QED BY <3>1, <3>2
  <2>2. CASE l \notin closed /\ svcs[l][cur[l]] = NoService /\ Build(l, cur[l])
    <3> SUFFICES ASSUME NEW k \in Loops PROVE DrainInvOf(k)'
      BY DEF DrainInv, DrainInvOf
    <3>1. /\ built' # NoService /\ svcs'[l][cur[l]] = built'
          /\ \A j \in Loops : j # l => svcs'[j] = svcs[j]
      <4>1. UNCHANGED <<closes, closed>>
        BY <1>11 DEF EnsureService
      <4> QED BY <2>0, <2>2, <4>1, BuildKeepsCache
    <3>2. built' = built + 1 /\ using' = [using EXCEPT ![l] = built + 1] /\ StartDrain(l)
      BY <2>2 DEF Build
    <3>3. CASE k = l
      BY <1>t, <2>0, <3>1, <3>2, <3>3 DEF DrainInvOf
    <3>4. CASE k # l
      <4>1. worker'[k] = worker[k] /\ using'[k] = using[k] /\ svcs'[k] = svcs[k]
        BY <1>t, <3>1, <3>2, <3>4 DEF StartDrain, To
      <4> QED BY <1>0, <2>0, <4>1 DEF DrainInvOf
    <3> QED BY <3>3, <3>4
  <2>3. CASE To(l, "next") /\ UNCHANGED <<svcs, using>>
    BY <1>3, <2>0, <2>3
  <2> QED BY <1>11, <2>1, <2>2, <2>3 DEF EnsureService
<1>12. ASSUME NEW l \in Loops, To(l, "call") \/ To(l, "drain"), WorkerAt(l, "drain") \/ WorkerAt(l, "call"),
              UNCHANGED <<using, cur, svcs, closed>>
       PROVE  DrainInv'
  <2> SUFFICES ASSUME NEW k \in Loops PROVE DrainInvOf(k)'
    BY DEF DrainInv, DrainInvOf
  <2>1. CASE k = l
    BY <1>0, <1>12, <2>1 DEF DrainInvOf, WorkerAt
  <2>2. CASE k # l
    BY <1>0, <1>t, <1>12, <2>2 DEF DrainInvOf, To
  <2> QED BY <2>1, <2>2
<1>13. ASSUME NEW l \in Loops, DrainTo(l, AfterDrain(l)) \/ DrainTo(l, "next") PROVE DrainInv'
  <2>1. To(l, "note") \/ To(l, "next")
    BY <1>13 DEF DrainTo, AfterDrain
  <2>2. using' = [using EXCEPT ![l] = NoService] /\ UNCHANGED <<cur, svcs, closed>>
    BY <1>13 DEF DrainTo
  <2>3. \A k \in Loops \ {l} : using'[k] = using[k]
    BY <1>t, <2>2
  <2> QED BY <1>3, <2>1, <2>2, <2>3
<1>14. ASSUME NEW l \in Loops, Drain(l) PROVE DrainInv'
  <2>1. CASE DrainTo(l, AfterDrain(l))
    BY <1>13, <2>1
  <2>2. CASE ~DrainTo(l, AfterDrain(l))
    BY <1>12, <1>14, <2>2 DEF Drain
  <2> QED BY <2>1, <2>2
<1>15. ASSUME NEW l \in Loops, SyncFull(l) PROVE DrainInv'
  BY <1>12, <1>15 DEF SyncFull
<1>16. ASSUME NEW l \in Loops, SyncLast(l) \/ Flush(l) PROVE DrainInv'
  BY <1>13, <1>16 DEF SyncLast, Flush
<1>17. ASSUME NEW l \in Loops, NoteActivity(l) PROVE DrainInv'
  BY <1>3, <1>17 DEF NoteActivity
<1>18. ASSUME NEW l \in Loops, CloseIdle(l) PROVE DrainInv'
  <2>1. EndTick(l, l \in rerun) /\ UNCHANGED <<cur, closed>>
    BY <1>18 DEF CloseIdle
  <2>2. \A k \in Loops \ {l} : svcs'[k] = svcs[k]
    BY <1>t, <1>18 DEF CloseIdle, CloseServices
  <2> QED BY <1>4, <2>1, <2>2
<1>19. ASSUME NEW l \in Loops, Recover(l) PROVE DrainInv'
  BY <1>4, <1>19 DEF Recover
<1>20. ASSUME NEW p \in Profiles, Forget(p) \/ Register(p) PROVE DrainInv'
  BY <1>1, <1>20 DEF Forget, Register
<1> QED
  BY <1>2, <1>5, <1>6, <1>7, <1>8, <1>9, <1>10, <1>11, <1>14, <1>15, <1>16, <1>17, <1>18, <1>19, <1>20
     DEF Next, WorkerStep, ServiceCall

-----------------------------------------------------------------------------
(* After Shutdown a worker can still be launched and woken, but its tick   *)
(* finds the context cancelled.                                            *)
LEMMA ShutdownStep ==
  ASSUME TypeOK, ShutdownInv, Next
  PROVE  ShutdownInv'
<1> USE DEF schedVars, wakeVars, tickVars, svcVars, idleVars
<1> DEFINE Idle == {"off", "wait", "begin", "exited"}
<1>t. worker \in [Loops -> WorkerStates]
  BY DEF TypeOK
<1>1. CASE Start
  BY <1>1 DEF ShutdownInv, NoWorkAfterShutdown, Start
<1>2. CASE Shutdown
  BY <1>2 DEF ShutdownInv, NoWorkAfterShutdown, Shutdown
<1>3. CASE ShutdownReturn
  BY <1>3 DEF ShutdownInv, NoWorkAfterShutdown, ShutdownReturn
<1>4. CASE CancelContext
  BY <1>4 DEF ShutdownInv, NoWorkAfterShutdown, CancelContext
<1>5. ASSUME UNCHANGED <<schedVars, worker>> PROVE ShutdownInv'
  BY <1>5 DEF ShutdownInv, NoWorkAfterShutdown
<1>6. ASSUME NEW l \in Loops, NEW s, To(l, s), s \in Idle, started,
             UNCHANGED <<started, cancelled, down>>
      PROVE  ShutdownInv'
  <2>1. \A k \in Loops : worker'[k] = IF k = l THEN s ELSE worker[k]
    BY <1>t, <1>6 DEF To
  <2> QED BY <1>6, <2>1 DEF ShutdownInv, NoWorkAfterShutdown
<1>7. ASSUME NEW l \in Loops, worker[l] \notin Idle, UNCHANGED schedVars, NEW s, To(l, s)
      PROVE  ShutdownInv'
  <2>1. started /\ down # "returned"
    BY <1>7 DEF ShutdownInv, NoWorkAfterShutdown
  <2> QED BY <1>7, <2>1 DEF ShutdownInv, NoWorkAfterShutdown
<1>8. ASSUME NEW l \in Loops, Launch(l) PROVE ShutdownInv'
  <2>1. started
    BY <1>8 DEF Launch, ShutdownInv
  <2> QED BY <1>6, <1>8, <2>1 DEF Launch
<1>9. ASSUME NEW l \in Loops, TimerTick(l) \/ TriggerTick(l) \/ Exit(l) PROVE ShutdownInv'
  <2>1. started
    BY <1>9 DEF TimerTick, TriggerTick, Exit, ShutdownInv, WorkerAt
  <2> QED BY <1>6, <1>9, <2>1 DEF TimerTick, TriggerTick, Exit
<1>10. ASSUME NEW l \in Loops, Begin(l) PROVE ShutdownInv'
  <2>1. started
    BY <1>10 DEF Begin, ShutdownInv, WorkerAt
  <2>2. CASE cancelled
    BY <1>6, <1>10, <2>1, <2>2 DEF Begin, EndTick
  <2>3. CASE ~cancelled
    <3>1. UNCHANGED schedVars /\ down = "no"
      BY <1>10, <2>1, <2>3 DEF Begin, ShutdownInv, TypeOK
    <3> QED BY <2>1, <3>1 DEF ShutdownInv, NoWorkAfterShutdown
  <2> QED BY <2>2, <2>3
<1>11. ASSUME NEW l \in Loops, Retire(l) \/ CloseIdle(l) \/ NoteActivity(l) \/ Recover(l)
       PROVE  ShutdownInv'
  <2>1. worker[l] \notin Idle
    BY <1>11 DEF Retire, CloseIdle, NoteActivity, Recover, WorkerAt
  <2>2. UNCHANGED schedVars /\ \E s \in {"next", "wait"} : To(l, s)
    BY <1>11 DEF Retire, CloseIdle, NoteActivity, Recover, EndTick
  <2> QED BY <1>7, <2>1, <2>2
<1>12. ASSUME NEW l \in Loops, NextProfile(l) PROVE ShutdownInv'
  <2>1. worker[l] \notin Idle
    BY <1>12 DEF NextProfile, WorkerAt
  <2>2. UNCHANGED schedVars /\ \E s \in {"ensure", "wait", "idleClose"} : To(l, s)
    BY <1>12 DEF NextProfile, EndTick
  <2> QED BY <1>7, <2>1, <2>2
<1>13. ASSUME NEW l \in Loops, EnsureService(l) PROVE ShutdownInv'
  <2>1. worker[l] \notin Idle
    BY <1>13 DEF EnsureService, WorkerAt
  <2>2. UNCHANGED schedVars /\ \E s \in {"drain", "call", "next"} : To(l, s)
    BY <1>13 DEF EnsureService, Build, StartDrain
  <2> QED BY <1>7, <2>1, <2>2
<1>14. ASSUME NEW l \in Loops, Drain(l) \/ SyncFull(l) \/ SyncLast(l) \/ Flush(l) PROVE ShutdownInv'
  <2>1. worker[l] \notin Idle
    BY <1>14 DEF Drain, SyncFull, SyncLast, Flush, WorkerAt
  <2>2. UNCHANGED schedVars /\ \E s \in {"call", "drain", "note", "next"} : To(l, s)
    BY <1>14 DEF Drain, SyncFull, SyncLast, Flush, DrainTo, AfterDrain
  <2> QED BY <1>7, <2>1, <2>2
<1>15. ASSUME NEW l \in Loops, TriggerNow(l) \/ Close(l) PROVE ShutdownInv'
  BY <1>5, <1>15 DEF TriggerNow, Close
<1>16. ASSUME NEW p \in Profiles, Forget(p) \/ Register(p) PROVE ShutdownInv'
  BY <1>5, <1>16 DEF Forget, Register
<1> QED
  BY <1>1, <1>2, <1>3, <1>4, <1>8, <1>9, <1>10, <1>11, <1>12, <1>13, <1>14, <1>15, <1>16
     DEF Next, WorkerStep, ServiceCall

-----------------------------------------------------------------------------
LEMMA InitIInv == Init => IInv
<1> SUFFICES ASSUME Init PROVE IInv
  OBVIOUS
<1>1. \A p \in {CHOOSE q \in Profiles : TRUE} : p \in Profiles
  BY ProfilesAssumption
<1>2. Services \subseteq Nat /\ NoService = 0 /\ 0 \in 0..MaxServices
  BY MaxServicesAssumption DEF Services, NoService
<1>3. TypeOK
  BY <1>1, <1>2 DEF Init, TypeOK, WorkerStates
<1>4. CacheInv
  <2>1. \A l \in Loops, p \in Profiles : svcs[l][p] = NoService
    BY DEF Init
  <2>2. \A i \in Services : closes[i] = 0 /\ i > built
    BY MaxServicesAssumption DEF Init, Services
  <2>3. \A i \in Services : ~(i <= built)
    BY <2>2, MaxServicesAssumption DEF Init, Services
  <2> QED BY <2>1, <2>2, <2>3 DEF CacheInv, OnePlaceEach
<1>5. DrainInv /\ ShutdownInv
  BY DEF Init, DrainInv, ShutdownInv, NoWorkAfterShutdown
<1> QED
  BY <1>3, <1>4, <1>5 DEF IInv

LEMMA NextIInv == IInv /\ [Next]_vars => IInv'
<1> SUFFICES ASSUME IInv, [Next]_vars PROVE IInv'
  OBVIOUS
<1>1. CASE Next
  BY <1>1, TypeStep, CacheStep, DrainStep, ShutdownStep DEF IInv
<1>2. CASE UNCHANGED vars
  <2>1. TypeOK'
    BY <1>2 DEF IInv, TypeOK, vars, schedVars, wakeVars, tickVars, svcVars, idleVars
  <2>2. CacheInv' /\ DrainInv'
    BY <1>2 DEF IInv, CacheInv, OnePlaceEach, DrainInv, vars, tickVars, svcVars
  <2>3. ShutdownInv'
    BY <1>2 DEF IInv, ShutdownInv, NoWorkAfterShutdown, vars, schedVars, tickVars
  <2> QED BY <2>1, <2>2, <2>3 DEF IInv
<1> QED
  BY <1>1, <1>2

THEOREM Invariance == Spec => []IInv
BY InitIInv, NextIInv, PTL DEF Spec

(* The types hold, and no panic ends a worker.                             *)
THEOREM TypeCorrect == Spec => []TypeOK
<1>1. IInv => TypeOK
  BY DEF IInv
<1> QED
  BY <1>1, Invariance, PTL

(* Every service still open can be reached by a Close, a retiring or an    *)
(* idle closing to come, however Close races ensureService.                *)
THEOREM NoServiceLeaks == Spec => []NoLeakedService
<1>1. IInv => NoLeakedService
  <2> SUFFICES ASSUME IInv, NEW i \in 1..built, closes[i] = 0
               PROVE  \E l \in Loops \ closed, p \in Profiles : svcs[l][p] = i
    BY DEF NoLeakedService
  <2>1. i \in Services /\ i <= built /\ i # NoService
    BY MaxServicesAssumption DEF IInv, TypeOK, Services, NoService
  <2>2. PICK l \in Loops, p \in Profiles : svcs[l][p] = i
    BY <2>1 DEF IInv, CacheInv
  <2>3. l \notin closed
    BY <2>1, <2>2 DEF IInv, CacheInv
  <2> QED BY <2>2, <2>3
<1> QED
  BY <1>1, Invariance, PTL

(* No service is closed twice.                                             *)
THEOREM ServicesClosedOnce == Spec => []ClosedOnce
<1>1. IInv => ClosedOnce
  BY DEF IInv, CacheInv, ClosedOnce
<1> QED
  BY <1>1, Invariance, PTL

(* Only Close takes a service from the tick that drains it.                *)
THEOREM TicksDrainOpenServices == Spec => []DrainsOpenService
<1>1. IInv => DrainsOpenService
  <2> SUFFICES ASSUME IInv, NEW l \in Loops, worker[l] \in {"drain", "call"}, closes[using[l]] > 0, l \notin closed
               PROVE  FALSE
    BY DEF DrainsOpenService
  <2>1. using[l] # NoService /\ using[l] = svcs[l][cur[l]]
    BY DEF IInv, DrainInv
  <2>2. cur[l] \in Profiles
    BY DEF IInv, TypeOK
  <2>3. closes[using[l]] = 0
    BY <2>1, <2>2 DEF IInv, CacheInv
  <2> QED BY <2>3
<1> QED
  BY <1>1, Invariance, PTL

(* Nothing works on a service once Shutdown has returned.                  *)
THEOREM ShutdownStopsWork == Spec => []NoWorkAfterShutdown
<1>1. IInv => NoWorkAfterShutdown
  BY DEF IInv, ShutdownInv
<1> QED
  BY <1>1, Invariance, PTL
=============================================================================
