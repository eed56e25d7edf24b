----------------------------- MODULE TimersProofs -----------------------------
(***************************************************************************)
(* What holds of the timers for any number of modules, timers, instances   *)
(* and events, and whichever POSIX calls fail.                             *)
(***************************************************************************)
EXTENDS Timers, FiniteSetTheorems, SequenceTheorems, TLAPS

\* A module in a call is registered, and the call is on a timer that it uses.
CallsInProgress ==
  \A m \in Modules : doing[m] # Idle => m \in live /\ doing[m].t \in uses[m]

\* A timer in use belongs to a registered instance.
OwnersLive == \A t \in TimerIds : timers[t].in_use => timers[t].owner \in live

\* Where modules keep to timers of their own, what a call has checked of its
\* timer is still so when the call goes on, although the table has no lock.
ChecksHold ==
  Private =>
    /\ \A t \in TimerIds : timers[t].in_use => t \in uses[timers[t].owner]
    /\ \A m \in Modules : doing[m] # Idle =>
         IF doing[m].op = "create" THEN ~ timers[doing[m].t].in_use
                                   ELSE doing[m].t \in Owned(m)

\* There a module's count is the number of its timers, which are finitely many.
Counted ==
  Private =>
    \A m \in Modules :
      /\ IsFiniteSet(Owned(m))
      /\ m \in live => resource_count[m] = Cardinality(Owned(m))

\* There a timer that is running exists; if it is periodic its POSIX timer is
\* armed, and if it is not, that or a callback will say that it is over.
RunningSound ==
  Private =>
    \A t \in TimerIds : timers[t].running =>
      /\ timers[t].in_use
      /\ timers[t].periodic => core[t] = "periodic"
      /\ core[t] \in Armed \/ callback[t].at \in {"check", "read"}

IInv ==
  /\ TimersTypeOK
  /\ CallsInProgress
  /\ OwnersLive
  /\ ChecksHold
  /\ Counted
  /\ RunningSound

USE DEF eventVars, timerVars

\* ocre_timer_init: the table is empty and nobody runs.
LEMMA InitIInv == TimersInit => IInv
<1> SUFFICES ASSUME TimersInit PROVE IInv
  OBVIOUS
<1> USE DEF TimersInit, EventsInit
<1>1. EventsTypeOK(TimerIds)
  BY EventsAssumption, EmptySeq DEF EventsAssumption, EventsTypeOK
<1>2. TimersTypeOK
  BY <1>1 DEF TimersTypeOK, NoCallback
<1>3. \A m \in Modules : Owned(m) = {}
  BY DEF Owned
<1>4. Counted
  BY <1>3, FS_EmptySet DEF Counted
<1>5. QED
  BY <1>2, <1>4 DEF IInv, CallsInProgress, OwnersLive, ChecksHold, RunningSound, Idle

---------------------------------------------------------------------------
(* Types *)

\* core_eventq_put: a full queue drops the event, so that it never overflows.
LEMMA PutType ==
  ASSUME NEW Bodies, NEW event \in Event(Bodies), queue \in Seq(Event(Bodies)),
         Len(queue) <= QueueSize, Put(event)
  PROVE  queue' \in Seq(Event(Bodies)) /\ Len(queue') <= QueueSize
<1>1. CASE Full
  BY <1>1 DEF Put
<1>2. CASE ~ Full
  <2>1. queue' = Append(queue, event) /\ Len(queue) \in Nat
    BY <1>2, LenProperties DEF Put
  <2>2. queue' \in Seq(Event(Bodies)) /\ Len(queue') = Len(queue) + 1
    BY <2>1, AppendProperties
  <2>3. QED
    BY <1>2, <2>1, <2>2, EventsAssumption DEF Full, EventsAssumption
<1>3. QED
  BY <1>1, <1>2

\* ocre_get_event takes the head.
LEMMA GetType ==
  ASSUME NEW Bodies, queue \in Seq(Event(Bodies)), Len(queue) <= QueueSize,
         NEW m, ocre_get_event(m)
  PROVE  queue' \in Seq(Event(Bodies)) /\ Len(queue') <= QueueSize
<1>1. Len(queue) \in Nat /\ queue # <<>> /\ queue' = Tail(queue)
  BY LenProperties DEF ocre_get_event
<1>2. queue' \in Seq(Event(Bodies)) /\ Len(queue') = Len(queue) - 1
  BY <1>1, HeadTailProperties
<1>3. QED
  BY <1>1, <1>2, EventsAssumption DEF EventsAssumption

\* Every step keeps every variable in its type.
LEMMA NextType ==
  ASSUME TimersTypeOK, TimersNext
  PROVE  TimersTypeOK'
<1> DEFINE Timer == [in_use : BOOLEAN, owner : Modules \union {NULL},
                     periodic : BOOLEAN, running : BOOLEAN]
<1> DEFINE Callb == [at : {"none", "check", "read", "put"},
                     owner : Modules \union {NULL}, gen : Nat]
<1>0. uses' = uses /\ uses \in Uses
  BY DEF TimersNext, TimersTypeOK
<1>a. UNCHANGED eventVars => EventsTypeOK(TimerIds)'
  BY DEF EventsTypeOK, TimersTypeOK
<1>b. /\ live \subseteq Modules /\ gen \in [Modules -> 0 .. MaxInstances]
      /\ queue \in Seq(Event(TimerIds)) /\ Len(queue) <= QueueSize
      /\ resource_count \in [Modules -> Nat]
  BY DEF EventsTypeOK, TimersTypeOK
<1>c. timers \in [TimerIds -> Timer]
  BY DEF TimersTypeOK
<1>d. /\ core \in [TimerIds -> {"none", "off"} \union Armed]
      /\ stray \in [TimerIds -> SUBSET Armed]
      /\ callback \in [TimerIds -> Callb]
      /\ doing \in [Modules -> {Idle} \union [op : Ops, t : TimerIds]]
  BY DEF TimersTypeOK
<1>1. ASSUME NEW m \in Modules, Register(m) PROVE TimersTypeOK'
  <2>1. EventsTypeOK(TimerIds)'
    BY <1>1, <1>b, EventsAssumption
       DEF Register, ocre_register_module, EventsTypeOK, EventsAssumption
  <2>2. QED
    BY <1>0, <1>1, <1>c, <1>d, <2>1 DEF Register, TimersTypeOK
<1>2. ASSUME NEW m \in Modules, Cleanup(m) PROVE TimersTypeOK'
  <2>1. EventsTypeOK(TimerIds)'
    BY <1>2, <1>b DEF Cleanup, ocre_unregister_module, EventsTypeOK
  <2>2. timers' \in [TimerIds -> Timer]
    <3>1. timers' = [t \in TimerIds |-> IF t \in Owned(m) THEN Cleared(t) ELSE timers[t]]
      BY <1>2 DEF Cleanup
    <3>2. \A t \in TimerIds : Cleared(t) \in Timer
      BY <1>c DEF Cleared
    <3>3. QED
      BY <1>c, <3>1, <3>2
  <2>3. core' \in [TimerIds -> {"none", "off"} \union Armed]
    <3>1. core' = [t \in TimerIds |-> IF t \in Owned(m) THEN "none" ELSE core[t]]
      BY <1>2 DEF Cleanup
    <3>2. QED
      BY <1>d, <3>1
  <2>4. QED
    BY <1>0, <1>2, <1>c, <1>d, <2>1, <2>2, <2>3 DEF Cleanup, TimersTypeOK
<1>3. ASSUME NEW m \in Modules, GetEvent(m) PROVE TimersTypeOK'
  <2>1. queue' \in Seq(Event(TimerIds)) /\ Len(queue') <= QueueSize
    BY <1>3, <1>b, GetType DEF GetEvent
  <2>2. UNCHANGED <<live, gen, resource_count, timerVars>>
    BY <1>3 DEF GetEvent
  <2>3. EventsTypeOK(TimerIds)'
    BY <1>b, <2>1, <2>2 DEF EventsTypeOK
  <2>4. QED
    BY <1>0, <1>c, <1>d, <2>2, <2>3 DEF TimersTypeOK
<1>4. ASSUME NEW m \in Modules, NEW t \in TimerIds, NEW op \in Ops, TimerCall(m, op, t)
      PROVE TimersTypeOK'
  BY <1>0, <1>4, <1>a, <1>c, <1>d DEF TimerCall, TimersTypeOK
<1>5. ASSUME NEW m \in Modules, NEW t \in TimerIds, Effect(m, t) PROVE TimersTypeOK'
  <2>0. doing' \in [Modules -> {Idle} \union [op : Ops, t : TimerIds]]
    BY <1>5, <1>d DEF Effect, ocre_timer_create, CreateFails, ocre_timer_delete,
                ocre_timer_start, ocre_timer_stop, Doing
  <2>1. CASE ocre_timer_create(m, t)
    <3>1. EventsTypeOK(TimerIds)'
      BY <2>1, <1>b DEF ocre_timer_create, increment_resource_count, EventsTypeOK
    <3>2. timers' \in [TimerIds -> Timer]
      <4>1. timers' = [timers EXCEPT ![t].in_use = TRUE, ![t].owner = m]
        BY <2>1 DEF ocre_timer_create
      <4>2. QED
        BY <1>c, <4>1
    <3>3. stray' \in [TimerIds -> SUBSET Armed]
      BY <1>d, <2>1 DEF ocre_timer_create
    <3>4. QED
      BY <1>0, <1>c, <1>d, <2>0, <2>1, <3>1, <3>2, <3>3 DEF ocre_timer_create, TimersTypeOK
  <2>2. CASE CreateFails(m, t)
    <3>1. timers' \in [TimerIds -> Timer]
      <4>1. timers' = [timers EXCEPT ![t].in_use = FALSE, ![t].owner = m]
        BY <2>2 DEF CreateFails
      <4>2. QED
        BY <1>c, <4>1
    <3>2. QED
      BY <1>0, <1>a, <1>c, <1>d, <2>0, <2>2, <3>1 DEF CreateFails, TimersTypeOK
  <2>3. CASE ocre_timer_delete(m, t)
    <3>1. EventsTypeOK(TimerIds)'
      BY <2>3, <1>b DEF ocre_timer_delete, decrement_resource_count, EventsTypeOK
    <3>2. timers' \in [TimerIds -> Timer]
      BY <1>c, <2>3 DEF ocre_timer_delete, Cleared
    <3>3. QED
      BY <1>0, <1>c, <1>d, <2>0, <2>3, <3>1, <3>2 DEF ocre_timer_delete, TimersTypeOK
  <2>4. CASE ocre_timer_start(m, t)
    <3>1. timers' \in [TimerIds -> Timer]
      <4>1. PICK p \in BOOLEAN, r \in BOOLEAN : Set(t, p, r)
        BY <2>4 DEF ocre_timer_start
      <4>2. QED
        BY <1>c, <4>1 DEF Set
    <3>2. core' \in [TimerIds -> {"none", "off"} \union Armed]
      BY <1>d, <2>4 DEF ocre_timer_start, Armed
    <3>3. QED
      BY <1>0, <1>a, <1>c, <1>d, <2>0, <2>4, <3>1, <3>2 DEF ocre_timer_start, TimersTypeOK
  <2>5. CASE ocre_timer_stop(m, t)
    <3>1. timers' \in [TimerIds -> Timer]
      BY <1>c, <2>5 DEF ocre_timer_stop
    <3>2. core' \in [TimerIds -> {"none", "off"} \union Armed]
      BY <1>d, <2>5 DEF ocre_timer_stop
    <3>3. QED
      BY <1>0, <1>a, <1>c, <1>d, <2>0, <2>5, <3>1, <3>2 DEF ocre_timer_stop, TimersTypeOK
  <2>6. QED
    BY <1>5, <2>1, <2>2, <2>3, <2>4, <2>5 DEF Effect
<1>6. ASSUME NEW t \in TimerIds, Expire(t) PROVE TimersTypeOK'
  <2>1. core' \in [TimerIds -> {"none", "off"} \union Armed]
    BY <1>d, <1>6 DEF Expire
  <2>2. stray' \in [TimerIds -> SUBSET Armed]
    BY <1>d, <1>6 DEF Expire
  <2>3. QED
    BY <1>0, <1>a, <1>c, <1>d, <1>6, <2>1, <2>2 DEF Expire, TimersTypeOK
<1>7. ASSUME NEW t \in TimerIds, CallbackCheck(t) PROVE TimersTypeOK'
  <2>1. callback' \in [TimerIds -> Callb]
    BY <1>d, <1>7 DEF CallbackCheck
  <2>2. QED
    BY <1>0, <1>a, <1>c, <1>d, <1>7, <2>1 DEF CallbackCheck, TimersTypeOK
<1>8. ASSUME NEW t \in TimerIds, CallbackRead(t) PROVE TimersTypeOK'
  <2>1. GenOf(timers[t].owner) \in Nat
    BY <1>b, EventsAssumption DEF GenOf, EventsAssumption
  <2>2. timers' \in [TimerIds -> Timer]
    BY <1>c, <1>8 DEF CallbackRead
  <2>3. callback' \in [TimerIds -> Callb]
    BY <1>c, <1>d, <1>8, <2>1 DEF CallbackRead
  <2>4. QED
    BY <1>0, <1>a, <1>c, <1>d, <1>8, <2>2, <2>3 DEF CallbackRead, TimersTypeOK
<1>9. ASSUME NEW t \in TimerIds, CallbackPut(t) PROVE TimersTypeOK'
  <2>1. [owner |-> callback[t].owner, gen |-> callback[t].gen, body |-> t]
          \in Event(TimerIds)
    BY <1>d DEF Event
  <2>2. queue' \in Seq(Event(TimerIds)) /\ Len(queue') <= QueueSize
    BY <1>9, <1>b, <2>1, PutType DEF CallbackPut
  <2>3. EventsTypeOK(TimerIds)'
    BY <1>9, <1>b, <2>2 DEF CallbackPut, EventsTypeOK
  <2>4. callback' \in [TimerIds -> Callb]
    BY <1>d, <1>9 DEF CallbackPut, NoCallback
  <2>5. QED
    BY <1>0, <1>c, <1>d, <1>9, <2>3, <2>4 DEF CallbackPut, TimersTypeOK
<1>10. QED
  BY <1>1, <1>2, <1>3, <1>4, <1>5, <1>6, <1>7, <1>8, <1>9
     DEF TimersNext, ModuleNext, Callback

---------------------------------------------------------------------------
(* The table and the counts *)

\* What the proofs below use of the types.
LEMMA Types ==
  ASSUME TimersTypeOK
  PROVE  /\ \A m \in Modules : uses[m] \in SUBSET TimerIds
         /\ live \subseteq Modules
         /\ resource_count \in [Modules -> Nat]
         /\ \A t \in TimerIds : /\ timers[t].in_use \in BOOLEAN
                                /\ timers[t].periodic \in BOOLEAN
                                /\ timers[t].running \in BOOLEAN
         /\ \A m \in Modules : doing[m] # Idle =>
              doing[m].t \in TimerIds /\ doing[m] = [op |-> doing[m].op, t |-> doing[m].t]
BY TimersAssumption DEF TimersTypeOK, EventsTypeOK, TimersAssumption

\* The steps that leave who owns which timer alone: every call but create and
\* delete, and the callbacks.
LEMMA QuietStep ==
  ASSUME IInv, UNCHANGED <<uses, live, resource_count>>,
         \A t \in TimerIds : /\ timers'[t].in_use = timers[t].in_use
                             /\ timers'[t].owner = timers[t].owner,
         \A m \in Modules : doing'[m] = doing[m] \/ doing'[m] = Idle
  PROVE  CallsInProgress' /\ OwnersLive' /\ ChecksHold' /\ Counted'
<1>1. \A m : Owned(m)' = Owned(m)
  BY DEF Owned
<1>2. Private' <=> Private
  BY DEF Private
<1>3. CallsInProgress'
  BY DEF IInv, CallsInProgress
<1>4. OwnersLive'
  BY DEF IInv, OwnersLive
<1>5. ChecksHold'
  <2> SUFFICES ASSUME Private
               PROVE  /\ \A t \in TimerIds : timers'[t].in_use => t \in uses[timers'[t].owner]
                      /\ \A m \in Modules : doing'[m] # Idle =>
                           IF doing'[m].op = "create" THEN ~ timers'[doing'[m].t].in_use
                                                      ELSE doing'[m].t \in Owned(m)
    BY <1>1, <1>2 DEF ChecksHold
  <2>1. \A t \in TimerIds : timers'[t].in_use => t \in uses[timers'[t].owner]
    BY DEF IInv, ChecksHold
  <2>2. \A m \in Modules : doing'[m] # Idle =>
          IF doing'[m].op = "create" THEN ~ timers'[doing'[m].t].in_use
                                     ELSE doing'[m].t \in Owned(m)
    BY Types DEF IInv, ChecksHold
  <2>3. QED
    BY <2>1, <2>2
<1>6. Counted'
  BY <1>1, <1>2 DEF IInv, Counted
<1>7. QED
  BY <1>3, <1>4, <1>5, <1>6

\* A call that passes its checks.
LEMMA CallIInv ==
  ASSUME IInv, UNCHANGED uses, NEW m \in Modules, NEW t \in TimerIds, NEW op \in Ops,
         TimerCall(m, op, t)
  PROVE  CallsInProgress' /\ OwnersLive' /\ ChecksHold' /\ Counted' /\ RunningSound'
<1>1. /\ UNCHANGED <<live, resource_count, timers, core, callback>>
      /\ m \in live /\ t \in uses[m]
      /\ IF op = "create" THEN ~ timers[t].in_use ELSE t \in Owned(m)
  BY DEF TimerCall, Permitted
<1>2. /\ doing'[m] = [op |-> op, t |-> t]
      /\ \A n \in Modules : n # m => doing'[n] = doing[n]
  BY DEF TimerCall, IInv, TimersTypeOK
<1>3. (Private' <=> Private) /\ \A n : Owned(n)' = Owned(n)
  BY <1>1 DEF Private, Owned
<1>4. CallsInProgress'
  BY <1>1, <1>2 DEF IInv, CallsInProgress
<1>5. OwnersLive' /\ Counted' /\ RunningSound'
  BY <1>1, <1>3 DEF IInv, OwnersLive, Counted, RunningSound
<1>6. ChecksHold'
  BY <1>1, <1>2, <1>3 DEF IInv, ChecksHold
<1>7. QED
  BY <1>4, <1>5, <1>6

\* What Private says of a call: another module's call is on another timer, and
\* another module's timer is not the call's.
LEMMA OwnTimers ==
  ASSUME IInv, Private, NEW m \in Modules, doing[m] # Idle
  PROVE  /\ \A n \in Modules : n # m /\ doing[n] # Idle => doing[n].t # doing[m].t
         /\ \A n \in Modules : n # m => doing[m].t \notin Owned(n)
BY DEF IInv, CallsInProgress, Private, ChecksHold, Owned

\* ocre_timer_create: the timer was not in use, and is the module's now.
LEMMA CreateIInv ==
  ASSUME IInv, UNCHANGED uses, NEW m \in Modules, NEW t \in TimerIds,
         ocre_timer_create(m, t)
  PROVE  CallsInProgress' /\ OwnersLive' /\ ChecksHold' /\ Counted' /\ RunningSound'
<1>1. /\ doing[m] = [op |-> "create", t |-> t] /\ doing[m] # Idle
      /\ doing'[m] = Idle /\ \A n \in Modules : n # m => doing'[n] = doing[n]
      /\ UNCHANGED <<live, callback>>
  BY DEF ocre_timer_create, Doing, Idle, IInv, TimersTypeOK
<1>2. /\ timers'[t].in_use /\ timers'[t].owner = m
      /\ timers'[t].running = timers[t].running
      /\ \A u \in TimerIds : u # t => timers'[u] = timers[u]
  <2>1. timers' = [timers EXCEPT ![t].in_use = TRUE, ![t].owner = m]
    BY DEF ocre_timer_create
  <2>2. DOMAIN timers = TimerIds /\ \A u \in TimerIds :
          timers[u] \in [in_use : BOOLEAN, owner : Modules \union {NULL},
                         periodic : BOOLEAN, running : BOOLEAN]
    BY DEF IInv, TimersTypeOK
  <2>3. QED
    BY <2>1, <2>2
<1>3. /\ resource_count'[m] = resource_count[m] + 1
      /\ \A n \in Modules : n # m => resource_count'[n] = resource_count[n]
  BY Types DEF ocre_timer_create, increment_resource_count, IInv
<1>4. m \in live /\ t \in uses[m]
  BY <1>1 DEF IInv, CallsInProgress
<1>5. Private' <=> Private
  BY DEF Private
<1>6. CallsInProgress'
  BY <1>1 DEF IInv, CallsInProgress
<1>7. OwnersLive'
  BY <1>1, <1>2, <1>4 DEF IInv, OwnersLive
<1>8. ASSUME Private
      PROVE  /\ Owned(m)' = Owned(m) \union {t} /\ t \notin Owned(m)
             /\ \A n \in Modules : n # m => Owned(n)' = Owned(n)
  <2>1. ~ timers[t].in_use
    BY <1>1, <1>8 DEF IInv, ChecksHold
  <2>2. QED
    BY <1>2, <2>1 DEF Owned
<1>9. ChecksHold'
  <2> SUFFICES ASSUME Private
               PROVE  /\ \A u \in TimerIds : timers'[u].in_use => u \in uses[timers'[u].owner]
                      /\ \A n \in Modules : doing'[n] # Idle =>
                           IF doing'[n].op = "create" THEN ~ timers'[doing'[n].t].in_use
                                                      ELSE doing'[n].t \in Owned(n)'
    BY <1>5 DEF ChecksHold
  <2>1. \A u \in TimerIds : timers'[u].in_use => u \in uses[timers'[u].owner]
    BY <1>2, <1>4 DEF IInv, ChecksHold
  <2>2. ASSUME NEW n \in Modules, doing'[n] # Idle
        PROVE  IF doing'[n].op = "create" THEN ~ timers'[doing'[n].t].in_use
                                          ELSE doing'[n].t \in Owned(n)'
    <3>1. n # m /\ doing'[n] = doing[n]
      BY <1>1, <2>2
    <3>2. doing[n].t # t /\ doing[n].t \in TimerIds
      <4>1. doing[n] # Idle /\ doing[m].t = t
        BY <1>1, <2>2, <3>1
      <4>2. doing[n].t # doing[m].t
        BY <1>1, <3>1, <4>1, OwnTimers
      <4>3. doing[n].t \in TimerIds
        BY <4>1, Types DEF IInv
      <4>4. QED
        BY <4>1, <4>2, <4>3
    <3>3. IF doing[n].op = "create" THEN ~ timers[doing[n].t].in_use
                                    ELSE doing[n].t \in Owned(n)
      BY <2>2, <3>1 DEF IInv, ChecksHold
    <3>4. Owned(n)' = Owned(n) /\ timers'[doing[n].t] = timers[doing[n].t]
      BY <1>2, <1>8, <3>1, <3>2
    <3>5. QED
      BY <3>1, <3>3, <3>4
  <2>3. QED
    BY <2>1, <2>2
<1>10. Counted'
  <2> SUFFICES ASSUME Private, NEW n \in Modules
               PROVE  /\ IsFiniteSet(Owned(n)')
                      /\ n \in live' => resource_count'[n] = Cardinality(Owned(n)')
    BY <1>5 DEF Counted
  <2>1. /\ IsFiniteSet(Owned(n))
        /\ n \in live => resource_count[n] = Cardinality(Owned(n))
    BY DEF IInv, Counted
  <2>2. CASE n = m
    <3>1. IsFiniteSet(Owned(m)') /\ Cardinality(Owned(m)') = Cardinality(Owned(m)) + 1
      BY <1>8, <2>1, <2>2, FS_AddElement
    <3>2. QED
      BY <1>3, <1>4, <2>1, <2>2, <3>1
  <2>3. CASE n # m
    BY <1>1, <1>3, <1>8, <2>1, <2>3
  <2>4. QED
    BY <2>2, <2>3
<1>11. RunningSound'
  <2>1. core' = [core EXCEPT ![t] = "off"]
    BY DEF ocre_timer_create
  <2>2. Private => ~ timers[t].running
    BY <1>1 DEF IInv, ChecksHold, RunningSound
  <2>3. \A u \in TimerIds : u # t => core'[u] = core[u]
    BY <2>1 DEF IInv, TimersTypeOK
  <2>4. QED
    BY <1>1, <1>2, <1>5, <2>2, <2>3 DEF IInv, RunningSound
<1>12. QED
  BY <1>6, <1>7, <1>9, <1>10, <1>11

\* timer_create fails: the timer is marked as not in use, which it was not.
LEMMA CreateFailsIInv ==
  ASSUME IInv, UNCHANGED uses, NEW m \in Modules, NEW t \in TimerIds, CreateFails(m, t)
  PROVE  CallsInProgress' /\ OwnersLive' /\ ChecksHold' /\ Counted' /\ RunningSound'
<1>1. /\ doing[m] = [op |-> "create", t |-> t] /\ doing[m] # Idle
      /\ doing'[m] = Idle /\ \A n \in Modules : n # m => doing'[n] = doing[n]
      /\ UNCHANGED <<live, resource_count, core, callback>>
  BY DEF CreateFails, Doing, Idle, IInv, TimersTypeOK
<1>2. /\ ~ timers'[t].in_use
      /\ timers'[t].running = timers[t].running
      /\ \A u \in TimerIds : u # t => timers'[u] = timers[u]
  <2>1. timers' = [timers EXCEPT ![t].in_use = FALSE, ![t].owner = m]
    BY DEF CreateFails
  <2>2. DOMAIN timers = TimerIds /\ \A u \in TimerIds :
          timers[u] \in [in_use : BOOLEAN, owner : Modules \union {NULL},
                         periodic : BOOLEAN, running : BOOLEAN]
    BY DEF IInv, TimersTypeOK
  <2>3. QED
    BY <2>1, <2>2
<1>3. Private' <=> Private
  BY DEF Private
<1>4. CallsInProgress' /\ OwnersLive'
  BY <1>1, <1>2 DEF IInv, CallsInProgress, OwnersLive
<1>5. ASSUME Private
      PROVE  ~ timers[t].in_use /\ \A n : Owned(n)' = Owned(n)
  <2>1. ~ timers[t].in_use
    BY <1>1, <1>5 DEF IInv, ChecksHold
  <2>2. QED
    BY <1>2, <2>1 DEF Owned
<1>6. ChecksHold'
  <2> SUFFICES ASSUME Private
               PROVE  /\ \A u \in TimerIds : timers'[u].in_use => u \in uses[timers'[u].owner]
                      /\ \A n \in Modules : doing'[n] # Idle =>
                           IF doing'[n].op = "create" THEN ~ timers'[doing'[n].t].in_use
                                                      ELSE doing'[n].t \in Owned(n)'
    BY <1>3 DEF ChecksHold
  <2>1. \A u \in TimerIds : timers'[u].in_use => u \in uses[timers'[u].owner]
    BY <1>2 DEF IInv, ChecksHold
  <2>2. \A u \in TimerIds : ~ timers[u].in_use => ~ timers'[u].in_use
    BY <1>2
  <2>3. ASSUME NEW n \in Modules, doing'[n] # Idle
        PROVE  IF doing'[n].op = "create" THEN ~ timers'[doing'[n].t].in_use
                                          ELSE doing'[n].t \in Owned(n)'
    <3>1. n # m /\ doing'[n] = doing[n] /\ doing[n].t \in TimerIds
      BY <1>1, <2>3, Types DEF IInv
    <3>2. IF doing[n].op = "create" THEN ~ timers[doing[n].t].in_use
                                    ELSE doing[n].t \in Owned(n)
      BY <2>3, <3>1 DEF IInv, ChecksHold
    <3>3. QED
      BY <1>5, <2>2, <3>1, <3>2
  <2>4. QED
    BY <2>1, <2>3
<1>7. Counted'
  BY <1>1, <1>3, <1>5 DEF IInv, Counted
<1>8. RunningSound'
  BY <1>1, <1>2, <1>3, <1>5 DEF IInv, RunningSound
<1>9. QED
  BY <1>4, <1>6, <1>7, <1>8

\* ocre_timer_delete: the timer, which was the module's, is nobody's.
LEMMA DeleteIInv ==
  ASSUME IInv, UNCHANGED uses, NEW m \in Modules, NEW t \in TimerIds,
         ocre_timer_delete(m, t)
  PROVE  CallsInProgress' /\ OwnersLive' /\ ChecksHold' /\ Counted' /\ RunningSound'
<1>1. /\ doing[m] = [op |-> "delete", t |-> t] /\ doing[m] # Idle
      /\ doing'[m] = Idle /\ \A n \in Modules : n # m => doing'[n] = doing[n]
      /\ UNCHANGED <<live, callback>>
  BY DEF ocre_timer_delete, Doing, Idle, IInv, TimersTypeOK
<1>2. /\ ~ timers'[t].in_use /\ ~ timers'[t].running
      /\ \A u \in TimerIds : u # t => timers'[u] = timers[u] /\ core'[u] = core[u]
  <2>1. /\ timers' = [timers EXCEPT ![t] = Cleared(t)]
        /\ core' = [core EXCEPT ![t] = "none"]
    BY DEF ocre_timer_delete
  <2>2. DOMAIN timers = TimerIds /\ DOMAIN core = TimerIds /\ \A u \in TimerIds :
          timers[u] \in [in_use : BOOLEAN, owner : Modules \union {NULL},
                         periodic : BOOLEAN, running : BOOLEAN]
    BY DEF IInv, TimersTypeOK
  <2>3. QED
    BY <2>1, <2>2 DEF Cleared
<1>3. /\ resource_count'[m] = IF resource_count[m] > 0 THEN resource_count[m] - 1 ELSE 0
      /\ \A n \in Modules : n # m => resource_count'[n] = resource_count[n]
  BY Types DEF ocre_timer_delete, decrement_resource_count, IInv
<1>4. m \in live
  BY <1>1 DEF IInv, CallsInProgress
<1>5. Private' <=> Private
  BY DEF Private
<1>6. CallsInProgress' /\ OwnersLive'
  BY <1>1, <1>2 DEF IInv, CallsInProgress, OwnersLive
<1>7. ASSUME Private
      PROVE  /\ Owned(m)' = Owned(m) \ {t} /\ t \in Owned(m)
             /\ \A n \in Modules : n # m => Owned(n)' = Owned(n)
  <2>1. t \in Owned(m)
    BY <1>1, <1>7 DEF IInv, ChecksHold
  <2>2. QED
    BY <1>2, <2>1 DEF Owned
<1>8. ChecksHold'
  <2> SUFFICES ASSUME Private
               PROVE  /\ \A u \in TimerIds : timers'[u].in_use => u \in uses[timers'[u].owner]
                      /\ \A n \in Modules : doing'[n] # Idle =>
                           IF doing'[n].op = "create" THEN ~ timers'[doing'[n].t].in_use
                                                      ELSE doing'[n].t \in Owned(n)'
    BY <1>5 DEF ChecksHold
  <2>1. \A u \in TimerIds : timers'[u].in_use => u \in uses[timers'[u].owner]
    BY <1>2 DEF IInv, ChecksHold
  <2>2. ASSUME NEW n \in Modules, doing'[n] # Idle
        PROVE  IF doing'[n].op = "create" THEN ~ timers'[doing'[n].t].in_use
                                          ELSE doing'[n].t \in Owned(n)'
    <3>1. n # m /\ doing'[n] = doing[n]
      BY <1>1, <2>2
    <3>2. doing[n].t # t /\ doing[n].t \in TimerIds
      <4>1. doing[n] # Idle /\ doing[m].t = t
        BY <1>1, <2>2, <3>1
      <4>2. doing[n].t # doing[m].t
        BY <1>1, <3>1, <4>1, OwnTimers
      <4>3. doing[n].t \in TimerIds
        BY <4>1, Types DEF IInv
      <4>4. QED
        BY <4>1, <4>2, <4>3
    <3>3. IF doing[n].op = "create" THEN ~ timers[doing[n].t].in_use
                                    ELSE doing[n].t \in Owned(n)
      BY <2>2, <3>1 DEF IInv, ChecksHold
    <3>4. Owned(n)' = Owned(n) /\ timers'[doing[n].t] = timers[doing[n].t]
      BY <1>2, <1>7, <3>1, <3>2
    <3>5. QED
      BY <3>1, <3>3, <3>4
  <2>3. QED
    BY <2>1, <2>2
<1>9. Counted'
  <2> SUFFICES ASSUME Private, NEW n \in Modules
               PROVE  /\ IsFiniteSet(Owned(n)')
                      /\ n \in live' => resource_count'[n] = Cardinality(Owned(n)')
    BY <1>5 DEF Counted
  <2>1. /\ IsFiniteSet(Owned(n))
        /\ n \in live => resource_count[n] = Cardinality(Owned(n))
    BY DEF IInv, Counted
  <2>2. CASE n = m
    <3>1. IsFiniteSet(Owned(m)') /\ Cardinality(Owned(m)') = Cardinality(Owned(m)) - 1
      BY <1>7, <2>1, <2>2, FS_RemoveElement
    <3>2. Cardinality(Owned(m)) \in Nat /\ Cardinality(Owned(m)) # 0
      BY <1>7, <2>1, <2>2, FS_CardinalityType, FS_EmptySet
    <3>3. QED
      BY <1>3, <1>4, <2>1, <2>2, <3>1, <3>2
  <2>3. CASE n # m
    BY <1>1, <1>3, <1>7, <2>1, <2>3
  <2>4. QED
    BY <2>2, <2>3
<1>10. RunningSound'
  BY <1>1, <1>2, <1>5 DEF IInv, RunningSound
<1>11. QED
  BY <1>6, <1>8, <1>9, <1>10

\* ocre_timer_start and ocre_timer_stop: the owner stays.
LEMMA StartIInv ==
  ASSUME IInv, UNCHANGED uses, NEW m \in Modules, NEW t \in TimerIds,
         ocre_timer_start(m, t)
  PROVE  CallsInProgress' /\ OwnersLive' /\ ChecksHold' /\ Counted' /\ RunningSound'
<1>1. PICK p \in BOOLEAN, r \in BOOLEAN :
        /\ Set(t, p, r)
        /\ r => core' = [core EXCEPT ![t] = IF p THEN "periodic" ELSE "once"]
        /\ ~ r => UNCHANGED core
  BY DEF ocre_timer_start
<1>2. /\ timers'[t].periodic = p /\ timers'[t].running = r
      /\ timers'[t].in_use = timers[t].in_use /\ timers'[t].owner = timers[t].owner
      /\ \A u \in TimerIds : u # t => timers'[u] = timers[u]
  <2>1. DOMAIN timers = TimerIds /\ \A u \in TimerIds :
          timers[u] \in [in_use : BOOLEAN, owner : Modules \union {NULL},
                         periodic : BOOLEAN, running : BOOLEAN]
    BY DEF IInv, TimersTypeOK
  <2>2. QED
    BY <1>1, <2>1 DEF Set
<1>3. /\ UNCHANGED <<live, resource_count, callback>>
      /\ doing[m] = [op |-> "start", t |-> t] /\ doing[m] # Idle
      /\ \A n \in Modules : doing'[n] = doing[n] \/ doing'[n] = Idle
  BY DEF ocre_timer_start, Doing, Idle, IInv, TimersTypeOK
<1>4. CallsInProgress' /\ OwnersLive' /\ ChecksHold' /\ Counted'
  BY <1>2, <1>3, QuietStep
<1>5. RunningSound'
  <2> SUFFICES ASSUME Private, NEW u \in TimerIds, timers'[u].running
               PROVE  /\ timers'[u].in_use
                      /\ timers'[u].periodic => core'[u] = "periodic"
                      /\ core'[u] \in Armed \/ callback'[u].at \in {"check", "read"}
    BY DEF RunningSound, Private
  <2>1. CASE u = t
    <3>1. timers[t].in_use
      BY <1>3 DEF IInv, ChecksHold, Owned
    <3>2. core' = [core EXCEPT ![t] = IF p THEN "periodic" ELSE "once"]
      BY <1>1, <1>2, <2>1
    <3>3. core'[t] = IF p THEN "periodic" ELSE "once"
      BY <3>2 DEF IInv, TimersTypeOK
    <3>4. QED
      BY <1>2, <2>1, <3>1, <3>3 DEF Armed
  <2>2. CASE u # t
    <3>1. core'[u] = core[u]
      BY <1>1, <2>2 DEF IInv, TimersTypeOK
    <3>2. QED
      BY <1>2, <1>3, <2>2, <3>1 DEF IInv, RunningSound
  <2>3. QED
    BY <2>1, <2>2
<1>6. QED
  BY <1>4, <1>5

LEMMA StopIInv ==
  ASSUME IInv, UNCHANGED uses, NEW m \in Modules, NEW t \in TimerIds,
         ocre_timer_stop(m, t)
  PROVE  CallsInProgress' /\ OwnersLive' /\ ChecksHold' /\ Counted' /\ RunningSound'
<1>1. timers' = [timers EXCEPT ![t].running = FALSE]
  BY DEF ocre_timer_stop
<1>2. /\ ~ timers'[t].running
      /\ timers'[t].in_use = timers[t].in_use /\ timers'[t].owner = timers[t].owner
      /\ \A u \in TimerIds : u # t => timers'[u] = timers[u]
  <2>1. DOMAIN timers = TimerIds /\ \A u \in TimerIds :
          timers[u] \in [in_use : BOOLEAN, owner : Modules \union {NULL},
                         periodic : BOOLEAN, running : BOOLEAN]
    BY DEF IInv, TimersTypeOK
  <2>2. QED
    BY <1>1, <2>1
<1>3. /\ UNCHANGED <<live, resource_count, callback>>
      /\ \A n \in Modules : doing'[n] = doing[n] \/ doing'[n] = Idle
      /\ \A u \in TimerIds : u # t => core'[u] = core[u]
  BY DEF ocre_timer_stop, Doing, IInv, TimersTypeOK
<1>4. CallsInProgress' /\ OwnersLive' /\ ChecksHold' /\ Counted'
  BY <1>2, <1>3, QuietStep
<1>5. RunningSound'
  BY <1>2, <1>3 DEF IInv, RunningSound, Private
<1>6. QED
  BY <1>4, <1>5

\* A POSIX timer expires: the callback that it starts stands for it.
LEMMA ExpireIInv ==
  ASSUME IInv, UNCHANGED uses, NEW t \in TimerIds, Expire(t)
  PROVE  CallsInProgress' /\ OwnersLive' /\ ChecksHold' /\ Counted' /\ RunningSound'
<1>1. /\ UNCHANGED <<live, resource_count, timers, doing>>
      /\ callback'[t].at = "check"
      /\ core[t] = "periodic" => core'[t] = "periodic"
      /\ \A u \in TimerIds : u # t => core'[u] = core[u] /\ callback'[u] = callback[u]
  BY DEF Expire, IInv, TimersTypeOK
<1>2. CallsInProgress' /\ OwnersLive' /\ ChecksHold' /\ Counted'
  BY <1>1, QuietStep
<1>3. RunningSound'
  BY <1>1 DEF IInv, RunningSound, Private
<1>4. QED
  BY <1>2, <1>3

\* unified_timer_callback: a timer that is running exists and has an owner, so
\* that the callback goes on to it.
LEMMA CheckIInv ==
  ASSUME IInv, UNCHANGED uses, NEW t \in TimerIds, CallbackCheck(t)
  PROVE  CallsInProgress' /\ OwnersLive' /\ ChecksHold' /\ Counted' /\ RunningSound'
<1>1. /\ UNCHANGED <<live, resource_count, timers, core, doing>>
      /\ timers[t].in_use /\ timers[t].owner # NULL => callback'[t].at = "read"
      /\ \A u \in TimerIds : u # t => callback'[u] = callback[u]
  BY DEF CallbackCheck, IInv, TimersTypeOK
<1>2. timers[t].in_use => timers[t].owner # NULL
  BY EventsAssumption, Types DEF IInv, OwnersLive, EventsAssumption
<1>3. CallsInProgress' /\ OwnersLive' /\ ChecksHold' /\ Counted'
  BY <1>1, QuietStep
<1>4. RunningSound'
  BY <1>1, <1>2 DEF IInv, RunningSound, Private
<1>5. QED
  BY <1>3, <1>4

\* It says of a timer that is not periodic that it is over.
LEMMA ReadIInv ==
  ASSUME IInv, UNCHANGED uses, NEW t \in TimerIds, CallbackRead(t)
  PROVE  CallsInProgress' /\ OwnersLive' /\ ChecksHold' /\ Counted' /\ RunningSound'
<1>1. timers' = [timers EXCEPT ![t].running = @ /\ timers[t].periodic]
  BY DEF CallbackRead
<1>2. /\ timers'[t].running => timers[t].running /\ timers[t].periodic
      /\ timers'[t].periodic = timers[t].periodic
      /\ timers'[t].in_use = timers[t].in_use /\ timers'[t].owner = timers[t].owner
      /\ \A u \in TimerIds : u # t => timers'[u] = timers[u]
  <2>1. DOMAIN timers = TimerIds /\ \A u \in TimerIds :
          timers[u] \in [in_use : BOOLEAN, owner : Modules \union {NULL},
                         periodic : BOOLEAN, running : BOOLEAN]
    BY DEF IInv, TimersTypeOK
  <2>2. QED
    BY <1>1, <2>1
<1>3. /\ UNCHANGED <<live, resource_count, core, doing>>
      /\ \A u \in TimerIds : u # t => callback'[u] = callback[u]
  BY DEF CallbackRead, IInv, TimersTypeOK
<1>4. CallsInProgress' /\ OwnersLive' /\ ChecksHold' /\ Counted'
  BY <1>2, <1>3, QuietStep
<1>5. RunningSound'
  BY <1>2, <1>3 DEF IInv, RunningSound, Private, Armed
<1>6. QED
  BY <1>4, <1>5

LEMMA PutIInv ==
  ASSUME IInv, UNCHANGED uses, NEW t \in TimerIds, CallbackPut(t)
  PROVE  CallsInProgress' /\ OwnersLive' /\ ChecksHold' /\ Counted' /\ RunningSound'
<1>1. /\ UNCHANGED <<live, resource_count, timers, core, doing>>
      /\ callback[t].at = "put"
      /\ \A u \in TimerIds : u # t => callback'[u] = callback[u]
  BY DEF CallbackPut, IInv, TimersTypeOK
<1>2. CallsInProgress' /\ OwnersLive' /\ ChecksHold' /\ Counted'
  BY <1>1, QuietStep
<1>3. RunningSound'
  BY <1>1 DEF IInv, RunningSound, Private
<1>4. QED
  BY <1>2, <1>3

---------------------------------------------------------------------------
(* The life of a module *)

\* A module that is registered owns nothing: what an earlier instance had was
\* cleaned up when it exited.
LEMMA RegisterIInv ==
  ASSUME IInv, UNCHANGED uses, NEW m \in Modules, Register(m)
  PROVE  CallsInProgress' /\ OwnersLive' /\ ChecksHold' /\ Counted' /\ RunningSound'
<1>1. /\ UNCHANGED <<timers, core, callback, doing>>
      /\ m \notin live /\ live' = live \union {m}
      /\ resource_count'[m] = 0
      /\ \A n \in Modules : n # m => resource_count'[n] = resource_count[n]
  BY Types DEF Register, ocre_register_module, IInv
<1>2. (Private' <=> Private) /\ \A n : Owned(n)' = Owned(n)
  BY <1>1 DEF Private, Owned
<1>3. Owned(m) = {}
  BY <1>1 DEF Owned, IInv, OwnersLive
<1>4. CallsInProgress' /\ OwnersLive'
  BY <1>1 DEF IInv, CallsInProgress, OwnersLive
<1>5. ChecksHold' /\ RunningSound'
  BY <1>1, <1>2 DEF IInv, ChecksHold, RunningSound
<1>6. Counted'
  BY <1>1, <1>2, <1>3, FS_EmptySet DEF IInv, Counted
<1>7. QED
  BY <1>4, <1>5, <1>6

\* ocre_timer_cleanup_container: the timers of the module are gone, and no
\* other module's.
LEMMA CleanupIInv ==
  ASSUME IInv, UNCHANGED uses, NEW m \in Modules, Cleanup(m)
  PROVE  CallsInProgress' /\ OwnersLive' /\ ChecksHold' /\ Counted' /\ RunningSound'
<1>1. /\ UNCHANGED <<callback, doing>>
      /\ live' = live \ {m} /\ doing[m] = Idle
      /\ \A n \in Modules : n # m => resource_count'[n] = resource_count[n]
  BY Types DEF Cleanup, ocre_unregister_module, IInv
<1>2. \A t \in TimerIds : t \in Owned(m) => ~ timers'[t].in_use /\ ~ timers'[t].running
  <2>1. timers' = [t \in TimerIds |-> IF t \in Owned(m) THEN Cleared(t) ELSE timers[t]]
    BY DEF Cleanup
  <2>2. \A t \in TimerIds :
          timers[t] \in [in_use : BOOLEAN, owner : Modules \union {NULL},
                         periodic : BOOLEAN, running : BOOLEAN]
    BY DEF IInv, TimersTypeOK
  <2>3. QED
    BY <2>1, <2>2 DEF Cleared
<1>3. \A t \in TimerIds : t \notin Owned(m) => timers'[t] = timers[t] /\ core'[t] = core[t]
  BY DEF Cleanup
<1>4. Private' <=> Private
  BY DEF Private
<1>5. \A n \in Modules : n # m => Owned(n)' = Owned(n)
  BY <1>2, <1>3 DEF Owned
<1>6. Owned(m)' = {}
  BY <1>2, <1>3 DEF Owned
<1>7. CallsInProgress'
  BY <1>1 DEF IInv, CallsInProgress
<1>8. OwnersLive'
  <2> SUFFICES ASSUME NEW t \in TimerIds, timers'[t].in_use
               PROVE  timers'[t].owner \in live'
    BY DEF OwnersLive
  <2>1. t \notin Owned(m) /\ timers'[t] = timers[t]
    BY <1>2, <1>3
  <2>2. timers[t].owner # m /\ timers[t].owner \in live
    BY <2>1 DEF Owned, IInv, OwnersLive
  <2>3. QED
    BY <1>1, <2>1, <2>2
<1>9. ChecksHold'
  <2> SUFFICES ASSUME Private
               PROVE  /\ \A u \in TimerIds : timers'[u].in_use => u \in uses[timers'[u].owner]
                      /\ \A n \in Modules : doing'[n] # Idle =>
                           IF doing'[n].op = "create" THEN ~ timers'[doing'[n].t].in_use
                                                      ELSE doing'[n].t \in Owned(n)'
    BY <1>4 DEF ChecksHold
  <2>1. \A u \in TimerIds : timers'[u].in_use => u \in uses[timers'[u].owner]
    BY <1>2, <1>3 DEF IInv, ChecksHold
  <2>2. ASSUME NEW n \in Modules, doing'[n] # Idle
        PROVE  IF doing'[n].op = "create" THEN ~ timers'[doing'[n].t].in_use
                                          ELSE doing'[n].t \in Owned(n)'
    <3>1. n # m /\ doing[n] # Idle /\ doing'[n] = doing[n]
      BY <1>1, <2>2
    <3>2. doing[n].t \notin Owned(m) /\ doing[n].t \in TimerIds
      BY <3>1, OwnTimers, Types DEF IInv
    <3>3. IF doing[n].op = "create" THEN ~ timers[doing[n].t].in_use
                                    ELSE doing[n].t \in Owned(n)
      BY <3>1 DEF IInv, ChecksHold
    <3>4. Owned(n)' = Owned(n) /\ timers'[doing[n].t] = timers[doing[n].t]
      BY <1>3, <1>5, <3>1, <3>2
    <3>5. QED
      BY <3>1, <3>3, <3>4
  <2>3. QED
    BY <2>1, <2>2
<1>10. Counted'
  BY <1>1, <1>4, <1>5, <1>6, FS_EmptySet DEF IInv, Counted
<1>11. RunningSound'
  BY <1>1, <1>2, <1>3, <1>4 DEF IInv, RunningSound
<1>12. QED
  BY <1>7, <1>8, <1>9, <1>10, <1>11

LEMMA GetIInv ==
  ASSUME IInv, UNCHANGED uses, NEW m \in Modules, GetEvent(m)
  PROVE  CallsInProgress' /\ OwnersLive' /\ ChecksHold' /\ Counted' /\ RunningSound'
<1>1. UNCHANGED <<live, resource_count, timers, core, callback, doing>>
  BY DEF GetEvent
<1>2. CallsInProgress' /\ OwnersLive' /\ ChecksHold' /\ Counted'
  BY <1>1, QuietStep
<1>3. RunningSound'
  BY <1>1 DEF IInv, RunningSound, Private
<1>4. QED
  BY <1>2, <1>3

---------------------------------------------------------------------------
(* The theorems *)

LEMMA NextIInv ==
  ASSUME IInv, [TimersNext]_allTimerVars
  PROVE  IInv'
<1>1. CASE UNCHANGED allTimerVars
  <2>1. UNCHANGED <<uses, live, gen, queue, resource_count, timers, core, stray, callback, doing>>
    BY <1>1 DEF allTimerVars
  <2>2. TimersTypeOK'
    BY <2>1 DEF IInv, TimersTypeOK, EventsTypeOK
  <2>3. CallsInProgress' /\ OwnersLive' /\ ChecksHold' /\ Counted'
    BY <2>1, QuietStep
  <2>4. RunningSound'
    BY <2>1 DEF IInv, RunningSound, Private
  <2>5. QED
    BY <2>2, <2>3, <2>4 DEF IInv
<1>2. CASE TimersNext
  <2>1. TimersTypeOK' /\ UNCHANGED uses
    BY <1>2, NextType DEF IInv, TimersNext
  <2>2. ASSUME NEW m \in Modules, ModuleNext(m)
        PROVE  CallsInProgress' /\ OwnersLive' /\ ChecksHold' /\ Counted' /\ RunningSound'
    BY <2>1, <2>2, RegisterIInv, CleanupIInv, GetIInv, CallIInv, CreateIInv,
       CreateFailsIInv, DeleteIInv, StartIInv, StopIInv
       DEF ModuleNext, Effect
  <2>3. ASSUME NEW t \in TimerIds, Expire(t) \/ Callback(t)
        PROVE  CallsInProgress' /\ OwnersLive' /\ ChecksHold' /\ Counted' /\ RunningSound'
    BY <2>1, <2>3, ExpireIInv, CheckIInv, ReadIInv, PutIInv DEF Callback
  <2>4. QED
    BY <1>2, <2>1, <2>2, <2>3 DEF TimersNext, IInv
<1>3. QED
  BY <1>1, <1>2

\* IInv holds always, whatever calls and callbacks interleave.
THEOREM Invariance == TimersSpec => []IInv
<1>1. TimersInit => IInv
  BY InitIInv
<1>2. IInv /\ [TimersNext]_allTimerVars => IInv'
  BY NextIInv
<1>3. QED
  BY <1>1, <1>2, PTL DEF TimersSpec

\* Every variable stays in its type: the count of a module is a number, and the
\* queue of the events does not overflow.
THEOREM TypeCorrect == TimersSpec => []TimersTypeOK
<1>1. IInv => TimersTypeOK
  BY DEF IInv
<1>2. QED
  BY <1>1, Invariance, PTL

\* No timer outlives its module, and where modules keep to timers of their own
\* the count of a module is the number of its timers
\* (ocre_timer_create, ocre_timer_delete and ocre_timer_cleanup_container).
THEOREM Accounted == TimersSpec => []TimersAccounted
<1>1. IInv => TimersAccounted
  BY Types DEF IInv, TimersAccounted, OwnersLive, Counted
<1>2. QED
  BY <1>1, Invariance, PTL

\* Where modules keep to timers of their own, a timer that says it is running is
\* armed or has a callback that will say otherwise, although neither the calls
\* nor unified_timer_callback hold a lock.
THEOREM RunningArmed == TimersSpec => []RunningIsArmed
<1>1. IInv => RunningIsArmed
  BY DEF IInv, RunningIsArmed, RunningSound
<1>2. QED
  BY <1>1, Invariance, PTL
=============================================================================
