-------------------------------- MODULE Timers --------------------------------
(***************************************************************************)
(* The timers of the containers (ocre_api/ocre_timers/ocre_timer.c over    *)
(* ocre_api/core/core_timer.c).  The table of timers has no lock: every    *)
(* container's thread works on it, and so do the threads that POSIX starts *)
(* when a timer expires (SIGEV_THREAD).  A call is therefore two steps,    *)
(* its checks and its effect, and a callback is three: its checks, what it *)
(* reads and writes of the timer, and the event it queues.                 *)
(*                                                                         *)
(* A call that its checks refuse returns an error and changes nothing.     *)
(* Time is left out: an armed timer may expire at any moment.              *)
(***************************************************************************)
EXTENDS Events

CONSTANTS
  TimerIds,  \* 1 .. CONFIG_OCRE_MAX_TIMERS
  Uses,      \* which modules use which timers: functions from Modules
  Ops,       \* the operations the modules call
  MaxCount,  \* bound: a module at this resource count creates no timer
  Faults     \* the POSIX calls that may fail

ASSUME TimersAssumption ==
  /\ Uses \subseteq [Modules -> SUBSET TimerIds]
  /\ Ops \subseteq {"create", "delete", "start", "stop"}
  /\ MaxCount \in Nat
  /\ Faults \subseteq {"timer_create", "timer_settime"}

VARIABLES
  uses,      \* uses[m]: the timers that the modules at m use; never changes
  timers,    \* the table: in_use, owner, periodic and running
  core,      \* core[t]: the POSIX timer that timers[t] names
  stray,     \* stray[t]: armed POSIX timers of t whose name was overwritten
  callback,  \* callback[t]: the callback of t in progress, at most one
  doing      \* doing[m]: the call that m's thread is in, after its checks

timerVars == <<timers, core, stray, callback, doing>>
allTimerVars == <<uses, eventVars, timerVars>>

Armed == {"once", "periodic"}
Idle == [op |-> "none", t |-> 0]
NoCallback == [at |-> "none", owner |-> NULL, gen |-> 0]

TimersTypeOK ==
  /\ uses \in Uses
  /\ EventsTypeOK(TimerIds)
  /\ timers \in [TimerIds -> [in_use : BOOLEAN, owner : Modules \union {NULL},
                              periodic : BOOLEAN, running : BOOLEAN]]
  /\ core \in [TimerIds -> {"none", "off"} \union Armed]
  /\ stray \in [TimerIds -> SUBSET Armed]
  /\ callback \in [TimerIds -> [at : {"none", "check", "read", "put"},
                                owner : Modules \union {NULL}, gen : Nat]]
  /\ doing \in [Modules -> {Idle} \union [op : Ops, t : TimerIds]]

\* ocre_timer_init: the table is zero.
TimersInit ==
  /\ uses \in Uses
  /\ EventsInit
  /\ timers = [t \in TimerIds |-> [in_use |-> FALSE, owner |-> NULL,
                                   periodic |-> FALSE, running |-> FALSE]]
  /\ core = [t \in TimerIds |-> "none"]
  /\ stray = [t \in TimerIds |-> {}]
  /\ callback = [t \in TimerIds |-> NoCallback]
  /\ doing = [m \in Modules |-> Idle]

Owned(m) == {t \in TimerIds : timers[t].in_use /\ timers[t].owner = m}

---------------------------------------------------------------------------
(* The calls of a module *)

\* What a call checks before it does anything.
Permitted(m, op, t) ==
  IF op = "create" THEN ~ timers[t].in_use ELSE t \in Owned(m)

TimerCall(m, op, t) ==
  /\ m \in live
  /\ doing[m] = Idle
  /\ op \in Ops
  /\ t \in uses[m]
  /\ op = "create" => resource_count[m] < MaxCount
  /\ Permitted(m, op, t)
  /\ doing' = [doing EXCEPT ![m] = [op |-> op, t |-> t]]
  /\ UNCHANGED <<eventVars, timers, core, stray, callback>>

Doing(m, op, t) ==
  /\ doing[m] = [op |-> op, t |-> t]
  /\ doing' = [doing EXCEPT ![m] = Idle]

\* timer_create overwrites the name of the POSIX timer, if there is one.
ocre_timer_create(m, t) ==
  /\ Doing(m, "create", t)
  /\ timers' = [timers EXCEPT ![t].in_use = TRUE, ![t].owner = m]
  /\ stray' = [stray EXCEPT ![t] = @ \union ({core[t]} \intersect Armed)]
  /\ core' = [core EXCEPT ![t] = "off"]
  /\ increment_resource_count(m)
  /\ UNCHANGED <<live, gen, queue, callback>>

CreateFails(m, t) ==
  /\ "timer_create" \in Faults
  /\ Doing(m, "create", t)
  /\ timers' = [timers EXCEPT ![t].in_use = FALSE, ![t].owner = m]
  /\ UNCHANGED <<eventVars, core, stray, callback>>

Cleared(t) == [timers[t] EXCEPT !.in_use = FALSE, !.running = FALSE, !.owner = NULL]

ocre_timer_delete(m, t) ==
  /\ Doing(m, "delete", t)
  /\ core' = [core EXCEPT ![t] = "none"]
  /\ timers' = [timers EXCEPT ![t] = Cleared(t)]
  /\ decrement_resource_count(m)
  /\ UNCHANGED <<live, gen, queue, stray, callback>>

Set(t, periodic, running) ==
  timers' = [timers EXCEPT ![t].periodic = periodic, ![t].running = running]

ocre_timer_start(m, t) ==
  /\ Doing(m, "start", t)
  /\ \E periodic \in BOOLEAN :
       \/ /\ core[t] # "none"
          /\ Set(t, periodic, TRUE)
          /\ core' = [core EXCEPT ![t] = IF periodic THEN "periodic" ELSE "once"]
       \/ /\ core[t] = "none" \/ "timer_settime" \in Faults
          /\ Set(t, periodic, FALSE)
          /\ UNCHANGED core
  /\ UNCHANGED <<eventVars, stray, callback>>

\* Whether the POSIX timer could be stopped is not looked at.
ocre_timer_stop(m, t) ==
  /\ Doing(m, "stop", t)
  /\ timers' = [timers EXCEPT ![t].running = FALSE]
  /\ \/ core' = [core EXCEPT ![t] = IF @ = "none" THEN "none" ELSE "off"]
     \/ "timer_settime" \in Faults /\ UNCHANGED core
  /\ UNCHANGED <<eventVars, stray, callback>>

---------------------------------------------------------------------------
(* The POSIX timers and unified_timer_callback *)

Expire(t) ==
  /\ callback[t].at = "none"
  /\ callback' = [callback EXCEPT ![t].at = "check"]
  /\ \/ /\ core[t] \in Armed
        /\ core' = [core EXCEPT ![t] = IF @ = "once" THEN "off" ELSE @]
        /\ UNCHANGED stray
     \/ \E kind \in stray[t] :
          /\ stray' = [stray EXCEPT ![t] = @ \ ({kind} \intersect {"once"})]
          /\ UNCHANGED core
  /\ UNCHANGED <<eventVars, timers, doing>>

CallbackCheck(t) ==
  /\ callback[t].at = "check"
  /\ callback' = [callback EXCEPT ![t].at =
                    IF timers[t].in_use /\ timers[t].owner # NULL THEN "read" ELSE "none"]
  /\ UNCHANGED <<eventVars, timers, core, stray, doing>>

Mut_OneShotKeepsRunning(t) ==
  /\ callback[t].at = "read"
  /\ callback' = [callback EXCEPT ![t] =
                    [at |-> "put", owner |-> timers[t].owner, gen |-> GenOf(timers[t].owner)]]
  /\ UNCHANGED <<eventVars, timers, core, stray, doing>>

\* The timer is used without looking again whether it still exists.
CallbackRead(t) ==
  /\ callback[t].at = "read"
  /\ timers' = [timers EXCEPT ![t].running = @ /\ timers[t].periodic]
  /\ callback' = [callback EXCEPT ![t] =
                    [at |-> "put", owner |-> timers[t].owner, gen |-> GenOf(timers[t].owner)]]
  /\ UNCHANGED <<eventVars, core, stray, doing>>

CallbackPut(t) ==
  /\ callback[t].at = "put"
  /\ Put([owner |-> callback[t].owner, gen |-> callback[t].gen, body |-> t])
  /\ callback' = [callback EXCEPT ![t] = NoCallback]
  /\ UNCHANGED <<live, gen, resource_count, timers, core, stray, doing>>

---------------------------------------------------------------------------
(* The life of a module *)

Register(m) == ocre_register_module(m) /\ UNCHANGED timerVars

Mut_CleanupOnlyRunning(m) ==
  /\ doing[m] = Idle
  /\ ocre_unregister_module(m)
  /\ timers' = [t \in TimerIds |->
                  IF t \in Owned(m) /\ timers[t].running THEN Cleared(t) ELSE timers[t]]
  /\ core' = [t \in TimerIds |->
                IF t \in Owned(m) /\ timers[t].running THEN "none" ELSE core[t]]
  /\ UNCHANGED <<stray, callback, doing>>

\* ocre_timer_cleanup_container: the timers are independent of one another,
\* so that their cleanup is one step.
Cleanup(m) ==
  /\ doing[m] = Idle
  /\ ocre_unregister_module(m)
  /\ timers' = [t \in TimerIds |-> IF t \in Owned(m) THEN Cleared(t) ELSE timers[t]]
  /\ core' = [t \in TimerIds |-> IF t \in Owned(m) THEN "none" ELSE core[t]]
  /\ UNCHANGED <<stray, callback, doing>>

GetEvent(m) ==
  /\ doing[m] = Idle
  /\ ocre_get_event(m)
  /\ UNCHANGED <<live, gen, resource_count, timerVars>>

Effect(m, t) ==
  \/ ocre_timer_create(m, t)
  \/ CreateFails(m, t)
  \/ ocre_timer_delete(m, t)
  \/ ocre_timer_start(m, t)
  \/ ocre_timer_stop(m, t)

Callback(t) == CallbackCheck(t) \/ CallbackRead(t) \/ CallbackPut(t)

ModuleNext(m) ==
  \/ Register(m)
  \/ Cleanup(m)
  \/ GetEvent(m)
  \/ \E t \in TimerIds : Effect(m, t) \/ \E op \in Ops : TimerCall(m, op, t)

TimersNext ==
  /\ \/ \E m \in Modules : ModuleNext(m)
     \/ \E t \in TimerIds : Expire(t) \/ Callback(t)
  /\ UNCHANGED uses

TimersSpec == TimersInit /\ [][TimersNext]_allTimerVars

---------------------------------------------------------------------------
\* No module uses a timer of another one.
Private == \A m, n \in Modules : m # n => uses[m] \intersect uses[n] = {}

\* No timer outlives its module: whatever is in use belongs to a registered
\* instance, so that the callback never makes an event out of a timer that
\* nobody can delete any more.  Where modules keep to timers of their own, a
\* module's count is the number of its timers: each create that returned 0
\* made a timer that is the module's until it deletes it, failures and
\* callbacks notwithstanding.  (The table has no lock: two modules may create
\* one timer.)
TimersAccounted ==
  /\ \A t \in TimerIds : timers[t].in_use => timers[t].owner \in live
  /\ Private => \A m \in live : resource_count[m] = Cardinality(Owned(m))

\* A timer that says it is running has a POSIX timer that is armed, or a
\* callback under way that will say that it is not.
RunningIsArmed ==
  Private =>
    \A t \in TimerIds :
      timers[t].running => core[t] \in Armed \/ callback[t].at \in {"check", "read"}
=============================================================================
