---------------------------- MODULE LibraryProofs ----------------------------
(***************************************************************************)
(* What holds of the library for any threads, working directories and      *)
(* lists of engines, and however often it is initialised.                  *)
(***************************************************************************)
EXTENDS Library, FiniteSetTheorems, SequenceTheorems, TLAPS

\* The engines of the list up to a position
Before(n) == {runtimes[i] : i \in 1 .. n - 1}

\* Which engines are initialised at each point of ocre_initialize and
\* ocre_deinitialize.
EnginesReady ==
  /\ phase = "down" => ready = {} /\ runtimes = <<>>
  /\ phase = "init" => ready = Before(next) /\ runtimes # <<>> /\ runtimes[1] = Wamr
  /\ phase = "up" => ready = Engines
  /\ phase = "deinit" => ready \subseteq Engines
  /\ phase \in {"up", "deinit"} => next = 1

\* Until the library is initialised a second time, the queue is made with the
\* first engine, which is WAMR.
QueueMade ==
  /\ inits = 0 => phase = "down" /\ ~ common_init
  /\ phase = "init" /\ inits = 1 =>
       /\ next = 1 => ~ common_init
       /\ next > 1 => common_init /\ eventq = "ready"
  /\ phase = "up" /\ inits = 1 => eventq = "ready"

\* Contexts exist, and calls are made, while the library is up.
ContextsInPhase ==
  phase # "up" => /\ \A t \in Threads : calls[t] = Idle
                  /\ Faulty("context") \/ contexts = {}

IInv ==
  /\ LibraryTypeOK
  /\ UniqueWorkdirs
  /\ UniqueNames(runtimes)
  /\ EnginesReady
  /\ QueueMade
  /\ ContextsInPhase

USE LibraryAssumption DEF LibraryAssumption

\* Before ocre_initialize.
LEMMA InitIInv == LibraryInit => IInv
<1> SUFFICES ASSUME LibraryInit PROVE IInv
  OBVIOUS
<1>1. runtimes \in Seq(Names) /\ Len(runtimes) = 0
  BY EmptySeq DEF LibraryInit
<1>2. LibraryTypeOK
  <2>1. next \in 1 .. Len(runtimes) + 1
    BY <1>1 DEF LibraryInit
  <2>2. inits \in 0 .. MaxInits /\ created \in 0 .. MaxContexts
    BY DEF LibraryInit
  <2>3. common_init \in BOOLEAN
    BY DEF LibraryInit
  <2>4. QED
    BY <1>1, <2>1, <2>2, <2>3 DEF LibraryInit, LibraryTypeOK
<1>3. UniqueNames(runtimes)
  BY <1>1 DEF LibraryInit, UniqueNames
<1>4. QED
  BY <1>2, <1>3 DEF LibraryInit, IInv, UniqueWorkdirs, EnginesReady, QueueMade,
                    ContextsInPhase

\* ocre_initialize up to the initialisation of the first engine: whether or
\* not the names are accepted, no engine is initialised yet.
LEMMA InitializeIInv ==
  ASSUME IInv, NEW vtable \in Vtables, Initialize(vtable), UNCHANGED setting
  PROVE  IInv'
<1> DEFINE engines == <<Wamr>> \o vtable
<1>1. /\ phase = "down" /\ ready = {} /\ inits' = inits + 1 /\ inits < MaxInits
      /\ next' = 1 /\ contexts' = {} /\ contexts_mutex' = "free"
      /\ UNCHANGED <<ready, eventq, common_init, created, calls>>
  BY DEF Initialize, IInv, EnginesReady
<1>2. \A t \in Threads : calls[t] = Idle
  BY <1>1 DEF IInv, ContextsInPhase
<1>3. engines \in Seq(Names) /\ Len(engines) >= 1 /\ engines[1] = Wamr
  <2>1. <<Wamr>> \in Seq(Names) /\ Len(<<Wamr>>) = 1
    BY DEF Names
  <2>2. vtable \in Seq(Names) /\ Len(vtable) \in Nat
    BY LenProperties
  <2>3. QED
    BY <2>1, <2>2, ConcatProperties
<1>4. \/ UniqueNames(engines) /\ runtimes' = engines /\ phase' = "init"
      \/ runtimes' = <<>> /\ phase' = "down"
  BY <1>1 DEF Initialize
<1>5. runtimes' \in Seq(Names) /\ UniqueNames(runtimes')
  <2>1. <<>> \in Seq(Names) /\ UniqueNames(<<>>)
    BY EmptySeq DEF UniqueNames
  <2>2. QED
    BY <1>3, <1>4, <2>1
<1>6. LibraryTypeOK'
  BY <1>1, <1>4, <1>5 DEF IInv, LibraryTypeOK, Contexts
<1>7. EnginesReady'
  BY <1>1, <1>3, <1>4 DEF EnginesReady, Before
<1>8. QueueMade'
  BY <1>1, <1>4 DEF IInv, LibraryTypeOK, QueueMade
<1>9. UniqueWorkdirs' /\ ContextsInPhase'
  BY <1>1, <1>2 DEF UniqueWorkdirs, ContextsInPhase
<1>10. QED
  BY <1>5, <1>6, <1>7, <1>8, <1>9 DEF IInv, UniqueNames

\* The loop of ocre_initialize, and what follows it.
LEMMA InitializeLoopIInv ==
  ASSUME IInv, InitializeEngine \/ InitializeFails \/ InitializeDone, UNCHANGED setting
  PROVE  IInv'
<1> USE DEF IInv
<1>1. /\ phase = "init" /\ ready = Before(next)
      /\ runtimes # <<>> /\ runtimes[1] = Wamr
      /\ UNCHANGED <<inits, runtimes, contextVars>>
  BY DEF InitializeEngine, InitializeFails, InitializeDone, EnginesReady
<1>2. runtimes \in Seq(Names) /\ DOMAIN runtimes = 1 .. Len(runtimes)
  BY LenProperties DEF LibraryTypeOK
<1>3. next \in 1 .. Len(runtimes) + 1
  BY DEF LibraryTypeOK
<1>4. UniqueNames(runtimes)' /\ UniqueWorkdirs'
  BY <1>1 DEF contextVars, UniqueNames, UniqueWorkdirs
<1>5. ContextsInPhase'
  BY <1>1 DEF contextVars, ContextsInPhase, Faulty
<1>6. CASE InitializeEngine
  <2>1. /\ next \in DOMAIN runtimes /\ next' = next + 1 /\ phase' = "init"
        /\ ready' = ready \union {runtimes[next]}
        /\ common_init' \in BOOLEAN
        /\ common_init' <=> common_init \/ runtimes[next] = Wamr
        /\ eventq' = IF runtimes[next] = Wamr /\ ~ common_init THEN "ready" ELSE eventq
    BY <1>1, <1>6 DEF InitializeEngine, EngineInit
  <2>2. LibraryTypeOK'
    BY <1>1, <1>2, <1>3, <2>1, ElementOfSeq DEF LibraryTypeOK, contextVars
  <2>3. ready' = Before(next)'
    BY <1>1, <1>2, <1>3, <2>1 DEF Before
  <2>4. EnginesReady'
    BY <1>1, <2>1, <2>3 DEF EnginesReady
  <2>5. QueueMade'
    <3>1. inits' = inits /\ inits # 0
      BY <1>1 DEF QueueMade
    <3>2. CASE next = 1
      BY <1>1, <2>1, <3>1, <3>2 DEF QueueMade
    <3>3. CASE next # 1
      BY <1>1, <1>3, <2>1, <3>1, <3>3 DEF QueueMade
    <3>4. QED
      BY <3>2, <3>3
  <2>6. QED
    BY <1>4, <1>5, <2>2, <2>4, <2>5
<1>7. CASE InitializeFails
  <2>1. phase' = "deinit" /\ next' = 1 /\ UNCHANGED <<ready, eventq, common_init>>
    BY <1>7 DEF InitializeFails
  <2>2. LibraryTypeOK' /\ QueueMade'
    BY <1>1, <1>2, <1>3, <2>1 DEF LibraryTypeOK, contextVars, QueueMade
  <2>3. EnginesReady'
    BY <1>1, <1>2, <1>3, <2>1 DEF EnginesReady, Before, Engines
  <2>4. QED
    BY <1>4, <1>5, <2>2, <2>3
<1>8. CASE InitializeDone
  <2>1. /\ next \notin DOMAIN runtimes
        /\ phase' = "up" /\ next' = 1 /\ UNCHANGED <<ready, eventq, common_init>>
    BY <1>8 DEF InitializeDone
  <2>2. next = Len(runtimes) + 1 /\ next # 1
    BY <1>1, <1>2, <1>3, <2>1, EmptySeq
  <2>3. LibraryTypeOK' /\ QueueMade'
    BY <1>1, <1>2, <1>3, <2>1, <2>2 DEF LibraryTypeOK, contextVars, QueueMade
  <2>4. EnginesReady'
    BY <1>1, <1>2, <1>3, <2>1, <2>2 DEF EnginesReady, Before, Engines
  <2>5. QED
    BY <1>4, <1>5, <2>3, <2>4
<1>9. QED
  BY <1>6, <1>7, <1>8

\* ocre_deinitialize: the engines leave the list one by one, each after its
\* deinit.
LEMMA DeinitializeIInv ==
  ASSUME IInv, Deinitialize \/ DeinitializeEngine \/ DeinitializeDone,
         UNCHANGED setting
  PROVE  IInv'
<1> USE DEF IInv
<1>2. runtimes \in Seq(Names) /\ DOMAIN runtimes = 1 .. Len(runtimes)
  BY LenProperties DEF LibraryTypeOK
<1>3. CASE Deinitialize
  <2>1. /\ phase = "up" /\ phase' = "deinit" /\ next = 1
        /\ \A t \in Threads : calls[t] = Idle
        /\ contexts' \subseteq contexts
        /\ contexts' = {} \/ Faulty("context")
        /\ UNCHANGED <<inits, runtimes, ready, next, eventq, common_init, created,
                       contexts_mutex, calls>>
    BY <1>3 DEF Deinitialize, EnginesReady
  <2>2. LibraryTypeOK' /\ UniqueWorkdirs' /\ ContextsInPhase'
    BY <2>1 DEF LibraryTypeOK, UniqueWorkdirs, ContextsInPhase, Faulty
  <2>3. EnginesReady' /\ QueueMade' /\ UniqueNames(runtimes)'
    BY <2>1 DEF EnginesReady, QueueMade, UniqueNames, Engines
  <2>4. QED
    BY <2>2, <2>3
<1>4. CASE DeinitializeEngine
  <2>1. /\ phase = "deinit" /\ runtimes # <<>> /\ runtimes' = Tail(runtimes)
        /\ ready' = ready \ {Head(runtimes)} /\ next = 1
        /\ eventq' \in {eventq, "destroyed"}
        /\ UNCHANGED <<phase, inits, next, common_init, contextVars>>
    BY <1>4 DEF DeinitializeEngine, EnginesReady
  <2>2. /\ runtimes' \in Seq(Names) /\ Len(runtimes') = Len(runtimes) - 1
        /\ Len(runtimes') \in Nat
        /\ \A i \in 1 .. Len(runtimes') : runtimes'[i] = runtimes[i + 1]
        /\ Head(runtimes) = runtimes[1]
        /\ DOMAIN runtimes' = 1 .. Len(runtimes')
    BY <1>2, <2>1, HeadTailProperties, LenProperties
  <2>3. LibraryTypeOK'
    <3>1. next' \in 1 .. Len(runtimes') + 1
      BY <2>1, <2>2
    <3>2. ready' \subseteq Names /\ eventq' \in {"none", "ready", "destroyed"}
      BY <2>1 DEF LibraryTypeOK
    <3>3. QED
      BY <2>1, <2>2, <3>1, <3>2 DEF LibraryTypeOK, contextVars
  <2>4. UniqueNames(runtimes)'
    BY <1>2, <2>2 DEF UniqueNames
  <2>5. ready' \subseteq Engines'
    <3> SUFFICES ASSUME NEW e \in ready' PROVE e \in Engines'
      OBVIOUS
    <3>1. PICK i \in 1 .. Len(runtimes) : e = runtimes[i] /\ i # 1
      BY <1>2, <2>1, <2>2 DEF EnginesReady, Engines
    <3>2. i - 1 \in 1 .. Len(runtimes') /\ runtimes'[i - 1] = e
      BY <1>2, <2>2, <3>1
    <3>3. QED
      BY <2>2, <3>2 DEF Engines
  <2>6. EnginesReady' /\ QueueMade'
    BY <2>1, <2>5 DEF EnginesReady, QueueMade
  <2>7. UniqueWorkdirs' /\ ContextsInPhase'
    BY <2>1 DEF UniqueWorkdirs, ContextsInPhase, contextVars, Faulty
  <2>8. QED
    BY <2>3, <2>4, <2>6, <2>7
<1>5. CASE DeinitializeDone
  <2>1. /\ phase = "deinit" /\ runtimes = <<>> /\ phase' = "down"
        /\ UNCHANGED <<inits, runtimes, ready, next, eventq, common_init, contextVars>>
    BY <1>5 DEF DeinitializeDone
  <2>2. Engines = {}
    BY <2>1 DEF Engines
  <2>3. EnginesReady' /\ QueueMade'
    BY <2>1, <2>2 DEF EnginesReady, QueueMade
  <2>4. QED
    BY <2>1, <2>3 DEF LibraryTypeOK, UniqueWorkdirs, UniqueNames, ContextsInPhase,
                      contextVars, Faulty
<1>6. QED
  BY <1>3, <1>4, <1>5

\* ocre_create_context and ocre_destroy_context, whose threads take the mutex in
\* any order.
LEMMA ThreadIInv ==
  ASSUME IInv, NEW t \in Threads, ThreadNext(t), UNCHANGED setting
  PROVE  IInv'
<1> USE DEF IInv
<1>1. UNCHANGED engineVars /\ phase = "up"
  <2>1. CASE Locked(t)
    BY <2>1 DEF Locked, ocre_create_context, ocre_destroy_context, DestroyFails,
                ContextsInPhase, Idle
  <2>2. CASE ~ Locked(t)
    BY <2>2 DEF ThreadNext, CreateCall, DestroyCall, Call
  <2>3. QED
    BY <2>1, <2>2
<1>2. UniqueNames(runtimes)' /\ EnginesReady' /\ QueueMade' /\ ContextsInPhase'
  BY <1>1 DEF engineVars, UniqueNames, EnginesReady, QueueMade, ContextsInPhase,
              Engines, Before
<1>3. LibraryTypeOK'
  <2> USE <1>1 DEF LibraryTypeOK, engineVars, Return
  <2>1. ASSUME NEW w \in Workdirs, CreateCall(t, w) PROVE LibraryTypeOK'
    BY <2>1 DEF CreateCall, Call
  <2>2. ASSUME NEW c \in Contexts, DestroyCall(t, c) PROVE LibraryTypeOK'
    BY <2>2 DEF DestroyCall, Call
  <2>3. CASE ocre_create_context(t)
    <3>1. calls[t][2] \in Workdirs
      BY <2>3 DEF ocre_create_context, Idle
    <3>2. QED
      BY <2>3, <3>1 DEF ocre_create_context, Contexts
  <2>4. CASE ocre_destroy_context(t)
    BY <2>4 DEF ocre_destroy_context
  <2>5. CASE DestroyFails(t)
    BY <2>5 DEF DestroyFails
  <2>6. QED
    BY <2>1, <2>2, <2>3, <2>4, <2>5 DEF ThreadNext, Locked
<1>4. UniqueWorkdirs'
  <2>1. CASE ocre_create_context(t)
    BY <2>1 DEF ocre_create_context, UniqueWorkdirs, WorkdirFree
  <2>2. CASE ~ ocre_create_context(t)
    <3>1. contexts' \subseteq contexts
      BY <2>2 DEF ThreadNext, CreateCall, DestroyCall, Call, Locked,
                  ocre_destroy_context, DestroyFails
    <3>2. QED
      BY <3>1 DEF UniqueWorkdirs
  <2>3. QED
    BY <2>1, <2>2
<1>5. QED
  BY <1>2, <1>3, <1>4

LEMMA NextIInv == IInv /\ [LibraryNext]_libraryVars => IInv'
<1> SUFFICES ASSUME IInv, [LibraryNext]_libraryVars
             PROVE  IInv'
  OBVIOUS
<1>1. CASE LibraryNext
  BY <1>1, InitializeIInv, InitializeLoopIInv, DeinitializeIInv, ThreadIInv
     DEF LibraryNext, EngineNext
<1>2. CASE UNCHANGED libraryVars
  BY <1>2 DEF libraryVars, engineVars, contextVars, IInv, LibraryTypeOK, UniqueWorkdirs,
              UniqueNames, EnginesReady, QueueMade, ContextsInPhase, Before, Engines,
              Faulty
<1>3. QED
  BY <1>1, <1>2

\* The invariant that the theorems rest on.
THEOREM Invariance == LibrarySpec => []IInv
BY InitIInv, NextIInv, PTL DEF LibrarySpec

\* Every variable keeps its type.
THEOREM TypeCorrect == LibrarySpec => []LibraryTypeOK
BY Invariance, PTL DEF IInv

\* ocre_create_context never gives one working directory to two contexts.
THEOREM WorkdirsAreUnique == LibrarySpec => []UniqueWorkdirs
BY Invariance, PTL DEF IInv

\* The positions of a list, as many as it is long.
LEMMA IntervalCount ==
  ASSUME NEW n \in Nat
  PROVE  IsFiniteSet(1 .. n) /\ Cardinality(1 .. n) = n
BY FS_Interval

\* A list in which no name is twice has as many names as positions: what the
\* check of ocre_initialize for a name that is registered amounts to.
LEMMA UniqueNamesCount ==
  ASSUME runtimes \in Seq(Names), UniqueNames(runtimes)
  PROVE  Cardinality(Engines) = Len(runtimes)
<1>1. Len(runtimes) \in Nat /\ DOMAIN runtimes = 1 .. Len(runtimes)
  BY LenProperties
<1>2. IsFiniteSet(1 .. Len(runtimes)) /\ Cardinality(1 .. Len(runtimes)) = Len(runtimes)
  BY <1>1, IntervalCount
<1>3. runtimes \in [1 .. Len(runtimes) -> Engines]
  BY <1>1, LenProperties DEF Engines
<1>4. runtimes \in Bijection(1 .. Len(runtimes), Engines)
  BY <1>1, <1>3 DEF UniqueNames, Engines, Bijection, Injection, Surjection, IsInjective
<1>5. QED
  BY <1>2, <1>4, FS_Bijection DEF ExistsBijection

\* What ocre_initialize and ocre_deinitialize leave, on every path.
THEOREM PhasesHold == LibrarySpec => []PhaseHolds
<1>1. IInv => PhaseHolds
  BY UniqueNamesCount DEF IInv, PhaseHolds, LibraryTypeOK, EnginesReady, QueueMade,
                          ContextsInPhase
<1>2. QED
  BY <1>1, Invariance, PTL
=============================================================================
