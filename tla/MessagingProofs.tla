--------------------------- MODULE MessagingProofs ---------------------------
(***************************************************************************)
(* What holds of the messages for any number of modules, subscriptions,    *)
(* topics and messages.                                                    *)
(***************************************************************************)
EXTENDS Messaging, FiniteSetTheorems, SequenceTheorems, TLAPS

\* m is between the lock of ocre_messaging_publish and its end.
Publishing(m) == calls[m].at \in {"slots", "count", "increment"}

OnePublisher == \A p, q \in publishers : p = q

\* A module in a call is registered, and one in a publication is a publisher.
CallsSound ==
  \A m \in Modules :
    /\ calls[m].at # "idle" => m \in live
    /\ calls[m].at = "init" => calls[m].then \in {"subscribe", "publish"}
    /\ calls[m].at = "publish" \/ Publishing(m) => calls[m].then = "publish"
    /\ calls[m].then = "publish" => m \in publishers

\* Until the system is initialised nobody is past the check of the flag.
Started ==
  /\ initialized => clears >= 1
  /\ ~ initialized =>
       /\ clears = 0
       /\ mutex = NULL
       /\ \A s \in Slots : ~ subscriptions[s].active
       /\ \A m \in Modules : calls[m].at \in {"idle", "init"}

\* A subscription is of a registered instance.
SubscribersLive ==
  \A s \in Slots : subscriptions[s].active => subscriptions[s].module \in live

Counted ==
  clears <= 1 => \A m \in live : resource_count[m] = Cardinality(Active(m))

\* Unless the mutex was made anew while it was held, the walk over the slots is
\* made under it, and its message is the last one published.
WalkLocked ==
  clears <= 1 =>
    \A m \in Modules : calls[m].at = "slots" => mutex = m /\ calls[m].msg = published

\* No message is ahead of the publications.
MessagesPublished ==
  /\ \A i \in DOMAIN queue : queue[i].body.msg <= published
  /\ \A m \in Modules : Publishing(m) => calls[m].msg <= published

QueueInOrder ==
  clears <= 1 =>
    \A i, j \in DOMAIN queue : i < j => queue[i].body.msg <= queue[j].body.msg

\* Where one module publishes: the id of the message under way is the counter,
\* which is only then an id in the queue.
IdUnderWay ==
  OnePublisher =>
    /\ \A m \in Modules : Publishing(m) => calls[m].msg = published
    /\ \A m \in Modules : calls[m].at = "increment" => calls[m].id = message_id
    /\ \A i \in DOMAIN queue : queue[i].body.id <= message_id
    /\ \A i \in DOMAIN queue : queue[i].body.id = message_id =>
         \E m \in Modules : Publishing(m) /\ calls[m].sent /\ queue[i].body.msg = published
    /\ \A i \in DOMAIN queue, m \in Modules :
         Publishing(m) /\ queue[i].body.msg = published => queue[i].body.id = message_id

IdsNameMessages ==
  OnePublisher =>
    \A i, j \in DOMAIN queue :
      queue[i].body.id = queue[j].body.id <=> queue[i].body.msg = queue[j].body.msg

IInv ==
  /\ MessagingTypeOK
  /\ CallsSound
  /\ Started
  /\ SubscribersLive
  /\ Counted
  /\ WalkLocked
  /\ MessagesPublished
  /\ QueueInOrder
  /\ IdUnderWay
  /\ IdsNameMessages

USE DEF eventVars, messagingVars

LEMMA IdleType == Idle \in CallType /\ Free \in Subscription
<1>1. <<>> \in Seq(Nat)
  BY EmptySeq
<1>2. QED
  BY <1>1 DEF Idle, Free, CallType, Subscription, Places

\* A module's subscriptions are finitely many.
LEMMA ActiveFinite == \A m : IsFiniteSet(Active(m))
<1>1. MaxSubscriptions \in Nat
  BY MessagingAssumption DEF MessagingAssumption
<1>2. IsFiniteSet(Slots)
  BY <1>1, FS_Interval DEF Slots
<1>3. \A m : Active(m) \in SUBSET Slots
  BY DEF Active
<1>4. QED
  BY <1>2, <1>3, FS_Subset

\* ocre_messaging_init has not run: the table is empty and nobody is in a call.
LEMMA InitIInv == MessagingInit => IInv
<1> SUFFICES ASSUME MessagingInit PROVE IInv
  OBVIOUS
<1>1. EventsTypeOK(Message)
  BY EventsAssumption, EmptySeq
     DEF MessagingInit, EventsInit, EventsAssumption, EventsTypeOK
<1>2. HeapSize \in Nat /\ MaxMessages \in Nat
  BY MessagingAssumption DEF MessagingAssumption
<1>3. subscriptions \in [Slots -> Subscription] /\ calls \in [Modules -> CallType]
  BY IdleType DEF MessagingInit
<1>4. /\ clears \in Nat /\ message_id \in Nat /\ published \in 0 .. MaxMessages
      /\ heap \in [Modules -> 0 .. HeapSize] /\ held \in [Modules -> Nat]
  BY <1>2 DEF MessagingInit
<1>5. /\ initialized \in BOOLEAN /\ publishers \in Publishers
      /\ mutex \in Modules \union {NULL}
  BY DEF MessagingInit
<1>6. MessagingTypeOK
  BY <1>1, <1>3, <1>4, <1>5 DEF MessagingTypeOK
<1>7. Counted
  BY DEF Counted, MessagingInit, EventsInit
<1>8. Len(queue) = 0 /\ DOMAIN queue = {}
  BY EmptySeq DEF MessagingInit, EventsInit
<1>9. /\ \A m \in Modules : calls[m].at = "idle" /\ calls[m].then = "idle"
      /\ \A s \in Slots : ~ subscriptions[s].active
  BY DEF MessagingInit, Idle, Free
<1>10. CallsSound /\ Started /\ SubscribersLive /\ WalkLocked
  BY <1>9 DEF MessagingInit, CallsSound, Started, SubscribersLive, WalkLocked, Publishing
<1>11. MessagesPublished /\ QueueInOrder /\ IdUnderWay /\ IdsNameMessages
  BY <1>8, <1>9 DEF MessagesPublished, QueueInOrder, IdUnderWay, IdsNameMessages, Publishing
<1>12. QED
  BY <1>6, <1>7, <1>10, <1>11 DEF IInv

---------------------------------------------------------------------------
(* Types *)

\* What the proofs below use of the types.
LEMMA Types ==
  ASSUME MessagingTypeOK
  PROVE  /\ live \subseteq Modules
         /\ gen \in [Modules -> 0 .. MaxInstances]
         /\ resource_count \in [Modules -> Nat]
         /\ queue \in Seq(Event(Message))
         /\ Len(queue) <= QueueSize
         /\ publishers \subseteq Modules
         /\ clears \in Nat /\ message_id \in Nat /\ published \in Nat
         /\ heap \in [Modules -> 0 .. HeapSize] /\ held \in [Modules -> Nat]
<1>1. MaxMessages \in Nat /\ Publishers \subseteq SUBSET Modules
  BY MessagingAssumption DEF MessagingAssumption
<1>2. EventsTypeOK(Message) /\ publishers \in Publishers /\ published \in 0 .. MaxMessages
  BY DEF MessagingTypeOK
<1>3. /\ clears \in Nat /\ message_id \in Nat
      /\ heap \in [Modules -> 0 .. HeapSize] /\ held \in [Modules -> Nat]
  BY DEF MessagingTypeOK
<1>4. QED
  BY <1>1, <1>2, <1>3 DEF EventsTypeOK

LEMMA TableType ==
  ASSUME MessagingTypeOK
  PROVE  subscriptions \in [Slots -> Subscription]
BY DEF MessagingTypeOK

LEMMA CallsType ==
  ASSUME MessagingTypeOK
  PROVE  calls \in [Modules -> CallType]
BY DEF MessagingTypeOK

\* The queue and its elements.
LEMMA QueueElements ==
  ASSUME MessagingTypeOK
  PROVE  /\ Len(queue) \in Nat /\ DOMAIN queue = 1 .. Len(queue)
         /\ \A i \in DOMAIN queue : /\ queue[i] \in Event(Message)
                                    /\ queue[i].body.id \in Nat
                                    /\ queue[i].body.msg \in Nat
<1>1. queue \in Seq(Event(Message))
  BY Types
<1>2. Len(queue) \in Nat /\ DOMAIN queue = 1 .. Len(queue)
  BY <1>1, LenProperties
<1>3. \A i \in DOMAIN queue : queue[i] \in Event(Message)
  BY <1>1, <1>2, ElementOfSeq
<1>4. QED
  BY <1>2, <1>3 DEF Event, Message

\* core_eventq_put: a full queue drops the event, and another has it at its end.
LEMMA PutQueue ==
  ASSUME MessagingTypeOK, NEW event \in Event(Message), Put(event)
  PROVE  /\ queue' \in Seq(Event(Message)) /\ Len(queue') <= QueueSize
         /\ Full => queue' = queue
         /\ ~ Full => /\ DOMAIN queue' = 1 .. Len(queue) + 1
                      /\ queue'[Len(queue) + 1] = event
                      /\ \A i \in DOMAIN queue : queue'[i] = queue[i]
<1>1. /\ queue \in Seq(Event(Message)) /\ Len(queue) <= QueueSize
      /\ Len(queue) \in Nat /\ DOMAIN queue = 1 .. Len(queue)
  BY Types, QueueElements
<1>2. CASE Full
  BY <1>1, <1>2 DEF Put
<1>3. CASE ~ Full
  <2>1. queue' = Append(queue, event)
    BY <1>3 DEF Put
  <2>2. /\ queue' \in Seq(Event(Message)) /\ Len(queue') = Len(queue) + 1
        /\ queue'[Len(queue) + 1] = event
        /\ \A i \in 1 .. Len(queue) : queue'[i] = queue[i]
    BY <1>1, <2>1, AppendProperties
  <2>3. DOMAIN queue' = 1 .. Len(queue) + 1
    BY <2>2, LenProperties
  <2>4. Len(queue) + 1 <= QueueSize
    BY <1>1, <1>3, EventsAssumption DEF Full, EventsAssumption
  <2>5. QED
    BY <1>1, <1>3, <2>2, <2>3, <2>4
<1>4. QED
  BY <1>2, <1>3

\* ocre_get_event takes the head: every element moves up by one.
LEMMA GetQueue ==
  ASSUME MessagingTypeOK, NEW m, ocre_get_event(m)
  PROVE  /\ queue' \in Seq(Event(Message)) /\ Len(queue') <= QueueSize
         /\ Len(queue') = Len(queue) - 1 /\ Len(queue) >= 1
         /\ DOMAIN queue' = 1 .. Len(queue) - 1
         /\ \A i \in DOMAIN queue' : i + 1 \in DOMAIN queue /\ queue'[i] = queue[i + 1]
<1>1. /\ queue \in Seq(Event(Message)) /\ Len(queue) <= QueueSize
      /\ Len(queue) \in Nat /\ DOMAIN queue = 1 .. Len(queue)
  BY Types, QueueElements
<1>2. queue # <<>> /\ queue' = Tail(queue)
  BY DEF ocre_get_event
<1>3. /\ queue' \in Seq(Event(Message)) /\ Len(queue') = Len(queue) - 1
      /\ \A i \in 1 .. Len(queue') : queue'[i] = queue[i + 1]
  BY <1>1, <1>2, HeadTailProperties
<1>4. DOMAIN queue' = 1 .. Len(queue') /\ Len(queue) # 0
  BY <1>1, <1>2, <1>3, LenProperties, EmptySeq
<1>5. QED
  BY <1>1, <1>3, <1>4, EventsAssumption DEF EventsAssumption

\* strncpy keeps the part of a topic that fits.
LEMMA StoredType ==
  ASSUME NEW topic \in Seq(Nat)
  PROVE  Stored(topic) \in Seq(Nat)
<1> DEFINE n == IF Len(topic) < TopicLen THEN Len(topic) ELSE TopicLen
<1>1. Len(topic) \in Nat /\ TopicLen \in Nat
  BY LenProperties, MessagingAssumption DEF MessagingAssumption
<1>2. n \in Int /\ n <= Len(topic)
  BY <1>1
<1>3. \A i \in 1 .. n : topic[i] \in Nat
  BY <1>1, <1>2, ElementOfSeq
<1>4. SubSeq(topic, 1, n) \in Seq(Nat)
  BY <1>2, <1>3, SubSeqProperties
<1>5. QED
  BY <1>4 DEF Stored

\* The subscriber that a publication reaches is registered.
LEMMA Target ==
  ASSUME IInv, NEW m \in Modules, calls[m].slot \in Slots,
         Matches(calls[m].slot, calls[m].topic)
  PROVE  /\ subscriptions[calls[m].slot].module \in live
         /\ subscriptions[calls[m].slot].module \in Modules
BY Types DEF IInv, SubscribersLive, Matches

\* The event that it gets is of the type of the events.
LEMMA EventType ==
  ASSUME MessagingTypeOK, NEW m \in Modules, NEW target \in Modules
  PROVE  /\ MessageEvent(m, target) \in Event(Message)
         /\ MessageEvent(m, target).body.id = message_id
         /\ MessageEvent(m, target).body.msg = calls[m].msg
<1>1. calls[m].msg \in Nat
  BY CallsType DEF CallType
<1>2. gen[target] \in Nat /\ message_id \in Nat
  BY Types, EventsAssumption DEF EventsAssumption
<1>3. QED
  BY <1>1, <1>2 DEF MessageEvent, Event, Message

\* Every step keeps every variable in its type.
LEMMA NextType ==
  ASSUME IInv, UNCHANGED publishers, NEW m \in Modules, ModuleNext(m)
  PROVE  MessagingTypeOK'
<1>0. MessagingTypeOK
  BY DEF IInv
<1>a. UNCHANGED eventVars => EventsTypeOK(Message)'
  BY <1>0 DEF EventsTypeOK, MessagingTypeOK
<1>b. EventsTypeOK(Message)
  BY <1>0 DEF MessagingTypeOK
<1>c. /\ publishers' \in Publishers /\ initialized \in BOOLEAN
      /\ mutex \in Modules \union {NULL}
  BY <1>0 DEF MessagingTypeOK
<1>d. calls \in [Modules -> CallType] /\ calls[m] \in CallType
  BY <1>0, CallsType
<1>e. subscriptions \in [Slots -> Subscription]
  BY <1>0, TableType
<1>f. /\ clears \in Nat /\ message_id \in Nat /\ published \in 0 .. MaxMessages
      /\ heap \in [Modules -> 0 .. HeapSize] /\ held \in [Modules -> Nat]
  BY <1>0 DEF MessagingTypeOK
<1>g. HeapSize \in Nat /\ MaxMessages \in Nat /\ Topics \subseteq Seq(Nat)
  BY MessagingAssumption DEF MessagingAssumption
<1>h. ASSUME NEW c \in CallType, calls' = [calls EXCEPT ![m] = c]
      PROVE  calls' \in [Modules -> CallType]
  BY <1>d, <1>h
<1>1. ASSUME NEW topic \in Topics, SubscribeCall(m, topic) \/ PublishCall(m, topic)
      PROVE  MessagingTypeOK'
  <2>1. PICK place \in Places : Begin(m, topic, place)
    BY <1>1 DEF SubscribeCall, PublishCall, Places
  <2>2. /\ UNCHANGED <<eventVars, initialized, clears, mutex, subscriptions, message_id,
                       published, heap, held>>
        /\ calls' = [calls EXCEPT ![m] = [Idle EXCEPT !.topic = topic, !.then = place,
                       !.at = IF initialized THEN place ELSE "init"]]
    BY <2>1 DEF Begin
  <2>3. [Idle EXCEPT !.topic = topic, !.then = place,
                     !.at = IF initialized THEN place ELSE "init"] \in CallType
    BY <1>g, IdleType DEF CallType, Places
  <2>4. calls' \in [Modules -> CallType]
    BY <1>h, <2>2, <2>3
  <2>5. QED
    BY <1>a, <1>c, <1>e, <1>f, <2>2, <2>4 DEF MessagingTypeOK
<1>2. ASSUME ocre_messaging_init(m) PROVE MessagingTypeOK'
  <2>1. /\ UNCHANGED <<eventVars, message_id, published, heap, held>>
        /\ initialized' = TRUE /\ mutex' = NULL /\ clears' = clears + 1
        /\ subscriptions' = [s \in Slots |-> Free]
        /\ calls' = [calls EXCEPT ![m].at = calls[m].then]
    BY <1>2 DEF ocre_messaging_init
  <2>2. calls' \in [Modules -> CallType]
    BY <1>d, <2>1 DEF CallType
  <2>3. subscriptions' \in [Slots -> Subscription]
    BY <2>1, IdleType
  <2>4. clears' \in Nat /\ message_id' \in Nat /\ published' \in 0 .. MaxMessages
        /\ heap' \in [Modules -> 0 .. HeapSize] /\ held' \in [Modules -> Nat]
    BY <1>f, <2>1
  <2>5. QED
    BY <1>a, <1>c, <2>1, <2>2, <2>3, <2>4 DEF MessagingTypeOK
<1>3. ASSUME ocre_messaging_subscribe(m) PROVE MessagingTypeOK'
  <2>1. UNCHANGED <<live, gen, queue, initialized, clears, mutex, message_id, published,
                    heap, held>>
    BY <1>3 DEF ocre_messaging_subscribe
  <2>2. EventsTypeOK(Message)'
    BY <1>3, <1>b, <2>1
       DEF ocre_messaging_subscribe, increment_resource_count, EventsTypeOK
  <2>3. calls' \in [Modules -> CallType]
    BY <1>3, <1>h, IdleType DEF ocre_messaging_subscribe
  <2>4. subscriptions' \in [Slots -> Subscription]
    <3>1. Stored(calls[m].topic) \in Seq(Nat)
      BY <1>d, StoredType DEF CallType
    <3>2. [active |-> TRUE, module |-> m, topic |-> Stored(calls[m].topic)] \in Subscription
      BY <3>1 DEF Subscription
    <3>3. \/ UNCHANGED subscriptions
          \/ subscriptions' = [subscriptions EXCEPT ![FirstFree] =
               [active |-> TRUE, module |-> m, topic |-> Stored(calls[m].topic)]]
      BY <1>3 DEF ocre_messaging_subscribe
    <3>4. QED
      BY <1>e, <3>2, <3>3
  <2>5. QED
    BY <1>c, <1>f, <2>1, <2>2, <2>3, <2>4 DEF MessagingTypeOK
<1>4. ASSUME PublishLock(m) PROVE MessagingTypeOK'
  <2>1. /\ UNCHANGED <<eventVars, initialized, clears, subscriptions, message_id, heap, held>>
        /\ mutex' = m /\ published < MaxMessages /\ published' = published + 1
        /\ calls' = [calls EXCEPT ![m] = [@ EXCEPT !.at = "slots", !.slot = 1,
                                            !.sent = FALSE, !.msg = published']]
    BY <1>4 DEF PublishLock
  <2>2. published' \in 0 .. MaxMessages /\ published' \in Nat
    BY <1>f, <1>g, <2>1
  <2>3. calls' \in [Modules -> CallType]
    BY <1>d, <2>1, <2>2 DEF CallType, Places
  <2>4. QED
    BY <1>a, <1>c, <1>e, <1>f, <2>1, <2>2, <2>3 DEF MessagingTypeOK
<1>5. ASSUME NEW sent, sent \in BOOLEAN, NextSlot(m, sent) PROVE calls' \in [Modules -> CallType]
  <2>1. calls' = [calls EXCEPT ![m].slot = calls[m].slot + 1, ![m].sent = sent]
    BY <1>5 DEF NextSlot
  <2>2. calls[m].slot + 1 \in Nat
    BY <1>d DEF CallType
  <2>3. CASE sent = TRUE
    BY <1>d, <2>1, <2>2, <2>3 DEF CallType
  <2>4. CASE sent = FALSE
    BY <1>d, <2>1, <2>2, <2>4 DEF CallType
  <2>5. QED
    BY <1>5, <2>3, <2>4
<1>6. ASSUME PublishSkips(m) \/ PublishNoMemory(m) PROVE MessagingTypeOK'
  <2>1. /\ UNCHANGED <<eventVars, initialized, clears, mutex, subscriptions, message_id,
                       published, heap, held>>
        /\ NextSlot(m, calls[m].sent)
    BY <1>6 DEF PublishSkips, PublishNoMemory
  <2>2. calls[m].sent \in BOOLEAN
    BY <1>d DEF CallType
  <2>3. calls' \in [Modules -> CallType]
    BY <1>5, <2>1, <2>2
  <2>4. QED
    BY <1>a, <1>c, <1>e, <1>f, <2>1, <2>3 DEF MessagingTypeOK
<1>7. ASSUME PublishPuts(m) PROVE MessagingTypeOK'
  <2> DEFINE target == subscriptions[calls[m].slot].module
  <2>1. /\ UNCHANGED <<live, gen, resource_count, initialized, clears, mutex, subscriptions,
                       message_id, published, held>>
        /\ Put(MessageEvent(m, target))
        /\ heap[target] < HeapSize
        /\ heap' = [heap EXCEPT ![target] = IF Full THEN @ ELSE @ + 1]
        /\ NextSlot(m, calls[m].sent \/ ~ Full)
        /\ calls[m].slot \in Slots /\ Matches(calls[m].slot, calls[m].topic)
    BY <1>7 DEF PublishPuts
  <2>2. target \in Modules
    BY <2>1, Target
  <2>3. queue' \in Seq(Event(Message)) /\ Len(queue') <= QueueSize
    BY <1>0, <2>1, <2>2, EventType, PutQueue
  <2>4. EventsTypeOK(Message)'
    BY <1>b, <2>1, <2>3 DEF EventsTypeOK
  <2>5. calls' \in [Modules -> CallType]
    BY <1>5, <2>1
  <2>6. heap' \in [Modules -> 0 .. HeapSize]
    <3>1. heap[target] \in 0 .. HeapSize /\ heap[target] + 1 \in 0 .. HeapSize
      BY <1>f, <1>g, <2>1, <2>2
    <3>2. QED
      BY <1>f, <2>1, <3>1
  <2>7. QED
    BY <1>c, <1>e, <1>f, <2>1, <2>4, <2>5, <2>6 DEF MessagingTypeOK
<1>8. ASSUME PublishUnlock(m) PROVE MessagingTypeOK'
  <2>1. /\ UNCHANGED <<eventVars, initialized, clears, subscriptions, message_id, published,
                       heap, held>>
        /\ mutex' = NULL
        /\ calls' = [calls EXCEPT ![m] = IF calls[m].sent THEN [@ EXCEPT !.at = "count"] ELSE Idle]
    BY <1>8 DEF PublishUnlock
  <2>2. [calls[m] EXCEPT !.at = "count"] \in CallType
    BY <1>d DEF CallType, Places
  <2>3. calls' \in [Modules -> CallType]
    BY <1>d, <2>1, <2>2, IdleType
  <2>4. QED
    BY <1>a, <1>c, <1>e, <1>f, <2>1, <2>3 DEF MessagingTypeOK
<1>9. ASSUME PublishCount(m) PROVE MessagingTypeOK'
  <2>1. /\ UNCHANGED <<eventVars, initialized, clears, mutex, subscriptions, message_id,
                       published, heap, held>>
        /\ calls' = [calls EXCEPT ![m] = [@ EXCEPT !.at = "increment", !.id = message_id]]
    BY <1>9 DEF PublishCount
  <2>2. calls' \in [Modules -> CallType]
    BY <1>d, <1>f, <2>1 DEF CallType, Places
  <2>3. QED
    BY <1>a, <1>c, <1>e, <1>f, <2>1, <2>2 DEF MessagingTypeOK
<1>10. ASSUME PublishIncrement(m) PROVE MessagingTypeOK'
  <2>1. /\ UNCHANGED <<eventVars, initialized, clears, mutex, subscriptions, published,
                       heap, held>>
        /\ message_id' = calls[m].id + 1
        /\ calls' = [calls EXCEPT ![m] = Idle]
    BY <1>10 DEF PublishIncrement
  <2>2. message_id' \in Nat
    BY <1>d, <2>1 DEF CallType
  <2>3. calls' \in [Modules -> CallType]
    BY <1>h, <2>1, IdleType
  <2>4. QED
    BY <1>a, <1>c, <1>e, <1>f, <2>1, <2>2, <2>3 DEF MessagingTypeOK
<1>11. ASSUME Register(m) PROVE MessagingTypeOK'
  <2>1. /\ UNCHANGED <<initialized, clears, mutex, subscriptions, message_id, calls, published>>
        /\ heap' = [heap EXCEPT ![m] = 0] /\ held' = [held EXCEPT ![m] = 0]
        /\ ocre_register_module(m)
    BY <1>11 DEF Register
  <2>2. EventsTypeOK(Message)'
    BY <1>b, <2>1, EventsAssumption DEF ocre_register_module, EventsTypeOK, EventsAssumption
  <2>3. heap' \in [Modules -> 0 .. HeapSize] /\ held' \in [Modules -> Nat]
    BY <1>f, <1>g, <2>1
  <2>4. QED
    BY <1>c, <1>d, <1>e, <1>f, <2>1, <2>2, <2>3 DEF MessagingTypeOK
<1>12. ASSUME Cleanup(m) PROVE MessagingTypeOK'
  <2>1. /\ UNCHANGED <<initialized, clears, mutex, message_id, calls, published, heap, held>>
        /\ ocre_unregister_module(m)
        /\ subscriptions' = [s \in Slots |->
             IF initialized /\ s \in Active(m) THEN Free ELSE subscriptions[s]]
    BY <1>12 DEF Cleanup
  <2>2. EventsTypeOK(Message)'
    BY <1>b, <2>1 DEF ocre_unregister_module, EventsTypeOK
  <2>3. subscriptions' \in [Slots -> Subscription]
    BY <1>e, <2>1, IdleType
  <2>4. QED
    BY <1>c, <1>d, <1>f, <2>1, <2>2, <2>3 DEF MessagingTypeOK
<1>13. ASSUME GetEvent(m) PROVE MessagingTypeOK'
  <2>1. /\ UNCHANGED <<live, gen, resource_count, initialized, clears, mutex, subscriptions,
                       message_id, calls, published, heap>>
        /\ held' = [held EXCEPT ![m] = @ + 1] /\ ocre_get_event(m)
    BY <1>13 DEF GetEvent
  <2>2. queue' \in Seq(Event(Message)) /\ Len(queue') <= QueueSize
    BY <1>0, <2>1, GetQueue
  <2>3. EventsTypeOK(Message)'
    BY <1>b, <2>1, <2>2 DEF EventsTypeOK
  <2>4. held' \in [Modules -> Nat]
    BY <1>f, <2>1
  <2>5. QED
    BY <1>c, <1>d, <1>e, <1>f, <2>1, <2>3, <2>4 DEF MessagingTypeOK
<1>14. ASSUME ocre_messaging_free_module_event_data(m) PROVE MessagingTypeOK'
  <2>1. /\ UNCHANGED <<eventVars, initialized, clears, mutex, subscriptions, message_id,
                       calls, published>>
        /\ held[m] > 0 /\ held' = [held EXCEPT ![m] = @ - 1]
        /\ heap' = [heap EXCEPT ![m] = IF @ > 0 THEN @ - 1 ELSE 0]
    BY <1>14 DEF ocre_messaging_free_module_event_data
  <2>2. heap' \in [Modules -> 0 .. HeapSize] /\ held' \in [Modules -> Nat]
    BY <1>f, <1>g, <2>1
  <2>3. QED
    BY <1>a, <1>c, <1>d, <1>e, <1>f, <2>1, <2>2 DEF MessagingTypeOK
<1>15. QED
  BY <1>1, <1>2, <1>3, <1>4, <1>6, <1>7, <1>8, <1>9, <1>10, <1>11, <1>12, <1>13, <1>14
     DEF ModuleNext, Publish

---------------------------------------------------------------------------
(* What most steps leave alone *)

\* The steps that neither put nor take an event, nor begin a publication, nor
\* count one: a publication goes on, or ends without having sent anything.
LEMMA QueueQuiet ==
  ASSUME IInv, UNCHANGED <<publishers, queue, published, message_id>>, clears' <= 1 => clears <= 1,
         \A m \in Modules :
           \/ calls'[m] = calls[m]
           \/ ~ Publishing(m) /\ ~ Publishing(m)'
           \/ /\ Publishing(m)
              /\ Publishing(m)' => calls'[m].msg = calls[m].msg
              /\ calls[m].sent => calls'[m].sent /\ Publishing(m)'
              /\ calls'[m].at = "increment" => calls'[m].id = message_id
  PROVE  MessagesPublished' /\ QueueInOrder' /\ IdUnderWay' /\ IdsNameMessages'
<1>1. OnePublisher' <=> OnePublisher
  BY DEF OnePublisher
<1>2. MessagesPublished'
  BY DEF IInv, MessagesPublished, Publishing
<1>3. QueueInOrder'
  BY DEF IInv, QueueInOrder
<1>4. IdsNameMessages'
  BY <1>1 DEF IInv, IdsNameMessages
<1>5. IdUnderWay'
  <2> SUFFICES ASSUME OnePublisher
               PROVE  /\ \A m \in Modules : Publishing(m)' => calls'[m].msg = published
                      /\ \A m \in Modules : calls'[m].at = "increment" => calls'[m].id = message_id
                      /\ \A i \in DOMAIN queue : queue[i].body.id <= message_id
                      /\ \A i \in DOMAIN queue : queue[i].body.id = message_id =>
                           \E m \in Modules : Publishing(m)' /\ calls'[m].sent
                                              /\ queue[i].body.msg = published
                      /\ \A i \in DOMAIN queue, m \in Modules :
                           Publishing(m)' /\ queue[i].body.msg = published =>
                             queue[i].body.id = message_id
    BY <1>1 DEF IdUnderWay
  <2>1. \A m \in Modules : Publishing(m)' => Publishing(m) /\ calls'[m].msg = calls[m].msg
    BY DEF Publishing
  <2>2. \A m \in Modules : Publishing(m)' => calls'[m].msg = published
    BY <2>1 DEF IInv, IdUnderWay
  <2>3. \A m \in Modules : calls'[m].at = "increment" => calls'[m].id = message_id
    BY DEF IInv, IdUnderWay, Publishing
  <2>4. \A m \in Modules : Publishing(m) /\ calls[m].sent => Publishing(m)' /\ calls'[m].sent
    BY DEF Publishing
  <2>5. \A i \in DOMAIN queue : queue[i].body.id = message_id =>
          \E m \in Modules : Publishing(m)' /\ calls'[m].sent /\ queue[i].body.msg = published
    BY <2>4 DEF IInv, IdUnderWay
  <2>6. QED
    BY <2>1, <2>2, <2>3, <2>5 DEF IInv, IdUnderWay
<1>6. QED
  BY <1>2, <1>3, <1>4, <1>5

\* The steps that leave the table and the modules alone: a call that is past the
\* check of the flag ends, or is in a publication and goes on.
LEMMA TableQuiet ==
  ASSUME IInv, mutex' = mutex \/ initialized,
         UNCHANGED <<publishers, live, initialized, clears, subscriptions, resource_count>>,
         \A m \in Modules :
           \/ calls'[m] = calls[m]
           \/ calls[m].at \notin {"idle", "init"} /\ calls'[m] = Idle
           \/ /\ calls[m].at = "publish" \/ Publishing(m)
              /\ Publishing(m)' /\ calls'[m].then = calls[m].then
  PROVE  CallsSound' /\ Started' /\ SubscribersLive' /\ Counted'
<1>1. \A m : Active(m)' = Active(m)
  BY DEF Active
<1>2. SubscribersLive' /\ Counted'
  BY <1>1 DEF IInv, SubscribersLive, Counted
<1>3. CallsSound'
  BY DEF IInv, CallsSound, Publishing, Idle
<1>4. Started'
  BY DEF IInv, Started, Publishing
<1>5. QED
  BY <1>2, <1>3, <1>4

---------------------------------------------------------------------------
(* The steps *)

LEMMA BeginIInv ==
  ASSUME IInv, UNCHANGED publishers, NEW m \in Modules, NEW topic,
         NEW place \in {"subscribe", "publish"}, Begin(m, topic, place),
         place = "publish" => m \in publishers
  PROVE  MessagingTypeOK' => IInv'
<1>1. /\ UNCHANGED <<live, resource_count, queue, initialized, clears, mutex, subscriptions,
                     message_id, published>>
      /\ m \in live /\ calls[m].at = "idle"
  BY DEF Begin
<1>2. /\ calls'[m].then = place
      /\ initialized => calls'[m].at = place
      /\ ~ initialized => calls'[m].at = "init"
      /\ \A n \in Modules : n # m => calls'[n] = calls[n]
  <2>1. calls' = [calls EXCEPT ![m] = [Idle EXCEPT !.topic = topic, !.then = place,
                    !.at = IF initialized THEN place ELSE "init"]]
    BY DEF Begin
  <2>2. DOMAIN calls = Modules
    BY CallsType DEF IInv
  <2>3. calls'[m] = [Idle EXCEPT !.topic = topic, !.then = place,
                       !.at = IF initialized THEN place ELSE "init"]
    BY <2>1, <2>2
  <2>4. QED
    BY <2>1, <2>2, <2>3 DEF Idle
<1>3. ~ Publishing(m) /\ ~ Publishing(m)' /\ calls'[m].at # "slots"
  BY <1>1, <1>2 DEF Publishing
<1>4. MessagesPublished' /\ QueueInOrder' /\ IdUnderWay' /\ IdsNameMessages'
  BY <1>1, <1>2, <1>3, QueueQuiet
<1>5. SubscribersLive' /\ Counted'
  BY <1>1 DEF IInv, SubscribersLive, Counted, Active
<1>6. CallsSound'
  BY <1>1, <1>2, <1>3 DEF IInv, CallsSound, Publishing
<1>7. Started'
  BY <1>1, <1>2 DEF IInv, Started
<1>8. WalkLocked'
  BY <1>1, <1>2, <1>3 DEF IInv, WalkLocked
<1>9. QED
  BY <1>4, <1>5, <1>6, <1>7, <1>8 DEF IInv

\* ocre_messaging_init: the first to come clears a table that is empty anyway;
\* another one may clear what was subscribed since.
LEMMA SystemIInv ==
  ASSUME IInv, UNCHANGED publishers, NEW m \in Modules, ocre_messaging_init(m)
  PROVE  MessagingTypeOK' => IInv'
<1>1. /\ UNCHANGED <<live, resource_count, queue, message_id, published>>
      /\ calls[m].at = "init" /\ calls[m].then \in {"subscribe", "publish"}
      /\ initialized' /\ clears' = clears + 1 /\ clears \in Nat
  BY Types DEF ocre_messaging_init, IInv, CallsSound
<1>2. /\ calls'[m].at = calls[m].then /\ calls'[m].then = calls[m].then
      /\ \A n \in Modules : n # m => calls'[n] = calls[n]
  <2>1. calls' = [calls EXCEPT ![m].at = calls[m].then]
    BY DEF ocre_messaging_init
  <2>2. QED
    BY <2>1, CallsType DEF IInv, CallType
<1>3. \A s \in Slots : ~ subscriptions'[s].active
  BY DEF ocre_messaging_init, Free
<1>4. \A n : Active(n)' = {}
  BY <1>3 DEF Active
<1>5. ~ Publishing(m) /\ ~ Publishing(m)' /\ calls'[m].at # "slots"
  BY <1>1, <1>2 DEF Publishing
<1>6. MessagesPublished' /\ QueueInOrder' /\ IdUnderWay' /\ IdsNameMessages'
  BY <1>1, <1>2, <1>5, QueueQuiet
<1>7. SubscribersLive'
  BY <1>3 DEF SubscribersLive
<1>8. clears' <= 1 => ~ initialized /\ clears <= 1
  BY <1>1 DEF IInv, Started
<1>9. Counted'
  <2> SUFFICES ASSUME clears' <= 1, NEW n \in live
               PROVE  resource_count[n] = Cardinality(Active(n)')
    BY <1>1 DEF Counted
  <2>1. Active(n) = {}
    BY <1>8 DEF IInv, Started, Active
  <2>2. QED
    BY <1>4, <1>8, <2>1 DEF IInv, Counted
<1>10. CallsSound'
  BY <1>1, <1>2, <1>5 DEF IInv, CallsSound, Publishing
<1>11. Started'
  BY <1>1 DEF Started
<1>12. WalkLocked'
  BY <1>2, <1>5, <1>8 DEF IInv, Started, WalkLocked
<1>13. QED
  BY <1>6, <1>7, <1>9, <1>10, <1>11, <1>12 DEF IInv

\* A set of numbers that is not empty has a least one.
LEMMA LeastNumber ==
  ASSUME NEW S \in SUBSET Nat, S # {}
  PROVE  \E s \in S : \A r \in S : s <= r
<1> DEFINE Less == {pair \in Nat \X Nat : pair[1] < pair[2]}
<1>1. IsWellFoundedOn(Less, Nat)
  BY NatLessThanWellFounded DEF OpToRel
<1>2. \A r, s \in Nat : r < s => <<r, s>> \in Less
  OBVIOUS
<1> HIDE DEF Less
<1>3. PICK s \in S : \A r \in S : ~ (<<r, s>> \in Less)
  BY <1>1, WFMin
<1>4. \A r \in S : s <= r
  <2> SUFFICES ASSUME NEW r \in S PROVE s <= r
    OBVIOUS
  <2>1. r \in Nat /\ s \in Nat
    OBVIOUS
  <2>2. ~ (r < s)
    BY <1>2, <1>3, <2>1
  <2>3. QED
    BY <2>1, <2>2
<1>5. QED
  BY <1>4

\* The slot that a subscription takes was free.
LEMMA FirstFreeIsFree ==
  ASSUME FreeSlots # {}
  PROVE  FirstFree \in FreeSlots
<1>1. MaxSubscriptions \in Nat
  BY MessagingAssumption DEF MessagingAssumption
<1>2. FreeSlots \subseteq Nat
  BY <1>1 DEF FreeSlots, Slots
<1>3. PICK s \in FreeSlots : \A r \in FreeSlots : s <= r
  BY <1>2, LeastNumber
<1>4. QED
  BY <1>3 DEF FirstFree

\* ocre_messaging_subscribe: one more slot and one more in the count, or neither.
LEMMA SubscribeIInv ==
  ASSUME IInv, UNCHANGED publishers, NEW m \in Modules, ocre_messaging_subscribe(m)
  PROVE  MessagingTypeOK' => IInv'
<1>1. /\ UNCHANGED <<live, queue, initialized, clears, mutex, message_id, published>>
      /\ calls[m].at = "subscribe" /\ m \in live /\ initialized
  BY DEF ocre_messaging_subscribe, IInv, CallsSound, Started
<1>2. calls'[m] = Idle /\ \A n \in Modules : n # m => calls'[n] = calls[n]
  BY CallsType DEF ocre_messaging_subscribe, IInv
<1>3. ~ Publishing(m) /\ ~ Publishing(m)' /\ calls'[m].at # "slots"
  BY <1>1, <1>2 DEF Publishing, Idle
<1>4. MessagesPublished' /\ QueueInOrder' /\ IdUnderWay' /\ IdsNameMessages'
  BY <1>1, <1>2, <1>3, QueueQuiet
<1>5. WalkLocked'
  BY <1>1, <1>2, <1>3 DEF IInv, WalkLocked
<1>6. CASE UNCHANGED <<subscriptions, resource_count>>
  <2>1. CallsSound' /\ Started' /\ SubscribersLive' /\ Counted'
    BY <1>1, <1>2, <1>6, TableQuiet
  <2>2. QED
    BY <1>4, <1>5, <2>1 DEF IInv
<1>7. CASE /\ FreeSlots # {}
           /\ subscriptions' = [subscriptions EXCEPT ![FirstFree] =
                [active |-> TRUE, module |-> m, topic |-> Stored(calls[m].topic)]]
           /\ increment_resource_count(m)
  <2>1. PICK s \in Slots :
          /\ ~ subscriptions[s].active
          /\ subscriptions' = [subscriptions EXCEPT ![s] =
               [active |-> TRUE, module |-> m, topic |-> Stored(calls[m].topic)]]
    BY <1>7, FirstFreeIsFree DEF FreeSlots
  <2>2. /\ subscriptions'[s].active /\ subscriptions'[s].module = m
        /\ \A r \in Slots : r # s => subscriptions'[r] = subscriptions[r]
    BY <2>1, TableType DEF IInv
  <2>3. /\ resource_count'[m] = resource_count[m] + 1
        /\ \A n \in Modules : n # m => resource_count'[n] = resource_count[n]
    BY <1>7, Types DEF IInv, increment_resource_count
  <2>4. /\ Active(m)' = Active(m) \union {s} /\ s \notin Active(m)
        /\ \A n : n # m => Active(n)' = Active(n)
    BY <2>1, <2>2 DEF Active
  <2>5. Cardinality(Active(m)') = Cardinality(Active(m)) + 1
    BY <2>4, ActiveFinite, FS_AddElement
  <2>6. Counted'
    BY <1>1, <2>3, <2>4, <2>5, Types DEF IInv, Counted
  <2>7. SubscribersLive'
    BY <1>1, <2>2 DEF IInv, SubscribersLive
  <2>8. CallsSound'
    BY <1>1, <1>2, <1>3 DEF IInv, CallsSound, Publishing, Idle
  <2>9. Started'
    BY <1>1 DEF IInv, Started
  <2>10. QED
    BY <1>4, <1>5, <2>6, <2>7, <2>8, <2>9 DEF IInv
<1>8. QED
  BY <1>6, <1>7 DEF ocre_messaging_subscribe

\* ocre_messaging_publish takes the mutex: nobody else is walking over the table,
\* and no message in the queue is as late as this one.
LEMMA LockIInv ==
  ASSUME IInv, UNCHANGED publishers, NEW m \in Modules, PublishLock(m)
  PROVE  MessagingTypeOK' => IInv'
<1>1. /\ UNCHANGED <<live, resource_count, queue, initialized, clears, subscriptions, message_id>>
      /\ calls[m].at = "publish" /\ mutex = NULL /\ mutex' = m
      /\ published' = published + 1 /\ published \in Nat
      /\ initialized
  BY Types DEF PublishLock, IInv, Started
<1>2. /\ calls'[m].at = "slots" /\ calls'[m].msg = published' /\ calls'[m].then = calls[m].then
      /\ \A n \in Modules : n # m => calls'[n] = calls[n]
  <2>1. calls' = [calls EXCEPT ![m] = [@ EXCEPT !.at = "slots", !.slot = 1,
                                         !.sent = FALSE, !.msg = published']]
    BY DEF PublishLock
  <2>2. QED
    BY <2>1, CallsType DEF IInv, CallType
<1>3. Publishing(m)' /\ ~ Publishing(m) /\ \A n \in Modules : n # m => (Publishing(n)' <=> Publishing(n))
  BY <1>1, <1>2 DEF Publishing
<1>4. CallsSound' /\ Started' /\ SubscribersLive' /\ Counted'
  BY <1>1, <1>2, <1>3, TableQuiet
<1>5. WalkLocked'
  BY <1>1, <1>2, EventsAssumption DEF IInv, WalkLocked, EventsAssumption
<1>6. /\ \A i \in DOMAIN queue : queue[i].body.msg \in Nat
      /\ \A n \in Modules : calls[n].msg \in Nat
  BY QueueElements, CallsType DEF IInv, CallType
<1>7. MessagesPublished'
  BY <1>1, <1>2, <1>3, <1>6 DEF IInv, MessagesPublished
<1>8. QueueInOrder'
  BY <1>1 DEF IInv, QueueInOrder
<1>9. (OnePublisher' <=> OnePublisher) /\ IdsNameMessages'
  BY <1>1 DEF IInv, OnePublisher, IdsNameMessages
<1>10. IdUnderWay'
  <2> SUFFICES ASSUME OnePublisher
               PROVE  /\ \A n \in Modules : Publishing(n)' => calls'[n].msg = published'
                      /\ \A n \in Modules : calls'[n].at = "increment" => calls'[n].id = message_id
                      /\ \A i \in DOMAIN queue : queue[i].body.id <= message_id
                      /\ \A i \in DOMAIN queue : queue[i].body.id # message_id
                      /\ \A i \in DOMAIN queue : queue[i].body.msg # published'
    BY <1>1, <1>9 DEF IdUnderWay
  <2>1. \A n \in Modules : n # m => ~ Publishing(n)
    BY <1>1 DEF IInv, CallsSound, OnePublisher
  <2>2. \A n \in Modules : ~ Publishing(n)
    BY <1>3, <2>1
  <2>3. /\ \A n \in Modules : Publishing(n)' => calls'[n].msg = published'
        /\ \A n \in Modules : calls'[n].at = "increment" => calls'[n].id = message_id
    BY <1>2, <1>3, <2>1 DEF Publishing
  <2>4. \A i \in DOMAIN queue : queue[i].body.id <= message_id /\ queue[i].body.id # message_id
    BY <2>2 DEF IInv, IdUnderWay
  <2>5. \A i \in DOMAIN queue : queue[i].body.msg # published'
    BY <1>1, <1>6 DEF IInv, MessagesPublished
  <2>6. QED
    BY <2>3, <2>4, <2>5
<1>11. QED
  BY <1>4, <1>5, <1>7, <1>8, <1>9, <1>10 DEF IInv

\* A slot that the publication passes by, or whose subscriber has no memory.
LEMMA SkipIInv ==
  ASSUME IInv, UNCHANGED publishers, NEW m \in Modules,
         PublishSkips(m) \/ PublishNoMemory(m)
  PROVE  MessagingTypeOK' => IInv'
<1>1. /\ UNCHANGED <<live, resource_count, queue, initialized, clears, mutex, subscriptions,
                     message_id, published>>
      /\ calls[m].at = "slots" /\ NextSlot(m, calls[m].sent)
  BY DEF PublishSkips, PublishNoMemory
<1>2. calls[m] \in CallType
  BY CallsType DEF IInv
<1>3. /\ calls'[m].at = "slots" /\ calls'[m].msg = calls[m].msg
      /\ calls'[m].then = calls[m].then /\ calls'[m].sent = calls[m].sent
      /\ \A n \in Modules : n # m => calls'[n] = calls[n]
  BY <1>1, <1>2, CallsType DEF IInv, NextSlot, CallType
<1>4. Publishing(m) /\ Publishing(m)'
  BY <1>1, <1>3 DEF Publishing
<1>5. MessagesPublished' /\ QueueInOrder' /\ IdUnderWay' /\ IdsNameMessages'
  BY <1>1, <1>3, <1>4, QueueQuiet
<1>6. CallsSound' /\ Started' /\ SubscribersLive' /\ Counted'
  BY <1>1, <1>3, <1>4, TableQuiet
<1>7. WalkLocked'
  BY <1>1, <1>3 DEF IInv, WalkLocked
<1>8. QED
  BY <1>5, <1>6, <1>7 DEF IInv

LEMMA UnlockIInv ==
  ASSUME IInv, UNCHANGED publishers, NEW m \in Modules, PublishUnlock(m)
  PROVE  MessagingTypeOK' => IInv'
<1>1. /\ UNCHANGED <<live, resource_count, queue, initialized, clears, subscriptions,
                     message_id, published>>
      /\ calls[m].at = "slots" /\ initialized
  BY DEF PublishUnlock, IInv, Started
<1>2. /\ calls[m].sent => /\ calls'[m].at = "count" /\ calls'[m].msg = calls[m].msg
                          /\ calls'[m].then = calls[m].then /\ calls'[m].sent
      /\ ~ calls[m].sent => calls'[m] = Idle
      /\ \A n \in Modules : n # m => calls'[n] = calls[n]
  <2>1. calls' = [calls EXCEPT ![m] = IF calls[m].sent THEN [@ EXCEPT !.at = "count"] ELSE Idle]
    BY DEF PublishUnlock
  <2>2. DOMAIN calls = Modules /\ calls[m] \in CallType
    BY CallsType DEF IInv
  <2>3. calls[m].sent => calls'[m] = [calls[m] EXCEPT !.at = "count"]
    BY <2>1, <2>2
  <2>4. ~ calls[m].sent => calls'[m] = Idle
    BY <2>1, <2>2
  <2>5. QED
    BY <2>1, <2>2, <2>3, <2>4 DEF CallType
<1>3. /\ Publishing(m)
      /\ calls[m].sent => Publishing(m)'
      /\ ~ calls[m].sent => ~ Publishing(m)'
      /\ calls'[m].at # "slots" /\ calls'[m].at # "increment"
  BY <1>1, <1>2 DEF Publishing, Idle
<1>4. MessagesPublished' /\ QueueInOrder' /\ IdUnderWay' /\ IdsNameMessages'
  BY <1>1, <1>2, <1>3, QueueQuiet
<1>5. CallsSound' /\ Started' /\ SubscribersLive' /\ Counted'
  BY <1>1, <1>2, <1>3, TableQuiet
<1>6. WalkLocked'
  BY <1>1, <1>2, <1>3 DEF IInv, WalkLocked
<1>7. QED
  BY <1>4, <1>5, <1>6 DEF IInv

\* The event goes to the end of the queue; nobody else's came between it and the
\* events of the same publication.
LEMMA PutsIInv ==
  ASSUME IInv, UNCHANGED publishers, NEW m \in Modules, PublishPuts(m)
  PROVE  MessagingTypeOK' => IInv'
<1> DEFINE target == subscriptions[calls[m].slot].module
<1> DEFINE event == MessageEvent(m, target)
<1>1. /\ UNCHANGED <<live, resource_count, initialized, clears, mutex, subscriptions,
                     message_id, published>>
      /\ calls[m].at = "slots" /\ NextSlot(m, calls[m].sent \/ ~ Full) /\ Put(event)
      /\ calls[m].slot \in Slots /\ Matches(calls[m].slot, calls[m].topic)
  BY DEF PublishPuts
<1>2. /\ calls'[m].at = "slots" /\ calls'[m].msg = calls[m].msg
      /\ calls'[m].then = calls[m].then
      /\ \A n \in Modules : n # m => calls'[n] = calls[n]
  <2>1. calls' = [calls EXCEPT ![m].slot = @ + 1, ![m].sent = calls[m].sent \/ ~ Full]
    BY <1>1 DEF NextSlot
  <2>2. QED
    BY <1>1, <2>1, CallsType DEF IInv, CallType
<1>3. (calls[m].sent => calls'[m].sent) /\ (~ Full => calls'[m].sent)
  <2>1. calls' = [calls EXCEPT ![m].slot = @ + 1, ![m].sent = calls[m].sent \/ ~ Full]
    BY <1>1 DEF NextSlot
  <2>2. calls'[m].sent <=> calls[m].sent \/ ~ Full
    BY <2>1, CallsType DEF IInv, CallType
  <2>3. QED
    BY <2>2
<1>4. Publishing(m) /\ Publishing(m)' /\ \A n \in Modules : Publishing(n)' <=> Publishing(n)
  BY <1>1, <1>2 DEF Publishing
<1>5. CallsSound' /\ Started' /\ SubscribersLive' /\ Counted'
  BY <1>1, <1>2, <1>4, TableQuiet
<1>6. WalkLocked'
  BY <1>1, <1>2 DEF IInv, WalkLocked
<1>7. /\ event \in Event(Message) /\ event.body.id = message_id
      /\ event.body.msg = calls[m].msg /\ target \in Modules
  BY <1>1, Target, EventType DEF IInv
<1>8. CASE Full
  <2>1. queue' = queue
    BY <1>1, <1>8 DEF Put
  <2>2. MessagesPublished' /\ QueueInOrder' /\ IdUnderWay' /\ IdsNameMessages'
    <3>1. calls'[m].at # "increment"
      BY <1>2
    <3>2. QED
      BY <1>1, <1>2, <1>3, <1>4, <2>1, <3>1, QueueQuiet
  <2>3. QED
    BY <1>5, <1>6, <2>2 DEF IInv
<1>9. CASE ~ Full
  <2>1. /\ DOMAIN queue' = 1 .. Len(queue) + 1
        /\ queue'[Len(queue) + 1] = event
        /\ \A i \in DOMAIN queue : queue'[i] = queue[i]
    BY <1>1, <1>7, <1>9, PutQueue DEF IInv
  <2>2. /\ DOMAIN queue = 1 .. Len(queue) /\ Len(queue) \in Nat
        /\ published \in Nat /\ message_id \in Nat
        /\ \A i \in DOMAIN queue : queue[i].body.msg \in Nat /\ queue[i].body.id \in Nat
    BY QueueElements, Types DEF IInv
  <2>3. DOMAIN queue' = DOMAIN queue \union {Len(queue) + 1} /\ Len(queue) + 1 \notin DOMAIN queue
    BY <2>1, <2>2
  <2> DEFINE last == Len(queue) + 1
  <2>4. /\ queue'[last].body.msg = calls[m].msg /\ queue'[last].body.id = message_id
        /\ DOMAIN queue' = DOMAIN queue \union {last}
        /\ \A i \in DOMAIN queue : i < last
        /\ last \in Nat /\ ~ (last < last)
    BY <1>7, <2>1, <2>2, <2>3
  <2> HIDE DEF last
  <2>5. calls[m].msg <= published
    BY <1>4 DEF IInv, MessagesPublished
  <2>6. MessagesPublished'
    BY <1>1, <1>2, <1>4, <2>1, <2>4, <2>5 DEF IInv, MessagesPublished
  <2>7. QueueInOrder'
    <3> SUFFICES ASSUME clears <= 1, NEW i \in DOMAIN queue', NEW j \in DOMAIN queue', i < j
                 PROVE  queue'[i].body.msg <= queue'[j].body.msg
      BY <1>1 DEF QueueInOrder
    <3>1. CASE j \in DOMAIN queue
      <4>1. i \in DOMAIN queue
        BY <2>2, <2>4, <3>1
      <4>2. QED
        BY <2>1, <3>1, <4>1 DEF IInv, QueueInOrder
    <3>2. CASE j = last
      <4>1. i \in DOMAIN queue
        BY <2>4, <3>2
      <4>2. calls[m].msg = published
        BY <1>1 DEF IInv, WalkLocked
      <4>3. QED
        BY <2>1, <2>4, <3>2, <4>1, <4>2 DEF IInv, MessagesPublished
    <3>3. QED
      BY <2>4, <3>1, <3>2
  <2>8. OnePublisher' <=> OnePublisher
    BY DEF OnePublisher
  <2>9. ASSUME OnePublisher
        PROVE  /\ calls[m].msg = published
               /\ \A i \in DOMAIN queue :
                    queue[i].body.id = message_id <=> queue[i].body.msg = published
    BY <1>4, <2>9 DEF IInv, IdUnderWay
  <2>10. IdsNameMessages'
    <3> SUFFICES ASSUME OnePublisher, NEW i \in DOMAIN queue', NEW j \in DOMAIN queue'
                 PROVE  queue'[i].body.id = queue'[j].body.id
                          <=> queue'[i].body.msg = queue'[j].body.msg
      BY <2>8 DEF IdsNameMessages
    <3>1. CASE i \in DOMAIN queue /\ j \in DOMAIN queue
      BY <2>1, <3>1 DEF IInv, IdsNameMessages
    <3>2. CASE i \in DOMAIN queue /\ j = last
      BY <2>1, <2>4, <2>9, <3>2
    <3>3. CASE i = last /\ j \in DOMAIN queue
      BY <2>1, <2>4, <2>9, <3>3
    <3>4. CASE i = last /\ j = last
      BY <3>4
    <3>5. QED
      BY <2>4, <3>1, <3>2, <3>3, <3>4
  <2>11. IdUnderWay'
    <3> SUFFICES ASSUME OnePublisher
                 PROVE  /\ \A n \in Modules : Publishing(n)' => calls'[n].msg = published
                        /\ \A n \in Modules :
                             calls'[n].at = "increment" => calls'[n].id = message_id
                        /\ \A i \in DOMAIN queue' : queue'[i].body.id <= message_id
                        /\ \A i \in DOMAIN queue' : queue'[i].body.id = message_id =>
                             \E n \in Modules : Publishing(n)' /\ calls'[n].sent
                                                /\ queue'[i].body.msg = published
                        /\ \A i \in DOMAIN queue', n \in Modules :
                             Publishing(n)' /\ queue'[i].body.msg = published =>
                               queue'[i].body.id = message_id
      BY <1>1, <2>8 DEF IdUnderWay
    <3>1. \A n \in Modules : Publishing(n)' => calls'[n].msg = published
      BY <1>2, <1>4 DEF IInv, IdUnderWay
    <3>2. \A n \in Modules : calls'[n].at = "increment" => calls'[n].id = message_id
      BY <1>2 DEF IInv, IdUnderWay
    <3>3. \A i \in DOMAIN queue' : queue'[i].body.id <= message_id
      <4>1. \A i \in DOMAIN queue : queue[i].body.id <= message_id
        BY DEF IInv, IdUnderWay
      <4>2. message_id <= message_id
        BY <2>2
      <4>3. QED
        BY <2>1, <2>4, <4>1, <4>2
    <3>4. \A i \in DOMAIN queue' :
            queue'[i].body.id = message_id <=> queue'[i].body.msg = published
      BY <2>1, <2>4, <2>9
    <3>5. Publishing(m)' /\ calls'[m].sent
      BY <1>3, <1>4, <1>9
    <3>6. \A i \in DOMAIN queue' : queue'[i].body.id = message_id =>
            \E n \in Modules : Publishing(n)' /\ calls'[n].sent
                               /\ queue'[i].body.msg = published
      BY <3>4, <3>5
    <3>7. QED
      BY <3>1, <3>2, <3>3, <3>4, <3>6
  <2>12. QED
    BY <1>5, <1>6, <2>6, <2>7, <2>10, <2>11 DEF IInv
<1>10. QED
  BY <1>8, <1>9

LEMMA CountIInv ==
  ASSUME IInv, UNCHANGED publishers, NEW m \in Modules, PublishCount(m)
  PROVE  MessagingTypeOK' => IInv'
<1>1. /\ UNCHANGED <<live, resource_count, queue, initialized, clears, mutex, subscriptions,
                     message_id, published>>
      /\ calls[m].at = "count"
  BY DEF PublishCount
<1>2. /\ calls'[m].at = "increment" /\ calls'[m].id = message_id
      /\ calls'[m].then = calls[m].then /\ calls'[m].msg = calls[m].msg
      /\ calls'[m].sent = calls[m].sent
      /\ \A n \in Modules : n # m => calls'[n] = calls[n]
  <2>1. calls' = [calls EXCEPT ![m] = [@ EXCEPT !.at = "increment", !.id = message_id]]
    BY DEF PublishCount
  <2>2. QED
    BY <2>1, CallsType DEF IInv, CallType
<1>3. Publishing(m) /\ Publishing(m)'
  BY <1>1, <1>2 DEF Publishing
<1>4. MessagesPublished' /\ QueueInOrder' /\ IdUnderWay' /\ IdsNameMessages'
  BY <1>1, <1>2, <1>3, QueueQuiet
<1>5. CallsSound' /\ Started' /\ SubscribersLive' /\ Counted'
  BY <1>1, <1>2, <1>3, TableQuiet
<1>6. WalkLocked'
  BY <1>1, <1>2 DEF IInv, WalkLocked
<1>7. QED
  BY <1>4, <1>5, <1>6 DEF IInv

\* The id moves on past every id in the queue, if one module publishes.
LEMMA IncrementIInv ==
  ASSUME IInv, UNCHANGED publishers, NEW m \in Modules, PublishIncrement(m)
  PROVE  MessagingTypeOK' => IInv'
<1>1. /\ UNCHANGED <<live, resource_count, queue, initialized, clears, mutex, subscriptions,
                     published>>
      /\ calls[m].at = "increment" /\ message_id' = calls[m].id + 1
  BY DEF PublishIncrement
<1>2. calls'[m] = Idle /\ \A n \in Modules : n # m => calls'[n] = calls[n]
  BY CallsType DEF PublishIncrement, IInv
<1>3. Publishing(m) /\ ~ Publishing(m)' /\ calls'[m].at = "idle"
  BY <1>1, <1>2 DEF Publishing, Idle
<1>4. CallsSound' /\ Started' /\ SubscribersLive' /\ Counted'
  BY <1>1, <1>2, TableQuiet
<1>5. WalkLocked'
  BY <1>1, <1>2, <1>3 DEF IInv, WalkLocked
<1>6. MessagesPublished' /\ QueueInOrder'
  BY <1>1, <1>2, <1>3 DEF IInv, MessagesPublished, QueueInOrder, Publishing
<1>7. (OnePublisher' <=> OnePublisher) /\ IdsNameMessages'
  BY <1>1 DEF IInv, OnePublisher, IdsNameMessages
<1>8. IdUnderWay'
  <2> SUFFICES ASSUME OnePublisher
               PROVE  /\ \A n \in Modules : ~ Publishing(n)'
                      /\ \A n \in Modules : calls'[n].at # "increment"
                      /\ \A i \in DOMAIN queue : queue[i].body.id <= message_id'
                      /\ \A i \in DOMAIN queue : queue[i].body.id # message_id'
    BY <1>1, <1>7 DEF IdUnderWay
  <2>1. \A n \in Modules : n # m => ~ Publishing(n)
    BY <1>3 DEF IInv, CallsSound, OnePublisher
  <2>2. \A n \in Modules : ~ Publishing(n)' /\ calls'[n].at # "increment"
    BY <1>2, <1>3, <2>1 DEF Publishing
  <2>3. message_id' = message_id + 1 /\ message_id \in Nat
    BY <1>1, Types DEF IInv, IdUnderWay
  <2>4. \A i \in DOMAIN queue : queue[i].body.id <= message_id /\ queue[i].body.id \in Nat
    BY QueueElements DEF IInv, IdUnderWay
  <2>5. QED
    BY <2>2, <2>3, <2>4
<1>9. QED
  BY <1>4, <1>5, <1>6, <1>7, <1>8 DEF IInv

---------------------------------------------------------------------------
(* The life of a module *)

\* A module that is registered has no subscription yet.
LEMMA RegisterIInv ==
  ASSUME IInv, UNCHANGED publishers, NEW m \in Modules, Register(m)
  PROVE  MessagingTypeOK' => IInv'
<1>1. /\ UNCHANGED <<queue, initialized, clears, mutex, subscriptions, message_id, calls,
                     published>>
      /\ m \notin live /\ live' = live \union {m}
      /\ resource_count'[m] = 0
      /\ \A n \in Modules : n # m => resource_count'[n] = resource_count[n]
  BY Types DEF Register, ocre_register_module, IInv
<1>2. MessagesPublished' /\ QueueInOrder' /\ IdUnderWay' /\ IdsNameMessages'
  BY <1>1, QueueQuiet
<1>3. Active(m) = {} /\ \A n : Active(n)' = Active(n)
  BY <1>1 DEF IInv, SubscribersLive, Active
<1>4. Cardinality(Active(m)') = 0
  BY <1>3, FS_EmptySet
<1>5. Counted'
  BY <1>1, <1>3, <1>4, Types DEF IInv, Counted
<1>6. CallsSound' /\ Started' /\ SubscribersLive' /\ WalkLocked'
  BY <1>1 DEF IInv, CallsSound, Started, SubscribersLive, WalkLocked, Publishing
<1>7. QED
  BY <1>2, <1>5, <1>6 DEF IInv

\* ocre_messaging_cleanup_container: the subscriptions of the module are gone, and
\* no other module's.
LEMMA CleanupIInv ==
  ASSUME IInv, UNCHANGED publishers, NEW m \in Modules, Cleanup(m)
  PROVE  MessagingTypeOK' => IInv'
<1>1. /\ UNCHANGED <<queue, initialized, clears, mutex, message_id, calls, published>>
      /\ live' = live \ {m} /\ calls[m].at = "idle"
      /\ \A n \in Modules : n # m => resource_count'[n] = resource_count[n]
  BY Types DEF Cleanup, ocre_unregister_module, IInv
<1>2. /\ \A s \in Slots : s \in Active(m) => ~ subscriptions'[s].active
      /\ \A s \in Slots : s \notin Active(m) => subscriptions'[s] = subscriptions[s]
  <2>1. subscriptions' = [s \in Slots |->
          IF initialized /\ s \in Active(m) THEN Free ELSE subscriptions[s]]
    BY DEF Cleanup
  <2>2. \A s \in Slots : s \in Active(m) => initialized
    BY DEF IInv, Started, Active
  <2>3. QED
    BY <2>1, <2>2 DEF Free
<1>3. MessagesPublished' /\ QueueInOrder' /\ IdUnderWay' /\ IdsNameMessages'
  BY <1>1, QueueQuiet
<1>4. \A n : n # m => Active(n)' = Active(n)
  BY <1>2 DEF Active
<1>5. Counted'
  BY <1>1, <1>4, Types DEF IInv, Counted
<1>6. SubscribersLive'
  BY <1>1, <1>2 DEF IInv, SubscribersLive, Active
<1>7. Started'
  BY <1>1, <1>2 DEF IInv, Started
<1>8. CallsSound' /\ WalkLocked'
  BY <1>1 DEF IInv, CallsSound, WalkLocked, Publishing
<1>9. QED
  BY <1>3, <1>5, <1>6, <1>7, <1>8 DEF IInv

\* ocre_get_event takes the oldest event: the others stay in their order.
LEMMA GetIInv ==
  ASSUME IInv, UNCHANGED publishers, NEW m \in Modules, GetEvent(m)
  PROVE  MessagingTypeOK' => IInv'
<1>1. /\ UNCHANGED <<live, resource_count, initialized, clears, mutex, subscriptions,
                     message_id, calls, published>>
      /\ ocre_get_event(m)
  BY DEF GetEvent
<1>2. /\ \A i \in DOMAIN queue' : i + 1 \in DOMAIN queue /\ queue'[i] = queue[i + 1]
      /\ DOMAIN queue' = 1 .. Len(queue) - 1 /\ Len(queue) \in Nat
  BY <1>1, GetQueue, QueueElements DEF IInv
<1>3. \A i, j \in DOMAIN queue' : i < j => i + 1 < j + 1
  BY <1>2
<1>4. CallsSound' /\ Started' /\ SubscribersLive' /\ Counted'
  BY <1>1, TableQuiet
<1>5. WalkLocked'
  BY <1>1 DEF IInv, WalkLocked
<1>6. MessagesPublished'
  BY <1>1, <1>2 DEF IInv, MessagesPublished, Publishing
<1>7. QueueInOrder'
  BY <1>1, <1>2, <1>3 DEF IInv, QueueInOrder
<1>8. IdUnderWay'
  BY <1>1, <1>2 DEF IInv, IdUnderWay, OnePublisher, Publishing
<1>9. IdsNameMessages'
  BY <1>1, <1>2 DEF IInv, IdsNameMessages, OnePublisher
<1>10. QED
  BY <1>4, <1>5, <1>6, <1>7, <1>8, <1>9 DEF IInv

\* Nothing that IInv speaks of changes but its type.
LEMMA StillIInv ==
  ASSUME IInv, UNCHANGED <<publishers, live, resource_count, queue, initialized, clears,
                           mutex, subscriptions, message_id, calls, published>>
  PROVE  MessagingTypeOK' => IInv'
<1>1. MessagesPublished' /\ QueueInOrder' /\ IdUnderWay' /\ IdsNameMessages'
  BY QueueQuiet
<1>2. CallsSound' /\ Started' /\ SubscribersLive' /\ Counted'
  BY TableQuiet
<1>3. WalkLocked'
  BY DEF IInv, WalkLocked
<1>4. QED
  BY <1>1, <1>2, <1>3 DEF IInv

---------------------------------------------------------------------------
(* The theorems *)

LEMMA NextIInv ==
  ASSUME IInv, [MessagingNext]_allMessagingVars
  PROVE  IInv'
<1>1. CASE UNCHANGED allMessagingVars
  <2>1. MessagingTypeOK'
    BY <1>1 DEF IInv, MessagingTypeOK, EventsTypeOK, allMessagingVars
  <2>2. QED
    BY <1>1, <2>1, StillIInv DEF allMessagingVars
<1>2. CASE MessagingNext
  <2>1. PICK m \in Modules : ModuleNext(m)
    BY <1>2 DEF MessagingNext
  <2>2. UNCHANGED publishers
    BY <1>2 DEF MessagingNext
  <2>3. MessagingTypeOK'
    BY <2>1, <2>2, NextType
  <2>4. ASSUME NEW topic \in Topics, SubscribeCall(m, topic) \/ PublishCall(m, topic)
        PROVE  IInv'
    BY <2>2, <2>3, <2>4, BeginIInv DEF SubscribeCall, PublishCall
  <2>5. ASSUME Publish(m) PROVE IInv'
    BY <2>2, <2>3, <2>5, SkipIInv, PutsIInv, UnlockIInv, CountIInv, IncrementIInv DEF Publish
  <2>6. ASSUME ocre_messaging_free_module_event_data(m) PROVE IInv'
    BY <2>2, <2>3, <2>6, StillIInv DEF ocre_messaging_free_module_event_data
  <2>7. QED
    BY <2>1, <2>2, <2>3, <2>4, <2>5, <2>6, SystemIInv, SubscribeIInv, LockIInv, RegisterIInv,
       CleanupIInv, GetIInv DEF ModuleNext
<1>3. QED
  BY <1>1, <1>2

\* IInv holds always, whatever calls interleave.
THEOREM Invariance == MessagingSpec => []IInv
<1>1. MessagingInit => IInv
  BY InitIInv
<1>2. IInv /\ [MessagingNext]_allMessagingVars => IInv'
  BY NextIInv
<1>3. QED
  BY <1>1, <1>2, PTL DEF MessagingSpec

\* Every variable stays in its type: the queue does not overflow, nor does a
\* module's memory.
THEOREM TypeCorrect == MessagingSpec => []MessagingTypeOK
<1>1. IInv => MessagingTypeOK
  BY DEF IInv
<1>2. QED
  BY <1>1, Invariance, PTL

\* A subscription is of a registered instance, and unless two modules initialise
\* the system at once a module's count is the number of its subscriptions
\* (ocre_messaging_subscribe and ocre_messaging_cleanup_container).
THEOREM Accounted == MessagingSpec => []SubscriptionsAccounted
<1>1. IInv => SubscriptionsAccounted
  BY DEF IInv, SubscriptionsAccounted, SubscribersLive, Counted
<1>2. QED
  BY <1>1, Invariance, PTL

\* All modules get the messages in one order, unless two of them initialise the
\* system at once, and where one module publishes a message id names one message
\* (ocre_messaging_publish).
THEOREM Ordered == MessagingSpec => []OneOrder
<1>1. ASSUME IInv, Cardinality(publishers) <= 1 PROVE OnePublisher
  <2>1. IsFiniteSet(publishers)
    BY <1>1, Types, MessagingAssumption, FS_Subset DEF IInv, MessagingAssumption
  <2>2. ASSUME NEW p \in publishers, NEW q \in publishers, p # q PROVE FALSE
    <3>1. /\ IsFiniteSet(publishers \ {p}) /\ IsFiniteSet((publishers \ {p}) \ {q})
          /\ Cardinality(publishers \ {p}) = Cardinality(publishers) - 1
          /\ Cardinality((publishers \ {p}) \ {q}) = Cardinality(publishers \ {p}) - 1
      BY <2>1, <2>2, FS_RemoveElement
    <3>2. Cardinality((publishers \ {p}) \ {q}) \in Nat /\ Cardinality(publishers) \in Nat
      BY <2>1, <3>1, FS_CardinalityType
    <3>3. QED
      BY <1>1, <3>1, <3>2
  <2>3. QED
    BY <2>2 DEF OnePublisher
<1>2. IInv => OneOrder
  BY <1>1 DEF IInv, OneOrder, QueueInOrder, IdsNameMessages
<1>3. QED
  BY <1>2, Invariance, PTL

---------------------------------------------------------------------------
(* The copies of the messages *)

\* An event is of an instance that was registered.
EventsSound ==
  /\ \A m \in live : gen[m] >= 1
  /\ \A i \in DOMAIN queue :
       /\ queue[i].owner \in Modules
       /\ queue[i].gen \in 1 .. gen[queue[i].owner]

\* The events in the queue for the instance that m is now.
Mine(m) == {i \in DOMAIN queue : queue[i].owner = m /\ queue[i].gen = gen[m]}

CopiesIInv == IInv /\ EventsSound /\ CopiesAccounted

\* Numbers that all move down by one stay as many.
LEMMA Shifted ==
  ASSUME NEW S \in SUBSET Nat, IsFiniteSet(S), NEW T \in SUBSET Nat,
         \A i \in Nat : i \in T <=> i + 1 \in S, 0 \notin S
  PROVE  Cardinality(T) = Cardinality(S)
<1> DEFINE f == [i \in S |-> i - 1]
<1>1. f \in [S -> T]
  <2>1. \A i \in S : i - 1 \in Nat /\ (i - 1) + 1 = i
    OBVIOUS
  <2>2. QED
    BY <2>1
<1>2. \A i, j \in S : f[i] = f[j] => i = j
  OBVIOUS
<1>3. \A i \in T : \E j \in S : f[j] = i
  <2> SUFFICES ASSUME NEW i \in T PROVE \E j \in S : f[j] = i
    OBVIOUS
  <2>1. i + 1 \in S /\ (i + 1) - 1 = i
    OBVIOUS
  <2>2. QED
    BY <2>1
<1> HIDE DEF f
<1>4. f \in Bijection(S, T)
  BY <1>1, <1>2, <1>3 DEF Bijection, Injection, Surjection, IsInjective
<1>5. QED
  BY <1>4, FS_Bijection DEF ExistsBijection

LEMMA MineFinite ==
  ASSUME MessagingTypeOK
  PROVE  \A m : IsFiniteSet(Mine(m)) /\ Mine(m) \in SUBSET Nat /\ 0 \notin Mine(m)
<1>1. Len(queue) \in Nat /\ DOMAIN queue = 1 .. Len(queue)
  BY QueueElements
<1>2. IsFiniteSet(1 .. Len(queue))
  BY <1>1, FS_Interval
<1>3. \A m : Mine(m) \in SUBSET (1 .. Len(queue))
  BY <1>1 DEF Mine
<1>4. \A m : IsFiniteSet(Mine(m))
  BY <1>2, <1>3, FS_Subset
<1>5. QED
  BY <1>1, <1>3, <1>4

\* Most steps touch neither the queue nor the modules' memory.
LEMMA CopiesQuiet ==
  ASSUME EventsSound, CopiesAccounted, UNCHANGED <<gen, queue, heap, held>>, live' \subseteq live
  PROVE  EventsSound' /\ CopiesAccounted'
BY DEF EventsSound, CopiesAccounted

\* A module that is registered has a memory of its own, and no event in the
\* queue is its.
LEMMA RegisterCopies ==
  ASSUME CopiesIInv, NEW m \in Modules, Register(m)
  PROVE  EventsSound' /\ CopiesAccounted'
<1>0. MessagingTypeOK
  BY DEF CopiesIInv, IInv
<1>1. /\ live' = live \union {m} /\ queue' = queue
      /\ gen' = [gen EXCEPT ![m] = @ + 1]
      /\ heap' = [heap EXCEPT ![m] = 0] /\ held' = [held EXCEPT ![m] = 0]
  BY DEF Register, ocre_register_module
<1>2. /\ heap'[m] = 0 /\ held'[m] = 0 /\ gen'[m] = gen[m] + 1 /\ gen[m] \in Nat
      /\ \A n \in Modules : gen[n] \in Nat
      /\ \A n \in Modules : n # m => gen'[n] = gen[n] /\ heap'[n] = heap[n] /\ held'[n] = held[n]
  BY <1>0, <1>1, Types, EventsAssumption DEF EventsAssumption
<1>3. \A i \in DOMAIN queue : queue[i].owner \in Modules /\ queue[i].gen \in 1 .. gen[queue[i].owner]
  BY DEF CopiesIInv, EventsSound
<1>4. EventsSound'
  <2>1. \A n \in live' : gen'[n] >= 1
    BY <1>0, <1>1, <1>2, Types DEF CopiesIInv, EventsSound
  <2>2. \A n \in Modules : \A k \in 1 .. gen[n] : k \in 1 .. gen'[n]
    BY <1>2
  <2>3. QED
    BY <1>1, <1>3, <2>1, <2>2 DEF EventsSound
<1>5. Mine(m)' = {}
  BY <1>1, <1>2, <1>3 DEF Mine
<1>6. \A n \in Modules : n # m => Mine(n)' = Mine(n)
  BY <1>1, <1>2 DEF Mine
<1>7. \A n \in live : heap[n] = held[n] + Cardinality(Mine(n))
  BY DEF CopiesIInv, CopiesAccounted, Mine
<1>8. \A n \in live' : heap'[n] = held'[n] + Cardinality(Mine(n)')
  <2>1. live \subseteq Modules
    BY <1>0, Types
  <2>2. Cardinality(Mine(m)') = 0
    BY <1>5, FS_EmptySet
  <2>3. heap'[m] = held'[m] + Cardinality(Mine(m)')
    BY <1>2, <2>2
  <2>4. ASSUME NEW n \in live, n # m PROVE heap'[n] = held'[n] + Cardinality(Mine(n)')
    BY <1>2, <1>6, <1>7, <2>1, <2>4
  <2>5. QED
    BY <1>1, <2>3, <2>4
<1>9. CopiesAccounted'
  BY <1>8 DEF CopiesAccounted, Mine
<1>10. QED
  BY <1>4, <1>9

\* A publication counts the copy that it made with the event that it queued, and
\* frees the copy if the queue is full.
LEMMA PutsCopies ==
  ASSUME CopiesIInv, NEW m \in Modules, PublishPuts(m)
  PROVE  EventsSound' /\ CopiesAccounted'
<1>0. MessagingTypeOK /\ IInv
  BY DEF CopiesIInv, IInv
<1>1. PICK target, event :
        /\ target \in live
        /\ UNCHANGED <<live, gen, held>> /\ Put(event)
        /\ heap' = [heap EXCEPT ![target] = IF Full THEN @ ELSE @ + 1]
        /\ event = MessageEvent(m, target)
  BY <1>0, Target DEF PublishPuts
<1>2. target \in live /\ target \in Modules
  BY <1>0, <1>1, Types
<1>3. event \in Event(Message) /\ event.owner = target /\ event.gen = gen[target]
  BY <1>0, <1>1, <1>2, EventType DEF MessageEvent
<1>4. CASE Full
  <2>1. queue' = queue /\ heap' = heap
    BY <1>0, <1>1, <1>4, Types DEF Put
  <2>2. QED
    BY <1>1, <2>1, CopiesQuiet DEF CopiesIInv
<1>5. CASE ~ Full
  <2>0. /\ Len(queue) \in Nat /\ DOMAIN queue = 1 .. Len(queue)
        /\ DOMAIN queue' = 1 .. Len(queue) + 1
        /\ queue'[Len(queue) + 1] = event
        /\ \A i \in DOMAIN queue : queue'[i] = queue[i]
    BY <1>0, <1>1, <1>3, <1>5, PutQueue, QueueElements
  <2>1. PICK last \in Nat :
          /\ DOMAIN queue' = DOMAIN queue \union {last} /\ last \notin DOMAIN queue
          /\ queue'[last] = event
          /\ \A i \in DOMAIN queue : queue'[i] = queue[i]
    <3>1. /\ Len(queue) + 1 \in Nat /\ Len(queue) + 1 \notin DOMAIN queue
          /\ DOMAIN queue' = DOMAIN queue \union {Len(queue) + 1}
      BY <2>0
    <3>2. QED
      BY <2>0, <3>1
  <2>2. /\ heap'[target] = heap[target] + 1
        /\ \A n \in Modules : n # target => heap'[n] = heap[n]
    BY <1>0, <1>1, <1>2, <1>5, Types
  <2>3. gen[target] \in Nat /\ gen[target] >= 1
    BY <1>0, <1>2, Types, EventsAssumption DEF CopiesIInv, EventsSound, EventsAssumption
  <2>4. gen[target] \in 1 .. gen[target]
    BY <2>3
  <2>5. EventsSound'
    BY <1>1, <1>2, <1>3, <2>1, <2>4 DEF CopiesIInv, EventsSound
  <2>6. Mine(target)' = Mine(target) \union {last} /\ last \notin Mine(target)
    BY <1>1, <1>3, <2>1 DEF Mine
  <2>7. \A n : n # target => Mine(n)' = Mine(n)
    BY <1>1, <1>3, <2>1 DEF Mine
  <2>8. \A n \in live : heap[n] = held[n] + Cardinality(Mine(n))
    BY DEF CopiesIInv, CopiesAccounted, Mine
  <2>9. /\ Cardinality(Mine(target)') = Cardinality(Mine(target)) + 1
        /\ Cardinality(Mine(target)) \in Nat
    BY <1>0, <2>6, MineFinite, FS_AddElement, FS_CardinalityType
  <2>10. heap'[target] = held'[target] + Cardinality(Mine(target)')
    BY <1>0, <1>1, <1>2, <2>2, <2>8, <2>9, Types
  <2>11. \A n \in live' : heap'[n] = held'[n] + Cardinality(Mine(n)')
    BY <1>0, <1>1, <2>2, <2>7, <2>8, <2>10, Types
  <2>12. CopiesAccounted'
    BY <2>11 DEF CopiesAccounted, Mine
  <2>13. QED
    BY <2>5, <2>12
<1>6. QED
  BY <1>4, <1>5

\* The event that ocre_get_event takes is of the instance that gets it, if no
\* address is used twice: its copy is now one of those to free.
LEMMA GetCopies ==
  ASSUME MaxInstances <= 1, CopiesIInv, NEW m \in Modules, GetEvent(m)
  PROVE  EventsSound' /\ CopiesAccounted'
<1>0. MessagingTypeOK
  BY DEF CopiesIInv, IInv
<1>1. /\ UNCHANGED <<live, gen, heap>> /\ ocre_get_event(m)
      /\ held' = [held EXCEPT ![m] = @ + 1]
      /\ m \in live
  BY DEF GetEvent, ocre_get_event
<1>2. /\ DOMAIN queue' = 1 .. Len(queue) - 1 /\ Len(queue) >= 1
      /\ \A i \in DOMAIN queue' : i + 1 \in DOMAIN queue /\ queue'[i] = queue[i + 1]
      /\ Len(queue) \in Nat /\ DOMAIN queue = 1 .. Len(queue)
  BY <1>0, <1>1, GetQueue, QueueElements
<1>3. \A i \in DOMAIN queue : queue[i].owner \in Modules /\ queue[i].gen \in 1 .. gen[queue[i].owner]
  BY DEF CopiesIInv, EventsSound
<1>4. queue[1].owner = m /\ 1 \in DOMAIN queue
  BY <1>1, <1>2 DEF ocre_get_event
<1>5. queue[1].gen = gen[m]
  <2>1. gen[m] \in 0 .. MaxInstances /\ MaxInstances \in Nat /\ queue[1].gen \in 1 .. gen[m]
    BY <1>0, <1>3, <1>4, Types, EventsAssumption DEF EventsAssumption
  <2>2. QED
    BY <2>1
<1>6. EventsSound'
  BY <1>1, <1>2, <1>3 DEF CopiesIInv, EventsSound
<1>7. \A n : \A i \in Nat : i \in Mine(n)' <=> i + 1 \in Mine(n) /\ i # 0
  BY <1>1, <1>2 DEF Mine
<1>8. \A n : Mine(n)' \in SUBSET Nat
  BY <1>2 DEF Mine
<1>9. \A n : IsFiniteSet(Mine(n)) /\ Mine(n) \in SUBSET Nat /\ 0 \notin Mine(n)
  BY <1>0, MineFinite
<1>10. \A n \in live : n # m => Cardinality(Mine(n)') = Cardinality(Mine(n))
  <2> SUFFICES ASSUME NEW n \in live, n # m PROVE Cardinality(Mine(n)') = Cardinality(Mine(n))
    OBVIOUS
  <2>1. 1 \notin Mine(n)
    BY <1>4 DEF Mine
  <2>2. \A i \in Nat : i \in Mine(n)' <=> i + 1 \in Mine(n)
    BY <1>7, <2>1
  <2>3. QED
    BY <1>8, <1>9, <2>2, Shifted
<1>11. Cardinality(Mine(m)') = Cardinality(Mine(m)) - 1 /\ Cardinality(Mine(m)) \in Nat
  <2>1. 1 \in Mine(m)
    BY <1>4, <1>5 DEF Mine
  <2>2. /\ IsFiniteSet(Mine(m) \ {1}) /\ Cardinality(Mine(m) \ {1}) = Cardinality(Mine(m)) - 1
        /\ Cardinality(Mine(m)) \in Nat
    BY <1>9, <2>1, FS_RemoveElement, FS_CardinalityType
  <2>3. \A i \in Nat : i \in Mine(m)' <=> i + 1 \in Mine(m) \ {1}
    BY <1>7
  <2>4. Mine(m) \ {1} \in SUBSET Nat /\ 0 \notin Mine(m) \ {1}
    BY <1>9
  <2>5. Cardinality(Mine(m)') = Cardinality(Mine(m) \ {1})
    BY <1>8, <2>2, <2>3, <2>4, Shifted
  <2>6. QED
    BY <2>2, <2>5
<1>12. \A n \in live : heap[n] = held[n] + Cardinality(Mine(n))
  BY DEF CopiesIInv, CopiesAccounted, Mine
<1>13. /\ held'[m] = held[m] + 1 /\ held[m] \in Nat
       /\ \A n \in Modules : n # m => held'[n] = held[n]
  BY <1>0, <1>1, Types
<1>14. \A n \in live' : heap'[n] = held'[n] + Cardinality(Mine(n)')
  BY <1>0, <1>1, <1>10, <1>11, <1>12, <1>13, Types
<1>15. CopiesAccounted'
  BY <1>14 DEF CopiesAccounted, Mine
<1>16. QED
  BY <1>6, <1>15

LEMMA FreeCopies ==
  ASSUME CopiesIInv, NEW m \in Modules, ocre_messaging_free_module_event_data(m)
  PROVE  EventsSound' /\ CopiesAccounted'
<1>0. MessagingTypeOK
  BY DEF CopiesIInv, IInv
<1>1. /\ UNCHANGED <<live, gen, queue>> /\ m \in live /\ held[m] > 0
      /\ held' = [held EXCEPT ![m] = @ - 1]
      /\ heap' = [heap EXCEPT ![m] = IF @ > 0 THEN @ - 1 ELSE 0]
  BY DEF ocre_messaging_free_module_event_data
<1>2. EventsSound'
  BY <1>1 DEF CopiesIInv, EventsSound
<1>3. \A n : Mine(n)' = Mine(n)
  BY <1>1 DEF Mine
<1>4. \A n \in live : heap[n] = held[n] + Cardinality(Mine(n))
  BY DEF CopiesIInv, CopiesAccounted, Mine
<1>5. Cardinality(Mine(m)) \in Nat /\ held[m] \in Nat
  BY <1>0, MineFinite, FS_CardinalityType, Types
<1>6. heap[m] > 0 /\ heap[m] - 1 = (held[m] - 1) + Cardinality(Mine(m))
  BY <1>1, <1>4, <1>5
<1>7. /\ heap'[m] = heap[m] - 1 /\ held'[m] = held[m] - 1
      /\ \A n \in Modules : n # m => heap'[n] = heap[n] /\ held'[n] = held[n]
  BY <1>0, <1>1, <1>6, Types
<1>8. \A n \in live' : heap'[n] = held'[n] + Cardinality(Mine(n)')
  BY <1>0, <1>1, <1>3, <1>4, <1>6, <1>7, Types
<1>9. CopiesAccounted'
  BY <1>8 DEF CopiesAccounted, Mine
<1>10. QED
  BY <1>2, <1>9

\* Where no instance gets the address of one that has exited, no copy of a message
\* is leaked, however a publication fails halfway.  (Otherwise the new instance
\* may get an event of the old one, whose memory is gone.)
THEOREM NoCopyLeaked ==
  ASSUME MaxInstances <= 1
  PROVE  MessagingSpec => []CopiesAccounted
<1>1. MessagingInit => CopiesIInv
  <2> SUFFICES ASSUME MessagingInit PROVE CopiesIInv
    OBVIOUS
  <2>1. live = {} /\ DOMAIN queue = {}
    BY EmptySeq DEF MessagingInit, EventsInit
  <2>2. QED
    BY <2>1, InitIInv DEF CopiesIInv, EventsSound, CopiesAccounted
<1>2. CopiesIInv /\ [MessagingNext]_allMessagingVars => CopiesIInv'
  <2> SUFFICES ASSUME CopiesIInv, [MessagingNext]_allMessagingVars PROVE CopiesIInv'
    OBVIOUS
  <2>1. IInv'
    BY NextIInv DEF CopiesIInv
  <2>2. CASE UNCHANGED allMessagingVars
    BY <2>1, <2>2, CopiesQuiet DEF CopiesIInv, allMessagingVars
  <2>3. CASE MessagingNext
    <3>1. PICK m \in Modules : ModuleNext(m)
      BY <2>3 DEF MessagingNext
    <3>2. ASSUME UNCHANGED <<gen, queue, heap, held>>, live' \subseteq live PROVE CopiesIInv'
      BY <2>1, <3>2, CopiesQuiet DEF CopiesIInv
    <3>3. CASE \E topic \in Topics : SubscribeCall(m, topic) \/ PublishCall(m, topic)
      BY <3>2, <3>3 DEF SubscribeCall, PublishCall, Begin
    <3>4. CASE ocre_messaging_init(m) \/ ocre_messaging_subscribe(m) \/ PublishLock(m)
      BY <3>2, <3>4 DEF ocre_messaging_init, ocre_messaging_subscribe, PublishLock
    <3>5. CASE \/ PublishSkips(m) \/ PublishNoMemory(m) \/ PublishUnlock(m)
               \/ PublishCount(m) \/ PublishIncrement(m)
      BY <3>2, <3>5
         DEF PublishSkips, PublishNoMemory, PublishUnlock, PublishCount, PublishIncrement
    <3>6. CASE Cleanup(m)
      BY <3>2, <3>6 DEF Cleanup, ocre_unregister_module
    <3>7. QED
      BY <2>1, <3>1, <3>3, <3>4, <3>5, <3>6, RegisterCopies, PutsCopies, GetCopies, FreeCopies
         DEF CopiesIInv, ModuleNext, Publish
  <2>4. QED
    BY <2>2, <2>3
<1>3. CopiesIInv => CopiesAccounted
  BY DEF CopiesIInv
<1>4. QED
  BY <1>1, <1>2, <1>3, PTL DEF MessagingSpec
=============================================================================
