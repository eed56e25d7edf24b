------------------------------ MODULE Messaging ------------------------------
(***************************************************************************)
(* The messages between containers (ocre_api/ocre_messaging/               *)
(* ocre_messaging.c): the table of subscriptions under its mutex, and a    *)
(* publication, which walks over the table, copies the message into the    *)
(* memory of each matching subscriber and queues an event for it.          *)
(*                                                                         *)
(* ocre_messaging_init is called by whichever module subscribes or         *)
(* publishes first, without a lock.  The message id is read with the mutex *)
(* held and incremented without it: as a data race, the increment is a     *)
(* read and a write.                                                       *)
(*                                                                         *)
(* Arguments are valid, and modules have a context.                        *)
(***************************************************************************)
EXTENDS Events, SequencesExt

CONSTANTS
  MaxSubscriptions,  \* CONFIG_OCRE_MESSAGING_MAX_SUBSCRIPTIONS
  Topics,            \* the topics, sequences of characters
  TopicLen,          \* OCRE_MAX_TOPIC_LEN - 1
  Publishers,        \* which modules publish: subsets of Modules
  HeapSize,          \* how many messages a module's memory has room for
  MaxMessages        \* bound: how many messages are published

ASSUME MessagingAssumption ==
  /\ IsFiniteSet(Modules)
  /\ MaxSubscriptions \in Nat
  /\ Topics \subseteq Seq(Nat) \ {<<>>}
  /\ TopicLen \in Nat \ {0}
  /\ Publishers \subseteq SUBSET Modules
  /\ HeapSize \in Nat
  /\ MaxMessages \in Nat

VARIABLES
  publishers,     \* the modules that publish; never changes
  initialized,    \* messaging_system_initialized
  clears,         \* how often ocre_messaging_init cleared the table
  mutex,          \* who holds messaging_system.mutex
  subscriptions,  \* messaging_system.subscriptions
  message_id,     \* the static counter in ocre_messaging_publish
  calls,          \* calls[m]: the call that m's thread is in
  published,      \* how many publications were begun
  heap,           \* heap[m]: messages allocated in m's memory
  held            \* held[m]: events m got and did not free yet

messagingVars == <<initialized, clears, mutex, subscriptions, message_id, calls,
                   published, heap, held>>
allMessagingVars == <<publishers, eventVars, messagingVars>>

Slots == 1 .. MaxSubscriptions
Free == [active |-> FALSE, module |-> NULL, topic |-> <<>>]

\* A call: where it is and goes after the initialisation, its topic, the next
\* slot, whether a message was queued, the publication's number and the id it
\* read to increment it.
Idle == [at |-> "idle", then |-> "idle", topic |-> <<>>, slot |-> 0,
         sent |-> FALSE, msg |-> 0, id |-> 0]

Places == {"idle", "init", "subscribe", "publish", "slots", "count", "increment"}

Subscription == [active : BOOLEAN, module : Modules \union {NULL}, topic : Seq(Nat)]
CallType == [at : Places, then : Places, topic : Seq(Nat), slot : Nat,
             sent : BOOLEAN, msg : Nat, id : Nat]
Message == [id : Nat, msg : Nat]

MessagingTypeOK ==
  /\ EventsTypeOK(Message)
  /\ publishers \in Publishers
  /\ initialized \in BOOLEAN
  /\ clears \in Nat
  /\ mutex \in Modules \union {NULL}
  /\ subscriptions \in [Slots -> Subscription]
  /\ message_id \in Nat
  /\ calls \in [Modules -> CallType]
  /\ published \in 0 .. MaxMessages
  /\ heap \in [Modules -> 0 .. HeapSize]
  /\ held \in [Modules -> Nat]

MessagingInit ==
  /\ EventsInit
  /\ publishers \in Publishers
  /\ initialized = FALSE
  /\ clears = 0
  /\ mutex = NULL
  /\ subscriptions = [s \in Slots |-> Free]
  /\ message_id = 0
  /\ calls = [m \in Modules |-> Idle]
  /\ published = 0
  /\ heap = [m \in Modules |-> 0]
  /\ held = [m \in Modules |-> 0]

Active(m) == {s \in Slots : subscriptions[s].active /\ subscriptions[s].module = m}

---------------------------------------------------------------------------
(* What subscribe and publish have in common *)

\* A call begins with the check of the flag.
Begin(m, topic, place) ==
  /\ m \in live
  /\ calls[m].at = "idle"
  /\ calls' = [calls EXCEPT ![m] = [Idle EXCEPT !.topic = topic, !.then = place,
                 !.at = IF initialized THEN place ELSE "init"]]
  /\ UNCHANGED <<eventVars, initialized, clears, mutex, subscriptions, message_id,
                 published, heap, held>>

SubscribeCall(m, topic) == Begin(m, topic, "subscribe")

PublishCall(m, topic) ==
  /\ m \in publishers
  /\ published < MaxMessages
  /\ Begin(m, topic, "publish")

\* The flag was found FALSE, by this call and by the check that
\* ocre_messaging_init makes itself: the table is cleared and the mutex made
\* anew, whatever other threads have done since.
ocre_messaging_init(m) ==
  /\ calls[m].at = "init"
  /\ subscriptions' = [s \in Slots |-> Free]
  /\ mutex' = NULL
  /\ initialized' = TRUE
  /\ clears' = clears + 1
  /\ calls' = [calls EXCEPT ![m].at = calls[m].then]
  /\ UNCHANGED <<eventVars, message_id, published, heap, held>>

---------------------------------------------------------------------------
(* ocre_messaging_subscribe, from its lock to its unlock *)

Stored(topic) == SubSeq(topic, 1, IF Len(topic) < TopicLen THEN Len(topic) ELSE TopicLen)

\* strcmp of the topic stored with the topic given
AlreadySubscribed(m, topic) == \E s \in Active(m) : subscriptions[s].topic = topic

FreeSlots == {s \in Slots : ~ subscriptions[s].active}
FirstFree == CHOOSE s \in FreeSlots : \A r \in FreeSlots : s <= r

ocre_messaging_subscribe(m) ==
  /\ calls[m].at = "subscribe"
  /\ mutex = NULL
  /\ \/ /\ AlreadySubscribed(m, calls[m].topic) \/ FreeSlots = {}
        /\ UNCHANGED <<subscriptions, resource_count>>
     \/ /\ ~ AlreadySubscribed(m, calls[m].topic)
        /\ FreeSlots # {}
        /\ subscriptions' = [subscriptions EXCEPT ![FirstFree] =
             [active |-> TRUE, module |-> m, topic |-> Stored(calls[m].topic)]]
        /\ increment_resource_count(m)
  /\ calls' = [calls EXCEPT ![m] = Idle]
  /\ UNCHANGED <<live, gen, queue, initialized, clears, mutex, message_id, published,
                 heap, held>>

---------------------------------------------------------------------------
(* ocre_messaging_publish *)

Mut_PublishUnlocked(m) ==
  /\ calls[m].at = "publish"
  /\ published < MaxMessages
  /\ published' = published + 1
  /\ calls' = [calls EXCEPT ![m] = [@ EXCEPT !.at = "slots", !.slot = 1,
                                      !.sent = FALSE, !.msg = published']]
  /\ UNCHANGED <<eventVars, initialized, clears, mutex, subscriptions, message_id, heap, held>>

PublishLock(m) ==
  /\ calls[m].at = "publish"
  /\ mutex = NULL
  /\ published < MaxMessages
  /\ mutex' = m
  /\ published' = published + 1
  /\ calls' = [calls EXCEPT ![m] = [@ EXCEPT !.at = "slots", !.slot = 1,
                                      !.sent = FALSE, !.msg = published']]
  /\ UNCHANGED <<eventVars, initialized, clears, subscriptions, message_id, heap, held>>

Matches(s, topic) ==
  /\ subscriptions[s].active
  /\ IsPrefix(subscriptions[s].topic, topic)

NextSlot(m, sent) ==
  calls' = [calls EXCEPT ![m].slot = @ + 1, ![m].sent = sent]

\* The slot is not active, or its topic does not match.
PublishSkips(m) ==
  /\ calls[m].at = "slots"
  /\ calls[m].slot \in Slots
  /\ ~ Matches(calls[m].slot, calls[m].topic)
  /\ NextSlot(m, calls[m].sent)
  /\ UNCHANGED <<eventVars, initialized, clears, mutex, subscriptions, message_id,
                 published, heap, held>>

\* One of the three copies does not fit; those before it are freed.
PublishNoMemory(m) ==
  /\ calls[m].at = "slots"
  /\ calls[m].slot \in Slots
  /\ Matches(calls[m].slot, calls[m].topic)
  /\ heap[subscriptions[calls[m].slot].module] = HeapSize
  /\ NextSlot(m, calls[m].sent)
  /\ UNCHANGED <<eventVars, initialized, clears, mutex, subscriptions, message_id,
                 published, heap, held>>

MessageEvent(m, target) ==
  [owner |-> target, gen |-> gen[target],
   body |-> [id |-> message_id, msg |-> calls[m].msg]]

Mut_PublishKeepsCopies(m) ==
  /\ calls[m].at = "slots"
  /\ calls[m].slot \in Slots
  /\ Matches(calls[m].slot, calls[m].topic)
  /\ LET target == subscriptions[calls[m].slot].module IN
       /\ heap[target] < HeapSize
       /\ Put(MessageEvent(m, target))
       /\ heap' = [heap EXCEPT ![target] = @ + 1]
  /\ NextSlot(m, calls[m].sent \/ ~ Full)
  /\ UNCHANGED <<live, gen, resource_count, initialized, clears, mutex, subscriptions,
                 message_id, published, held>>

\* The copies are made; a full queue frees them again.
PublishPuts(m) ==
  /\ calls[m].at = "slots"
  /\ calls[m].slot \in Slots
  /\ Matches(calls[m].slot, calls[m].topic)
  /\ LET target == subscriptions[calls[m].slot].module IN
       /\ heap[target] < HeapSize
       /\ Put(MessageEvent(m, target))
       /\ heap' = [heap EXCEPT ![target] = IF Full THEN @ ELSE @ + 1]
  /\ NextSlot(m, calls[m].sent \/ ~ Full)
  /\ UNCHANGED <<live, gen, resource_count, initialized, clears, mutex, subscriptions,
                 message_id, published, held>>

PublishUnlock(m) ==
  /\ calls[m].at = "slots"
  /\ calls[m].slot \notin Slots
  /\ mutex' = NULL
  /\ calls' = [calls EXCEPT ![m] = IF calls[m].sent THEN [@ EXCEPT !.at = "count"] ELSE Idle]
  /\ UNCHANGED <<eventVars, initialized, clears, subscriptions, message_id, published,
                 heap, held>>

PublishCount(m) ==
  /\ calls[m].at = "count"
  /\ calls' = [calls EXCEPT ![m] = [@ EXCEPT !.at = "increment", !.id = message_id]]
  /\ UNCHANGED <<eventVars, initialized, clears, mutex, subscriptions, message_id,
                 published, heap, held>>

PublishIncrement(m) ==
  /\ calls[m].at = "increment"
  /\ message_id' = calls[m].id + 1
  /\ calls' = [calls EXCEPT ![m] = Idle]
  /\ UNCHANGED <<eventVars, initialized, clears, mutex, subscriptions, published, heap, held>>

---------------------------------------------------------------------------
(* The life of a module *)

Register(m) ==
  /\ ocre_register_module(m)
  /\ heap' = [heap EXCEPT ![m] = 0]
  /\ held' = [held EXCEPT ![m] = 0]
  /\ UNCHANGED <<initialized, clears, mutex, subscriptions, message_id, calls, published>>

Mut_CleanupOffByOne(m) ==
  /\ calls[m].at = "idle"
  /\ initialized => mutex = NULL
  /\ ocre_unregister_module(m)
  /\ subscriptions' = [s \in Slots |->
       IF s \in Active(m) /\ s > 1 THEN Free ELSE subscriptions[s]]
  /\ UNCHANGED <<initialized, clears, mutex, message_id, calls, published, heap, held>>

\* ocre_messaging_cleanup_container: before the instance goes, its
\* subscriptions do, under the mutex.
Cleanup(m) ==
  /\ calls[m].at = "idle"
  /\ initialized => mutex = NULL
  /\ ocre_unregister_module(m)
  /\ subscriptions' = [s \in Slots |->
       IF initialized /\ s \in Active(m) THEN Free ELSE subscriptions[s]]
  /\ UNCHANGED <<initialized, clears, mutex, message_id, calls, published, heap, held>>

GetEvent(m) ==
  /\ calls[m].at = "idle"
  /\ ocre_get_event(m)
  /\ held' = [held EXCEPT ![m] = @ + 1]
  /\ UNCHANGED <<live, gen, resource_count, initialized, clears, mutex, subscriptions,
                 message_id, calls, published, heap>>

\* The guest frees an event it got.
ocre_messaging_free_module_event_data(m) ==
  /\ m \in live
  /\ calls[m].at = "idle"
  /\ held[m] > 0
  /\ held' = [held EXCEPT ![m] = @ - 1]
  /\ heap' = [heap EXCEPT ![m] = IF @ > 0 THEN @ - 1 ELSE 0]
  /\ UNCHANGED <<eventVars, initialized, clears, mutex, subscriptions, message_id,
                 calls, published>>

Publish(m) ==
  \/ PublishSkips(m) \/ PublishNoMemory(m) \/ PublishPuts(m) \/ PublishUnlock(m)
  \/ PublishCount(m) \/ PublishIncrement(m)

ModuleNext(m) ==
  \/ \E topic \in Topics : SubscribeCall(m, topic) \/ PublishCall(m, topic)
  \/ ocre_messaging_init(m)
  \/ ocre_messaging_subscribe(m)
  \/ PublishLock(m)
  \/ Publish(m)
  \/ Register(m) \/ Cleanup(m)
  \/ GetEvent(m) \/ ocre_messaging_free_module_event_data(m)

MessagingNext == (\E m \in Modules : ModuleNext(m)) /\ UNCHANGED publishers

MessagingSpec == MessagingInit /\ [][MessagingNext]_allMessagingVars

---------------------------------------------------------------------------
(* Safety *)

\* A subscription is of a registered instance, so that a publication never
\* copies into memory that is gone, however an exit and a publication meet.
\* Unless two modules initialise the system at once, a module's count is the
\* number of its subscriptions: each subscribe that took a slot still has it.
SubscriptionsAccounted ==
  /\ \A s \in Slots : subscriptions[s].active => subscriptions[s].module \in live
  /\ clears <= 1 => \A m \in live : resource_count[m] = Cardinality(Active(m))

\* The copies of messages in a module's memory are those of the events it has
\* still to get and of those it got and did not free: the paths on which a
\* publication fails halfway, out of memory or with the queue full, leak none.
CopiesAccounted ==
  \A m \in live :
    heap[m] = held[m] +
      Cardinality({i \in DOMAIN queue : queue[i].owner = m /\ queue[i].gen = gen[m]})

\* Unless two modules initialise the system at once, publications do not mix:
\* all modules get the messages in one order.  Where one module publishes, a
\* message id names one message: the id moves on after every message that
\* reached somebody.  (Two publishers may give one id to two messages.)
OneOrder ==
  /\ clears <= 1 =>
       \A i, j \in DOMAIN queue : i < j => queue[i].body.msg <= queue[j].body.msg
  /\ Cardinality(publishers) <= 1 =>
       \A i, j \in DOMAIN queue :
         queue[i].body.id = queue[j].body.id <=> queue[i].body.msg = queue[j].body.msg
=============================================================================
