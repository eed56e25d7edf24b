-------------------------- MODULE PeripheralsProofs --------------------------
(***************************************************************************)
(* What holds of the pins for any number of modules, ports, pins, names    *)
(* and callbacks, and whichever of the driver's calls fail; and of the     *)
(* sensors for any list of devices.                                        *)
(***************************************************************************)
EXTENDS Peripherals, FiniteSetTheorems, SequenceTheorems, TLAPS

Busy(m) == doing[m] # Idle

\* A module in a call is registered; the pin it is about has a place.
CallsSound ==
  \A m \in Modules : Busy(m) =>
    /\ m \in live
    /\ \E at \in Location : doing[m].pin = global_pin(at)

\* A pin in use belongs to a registered instance.
OwnersLive == \A g \in Pins : gpio_pins[g].in_use => gpio_pins[g].owner \in live

CountBounds == \A m \in live : resource_count[m] >= Cardinality(Owned(m))

\* Where modules are careful, what a call has checked of its pin is still so when
\* the call goes on, although the table has no lock.
ChecksHold ==
  Careful =>
    /\ \A g \in Pins : gpio_pins[g].in_use => g \in setting.uses[gpio_pins[g].owner]
    /\ \A m \in Modules : Busy(m) =>
         LET pin == gpio_pins[doing[m].pin] IN
         /\ doing[m].pin \in setting.uses[m]
         /\ doing[m].op = "configure" => ~ pin.in_use
         /\ doing[m].op # "configure" => pin.in_use
         /\ doing[m].op = "register" => pin.direction = "in" /\ pin.cb = 0
         /\ doing[m].op = "unregister" => pin.cb # 0

Counted == Careful => \A m \in live : resource_count[m] = Cardinality(Owned(m))

Reliable == Careful /\ ~ Faulty("interrupt") /\ ~ Faulty("remove")

\* Where callbacks can also be unregistered, the pins in use have the callbacks
\* that are allocated, and the driver has the same.
CallbacksSound ==
  Reliable =>
    /\ \A g \in Pins : gpio_pins[g].cb # 0 =>
         /\ gpio_pins[g].in_use
         /\ gpio_pins[g].direction = "in"
         /\ gpio_pins[g].cb \in allocated
         /\ <<gpio_pins[g].cb, gpio_pins[g].at>> \in attached
    /\ \A g, h \in Pins : gpio_pins[g].cb = gpio_pins[h].cb /\ gpio_pins[g].cb # 0 => g = h
    /\ \A c \in allocated : \E g \in Pins : gpio_pins[g].cb = c
    /\ \A c \in attached : c[1] \in allocated

Current(alias) ==
  alias.name.module \in live /\ alias.name.gen = gen[alias.name.module]

\* A cached name was the string of an instance that was registered.
CacheSound ==
  \A i \in DOMAIN gpio_aliases :
    /\ gpio_aliases[i].name.gen <= gen[gpio_aliases[i].name.module]
    /\ setting.literals => /\ gpio_aliases[i].name.at \in Names
                           /\ gpio_aliases[i].at = Alias[gpio_aliases[i].name.at]

IInv ==
  /\ GpioTypeOK
  /\ CallsSound
  /\ OwnersLive
  /\ CountBounds
  /\ ChecksHold
  /\ Counted
  /\ CallbacksSound
  /\ CacheSound
  /\ NamesResolve

USE DEF eventVars, driverVars, gpioVars

\* The table is finite, and so are the pins of a module.
LEMMA OwnedFinite == \A m : IsFiniteSet(Owned(m))
<1>1. MaxPins - 1 \in Int /\ 0 \in Int
  BY GpioAssumption DEF GpioAssumption
<1>2. IsFiniteSet(Pins)
  BY <1>1, FS_Interval DEF Pins
<1>3. \A m : Owned(m) \in SUBSET Pins
  BY DEF Owned
<1>4. QED
  BY <1>2, <1>3, FS_Subset

\* ocre_gpio_init has not run: no pin is in use.
LEMMA InitIInv == GpioInit => IInv
<1> SUFFICES ASSUME GpioInit PROVE IInv
  OBVIOUS
<1>1. EventsTypeOK(Place)
  BY EventsAssumption, EmptySeq DEF GpioInit, EventsInit, EventsAssumption, EventsTypeOK
<1>2. gpio_pins \in [Pins -> PinType]
  BY DEF GpioInit, PinType, Place, Directions
<1>3. gpio_aliases \in Seq(CacheEntry) /\ Len(gpio_aliases) = 0 /\ DOMAIN gpio_aliases = {}
  BY EmptySeq DEF GpioInit
<1>4. Len(gpio_aliases) <= MaxPins
  BY <1>3, GpioAssumption DEF GpioAssumption
<1>5. /\ setting \in Settings /\ initialized \in BOOLEAN
      /\ allocated \subseteq Callbacks /\ attached \subseteq Callbacks \X Place
      /\ enabled \subseteq Place /\ text \in [Modules -> Names \union {NoName}]
      /\ doing \in [Modules -> {Idle} \union CallType]
  BY DEF GpioInit
<1>6. GpioTypeOK
  BY <1>1, <1>2, <1>3, <1>4, <1>5 DEF GpioTypeOK
<1>7. live = {} /\ \A m \in Modules : doing[m] = Idle
  BY DEF GpioInit, EventsInit
<1>8. \A g \in Pins : ~ gpio_pins[g].in_use /\ gpio_pins[g].cb = 0
  BY DEF GpioInit
<1>9. allocated = {} /\ attached = {}
  BY DEF GpioInit
<1>10. CallsSound /\ OwnersLive /\ CountBounds /\ ChecksHold /\ Counted
  BY <1>7, <1>8 DEF CallsSound, OwnersLive, CountBounds, ChecksHold, Counted, Busy
<1>11. CallbacksSound /\ CacheSound
  BY <1>3, <1>8, <1>9 DEF CallbacksSound, CacheSound
<1>12. NamesResolve
  BY <1>7 DEF NamesResolve, Idle
<1>13. QED
  BY <1>6, <1>10, <1>11, <1>12 DEF IInv

---------------------------------------------------------------------------
(* Types *)

\* What the proofs below use of the types.
LEMMA Types ==
  ASSUME GpioTypeOK
  PROVE  /\ live \subseteq Modules
         /\ gen \in [Modules -> 0 .. MaxInstances]
         /\ resource_count \in [Modules -> Nat]
         /\ queue \in Seq(Event(Place)) /\ Len(queue) <= QueueSize
         /\ allocated \subseteq Callbacks /\ attached \subseteq Callbacks \X Place
         /\ gpio_aliases \in Seq(CacheEntry) /\ Len(gpio_aliases) <= MaxPins
<1>1. EventsTypeOK(Place)
  BY DEF GpioTypeOK
<1>2. QED
  BY <1>1 DEF GpioTypeOK, EventsTypeOK

LEMMA PinsType ==
  ASSUME GpioTypeOK
  PROVE  gpio_pins \in [Pins -> PinType]
BY DEF GpioTypeOK

\* A call that is under way has a pin of the table.
LEMMA DoingType ==
  ASSUME GpioTypeOK
  PROVE  /\ doing \in [Modules -> {Idle} \union CallType]
         /\ \A m \in Modules : doing[m].op \in Ops =>
              doing[m] \in CallType /\ doing[m].pin \in Pins /\ Busy(m)
         /\ \A m \in Modules : Busy(m) => doing[m].op \in Ops /\ doing[m].pin \in Pins
<1>1. doing \in [Modules -> {Idle} \union CallType]
  BY DEF GpioTypeOK
<1>2. QED
  BY <1>1 DEF Idle, Busy, CallType, Ops

LEMMA CacheType ==
  ASSUME GpioTypeOK
  PROVE  /\ Len(gpio_aliases) \in Nat /\ DOMAIN gpio_aliases = 1 .. Len(gpio_aliases)
         /\ \A i \in DOMAIN gpio_aliases :
              /\ gpio_aliases[i] \in CacheEntry
              /\ gpio_aliases[i].at \in Location
              /\ gpio_aliases[i].name.module \in Modules
              /\ gpio_aliases[i].name.gen \in Nat
<1>1. gpio_aliases \in Seq(CacheEntry)
  BY Types
<1>2. Len(gpio_aliases) \in Nat /\ DOMAIN gpio_aliases = 1 .. Len(gpio_aliases)
  BY <1>1, LenProperties
<1>3. \A i \in DOMAIN gpio_aliases : gpio_aliases[i] \in CacheEntry
  BY <1>1, <1>2, ElementOfSeq
<1>4. \A entry \in CacheEntry : entry.at \in Location /\ entry.name \in Pointer
  BY DEF CacheEntry
<1>5. \A pointer \in Pointer : pointer.module \in Modules /\ pointer.gen \in Nat
  BY DEF Pointer
<1>6. QED
  BY <1>2, <1>3, <1>4, <1>5

\* The entry of a pin names the pin's place.
LEMMA LocationOfPin ==
  ASSUME NEW at \in Location
  PROVE  LocationOf(global_pin(at)) = at
<1>1. PinsPerPort \in Nat \ {0} /\ ReadyPorts \subseteq Nat
  BY GpioAssumption DEF GpioAssumption
<1>2. PICK p \in ReadyPorts, q \in 0 .. PinsPerPort - 1 : at = <<p, q>>
  BY DEF Location
<1>3. ASSUME NEW P \in Nat \ {0}, NEW i \in Nat, NEW j \in 0 .. P - 1
      PROVE  (i * P + j) \div P = i /\ (i * P + j) % P = j
  OBVIOUS
<1>4. (p * PinsPerPort + q) \div PinsPerPort = p /\ (p * PinsPerPort + q) % PinsPerPort = q
  BY <1>1, <1>3
<1>5. at[1] = p /\ at[2] = q
  BY <1>2
<1>6. QED
  BY <1>2, <1>4, <1>5 DEF LocationOf, global_pin

\* A name is resolved to a place, and the cache stays within its size.
LEMMA ResolveType ==
  ASSUME GpioTypeOK, NEW m \in Modules, NEW name \in Names, NEW at,
         resolve_gpio_alias(m, name, at)
  PROVE  /\ at \in Location
         /\ text' \in [Modules -> Names \union {NoName}]
         /\ gpio_aliases' \in Seq(CacheEntry) /\ Len(gpio_aliases') <= MaxPins
         /\ \/ gpio_aliases' = gpio_aliases
            \/ /\ DOMAIN gpio_aliases' = DOMAIN gpio_aliases \union {Len(gpio_aliases) + 1}
               /\ \A i \in DOMAIN gpio_aliases : gpio_aliases'[i] = gpio_aliases[i]
               /\ gpio_aliases'[Len(gpio_aliases) + 1] = Cached(m, name)
<1>1. Alias[name] \in Location
  BY GpioAssumption DEF GpioAssumption, Location
<1>2. at \in Location
  BY <1>1, CacheType DEF resolve_gpio_alias
<1>3. text' \in [Modules -> Names \union {NoName}]
  <2>1. text \in [Modules -> Names \union {NoName}]
    BY DEF GpioTypeOK
  <2>2. text' = text \/ text' = [text EXCEPT ![m] = name]
    BY DEF resolve_gpio_alias
  <2>3. QED
    BY <2>1, <2>2
<1>4. Cached(m, name) \in CacheEntry
  <2>1. gen[m] \in Nat
    BY Types, EventsAssumption DEF EventsAssumption
  <2>2. (IF setting.literals THEN name ELSE "buffer") \in Names \union {"buffer"}
    OBVIOUS
  <2>3. [module |-> m, gen |-> gen[m],
         at |-> IF setting.literals THEN name ELSE "buffer"] \in Pointer
    BY <2>1, <2>2 DEF Pointer
  <2>4. QED
    BY <1>1, <2>3 DEF Cached, CacheEntry
<1>5. CASE gpio_aliases' = gpio_aliases
  BY <1>2, <1>3, <1>5, Types
<1>6. CASE Len(gpio_aliases) < MaxPins /\ gpio_aliases' = Append(gpio_aliases, Cached(m, name))
  <2>1. gpio_aliases \in Seq(CacheEntry) /\ Len(gpio_aliases) \in Nat
        /\ DOMAIN gpio_aliases = 1 .. Len(gpio_aliases)
    BY Types, CacheType
  <2>2. /\ gpio_aliases' \in Seq(CacheEntry) /\ Len(gpio_aliases') = Len(gpio_aliases) + 1
        /\ \A i \in 1 .. Len(gpio_aliases) : gpio_aliases'[i] = gpio_aliases[i]
        /\ gpio_aliases'[Len(gpio_aliases) + 1] = Cached(m, name)
    BY <1>4, <1>6, <2>1, AppendProperties
  <2>3. DOMAIN gpio_aliases' = 1 .. Len(gpio_aliases) + 1
    BY <2>2, LenProperties
  <2>4. MaxPins \in Nat
    BY GpioAssumption DEF GpioAssumption
  <2>5. /\ DOMAIN gpio_aliases' = DOMAIN gpio_aliases \union {Len(gpio_aliases) + 1}
        /\ Len(gpio_aliases') <= MaxPins
    BY <1>6, <2>1, <2>2, <2>3, <2>4
  <2>6. QED
    BY <1>2, <1>3, <2>1, <2>2, <2>5
<1>7. QED
  BY <1>5, <1>6 DEF resolve_gpio_alias

\* core_eventq_put and ocre_get_event keep the queue within its size.
LEMMA QueueType ==
  ASSUME GpioTypeOK
  PROVE  /\ \A event \in Event(Place) : Put(event) =>
              /\ queue' \in Seq(Event(Place)) /\ Len(queue') <= QueueSize
              /\ Len(queue') > Len(queue) => queue'[Len(queue')] = event
         /\ \A m : ocre_get_event(m) =>
              /\ queue' \in Seq(Event(Place)) /\ Len(queue') <= QueueSize
              /\ ~ (Len(queue') > Len(queue))
<1>1. queue \in Seq(Event(Place)) /\ Len(queue) <= QueueSize /\ Len(queue) \in Nat
  BY Types, LenProperties
<1>2. QueueSize \in Nat
  BY EventsAssumption DEF EventsAssumption
<1>3. ASSUME NEW event \in Event(Place), Put(event)
      PROVE  /\ queue' \in Seq(Event(Place)) /\ Len(queue') <= QueueSize
             /\ Len(queue') > Len(queue) => queue'[Len(queue')] = event
  <2>1. CASE Full
    BY <1>1, <1>3, <2>1 DEF Put
  <2>2. CASE ~ Full
    <3>1. queue' = Append(queue, event)
      BY <1>3, <2>2 DEF Put
    <3>2. /\ queue' \in Seq(Event(Place)) /\ Len(queue') = Len(queue) + 1
          /\ queue'[Len(queue) + 1] = event
      BY <1>1, <3>1, AppendProperties
    <3>3. QED
      BY <1>1, <1>2, <2>2, <3>2 DEF Full
  <2>3. QED
    BY <2>1, <2>2
<1>4. ASSUME NEW m, ocre_get_event(m)
      PROVE  /\ queue' \in Seq(Event(Place)) /\ Len(queue') <= QueueSize
             /\ ~ (Len(queue') > Len(queue))
  <2>1. queue # <<>> /\ queue' = Tail(queue)
    BY <1>4 DEF ocre_get_event
  <2>2. queue' \in Seq(Event(Place)) /\ Len(queue') = Len(queue) - 1
    BY <1>1, <2>1, HeadTailProperties
  <2>3. QED
    BY <1>1, <1>2, <2>2
<1>5. QED
  BY <1>3, <1>4

\* Every step keeps every variable in its type.
LEMMA NextType ==
  ASSUME GpioTypeOK, CallsSound, GpioNext
  PROVE  GpioTypeOK'
<1>a. setting' \in Settings
  BY DEF GpioNext, GpioTypeOK
<1>b. EventsTypeOK(Place) /\ (UNCHANGED eventVars => EventsTypeOK(Place)')
  BY DEF GpioTypeOK, EventsTypeOK
<1>c. initialized \in BOOLEAN
  BY DEF GpioTypeOK
<1>d. gpio_pins \in [Pins -> PinType]
  BY PinsType
<1>e. /\ gpio_aliases \in Seq(CacheEntry) /\ Len(gpio_aliases) <= MaxPins
      /\ text \in [Modules -> Names \union {NoName}]
  BY DEF GpioTypeOK
<1>f. /\ allocated \subseteq Callbacks /\ attached \subseteq Callbacks \X Place
      /\ enabled \subseteq Place
  BY DEF GpioTypeOK
<1>g. doing \in [Modules -> {Idle} \union CallType]
  BY DoingType
<1>1. ASSUME NEW m \in Modules, Register(m) PROVE GpioTypeOK'
  <2>1. EventsTypeOK(Place)'
    BY <1>1, <1>b, EventsAssumption
       DEF Register, ocre_register_module, EventsTypeOK, EventsAssumption
  <2>2. UNCHANGED gpioVars
    BY <1>1 DEF Register
  <2>3. QED
    BY <1>a, <1>c, <1>d, <1>e, <1>f, <1>g, <2>1, <2>2 DEF GpioTypeOK
<1>2. ASSUME NEW m \in Modules, ocre_gpio_init(m) PROVE GpioTypeOK'
  <2>1. /\ UNCHANGED <<eventVars, gpio_pins, gpio_aliases, driverVars, text, doing>>
        /\ initialized' \in BOOLEAN
    BY <1>2 DEF ocre_gpio_init
  <2>2. QED
    BY <1>a, <1>b, <1>d, <1>e, <1>f, <1>g, <2>1 DEF GpioTypeOK
<1>3. ASSUME NEW m \in Modules, GetEvent(m) PROVE GpioTypeOK'
  <2>1. queue' \in Seq(Event(Place)) /\ Len(queue') <= QueueSize
    BY <1>3, QueueType DEF GetEvent
  <2>2. UNCHANGED <<live, gen, resource_count, gpioVars>>
    BY <1>3 DEF GetEvent
  <2>3. EventsTypeOK(Place)'
    BY <1>b, <2>1, <2>2 DEF EventsTypeOK
  <2>4. QED
    BY <1>a, <1>c, <1>d, <1>e, <1>f, <1>g, <2>2, <2>3 DEF GpioTypeOK
<1>4. ASSUME NEW m \in Modules, NEW op \in Ops, NEW g, NEW name \in Names \union {NoName},
             Begin(m, op, g, name)
      PROVE  doing' \in [Modules -> {Idle} \union CallType]
  <2>1. [op |-> op, pin |-> g, name |-> name] \in CallType
    BY <1>4 DEF Begin, Permitted, CallType
  <2>2. QED
    BY <1>4, <1>g, <2>1 DEF Begin
<1>5. ASSUME NEW m \in Modules, NEW op \in Ops, NEW at \in Location, GpioCall(m, op, at)
      PROVE  GpioTypeOK'
  <2>1. /\ UNCHANGED <<eventVars, initialized, gpio_pins, gpio_aliases, driverVars, text>>
        /\ Begin(m, op, global_pin(at), NoName)
    BY <1>5 DEF GpioCall
  <2>2. doing' \in [Modules -> {Idle} \union CallType]
    BY <1>4, <2>1
  <2>3. QED
    BY <1>a, <1>b, <1>c, <1>d, <1>e, <1>f, <2>1, <2>2 DEF GpioTypeOK
<1>6. ASSUME NEW m \in Modules, NEW op \in Ops, NEW at \in Location, NEW name \in Names,
             GpioCallByName(m, op, name, at)
      PROVE  GpioTypeOK'
  <2>1. /\ UNCHANGED <<eventVars, initialized, gpio_pins, driverVars>>
        /\ resolve_gpio_alias(m, name, at)
        /\ Begin(m, op, global_pin(at), name) \/ UNCHANGED doing
    BY <1>6 DEF GpioCallByName
  <2>2. doing' \in [Modules -> {Idle} \union CallType]
    BY <1>4, <1>g, <2>1
  <2>3. /\ text' \in [Modules -> Names \union {NoName}]
        /\ gpio_aliases' \in Seq(CacheEntry) /\ Len(gpio_aliases') <= MaxPins
    BY <2>1, ResolveType
  <2>4. QED
    BY <1>a, <1>b, <1>c, <1>d, <1>f, <2>1, <2>2, <2>3 DEF GpioTypeOK
<1>7. ASSUME NEW m \in Modules, NEW op \in Ops, Doing(m, op),
             gpio_pins' \in [Pins -> PinType], resource_count' \in [Modules -> Nat],
             allocated' \subseteq Callbacks, attached' \subseteq Callbacks \X Place,
             enabled' \subseteq Place
      PROVE  GpioTypeOK'
  <2>1. doing' \in [Modules -> {Idle} \union CallType]
    BY <1>7, <1>g DEF Doing
  <2>2. UNCHANGED <<live, gen, queue, initialized, gpio_aliases, text>>
    BY <1>7 DEF Doing
  <2>3. EventsTypeOK(Place)'
    BY <1>7, <1>b, <2>2 DEF EventsTypeOK
  <2>4. QED
    BY <1>7, <1>a, <1>c, <1>e, <2>1, <2>2, <2>3 DEF GpioTypeOK
<1>h. resource_count \in [Modules -> Nat]
  BY Types
<1>8. ASSUME NEW m \in Modules, ocre_gpio_configure(m) PROVE GpioTypeOK'
  <2>1. Doing(m, "configure") /\ UNCHANGED driverVars
    BY <1>8 DEF ocre_gpio_configure
  <2>2. doing[m].pin \in Pins /\ LocationOf(doing[m].pin) \in Place
    <3>1. Busy(m) /\ doing[m].pin \in Pins
      BY <2>1, DoingType DEF Doing, Ops
    <3>2. PICK at \in Location : doing[m].pin = global_pin(at)
      BY <3>1 DEF CallsSound
    <3>3. QED
      BY <3>1, <3>2, LocationOfPin DEF Place
  <2>3. gpio_pins' \in [Pins -> PinType]
    <3>1. \/ UNCHANGED gpio_pins
          \/ \E d \in Directions :
               gpio_pins' = [gpio_pins EXCEPT ![doing[m].pin] =
                 [in_use |-> TRUE, direction |-> d, at |-> LocationOf(doing[m].pin),
                  cb |-> 0, owner |-> m]]
      BY <1>8 DEF ocre_gpio_configure
    <3>2. \A d \in Directions :
            [in_use |-> TRUE, direction |-> d, at |-> LocationOf(doing[m].pin),
             cb |-> 0, owner |-> m] \in PinType
      BY <2>2 DEF PinType
    <3>3. QED
      BY <1>d, <2>2, <3>1, <3>2
  <2>4. resource_count' \in [Modules -> Nat]
    BY <1>8, <1>h DEF ocre_gpio_configure, increment_resource_count
  <2>5. QED
    BY <1>7, <1>f, <2>1, <2>3, <2>4 DEF Ops
<1>9. ASSUME NEW m \in Modules, Access(m) PROVE GpioTypeOK'
  BY <1>7, <1>9, <1>d, <1>f, <1>h DEF Access, Ops
<1>10. ASSUME NEW m \in Modules, ocre_gpio_register_callback(m) PROVE GpioTypeOK'
  <2> DEFINE g == doing[m].pin
  <2> DEFINE c == CallbackFor(g)
  <2>1. Doing(m, "register") /\ UNCHANGED resource_count
    BY <1>10 DEF ocre_gpio_register_callback
  <2>2. g \in Pins /\ gpio_pins[g] \in PinType
    BY <1>d, <2>1, DoingType DEF Doing, Ops
  <2>3. gpio_pins[g].cb # 0 \/ Fresh # {} => c \in Callbacks
    BY <2>2 DEF CallbackFor, Fresh, PinType
  <2>4. \/ UNCHANGED <<gpio_pins, driverVars>>
        \/ /\ c \in Callbacks
           /\ gpio_pins' = [gpio_pins EXCEPT ![g].cb = c]
           /\ allocated' = allocated \union {c}
           /\ attached' = attached \union {<<c, gpio_pins[g].at>>}
           /\ enabled' = enabled \union {gpio_pins[g].at}
        \/ /\ gpio_pins' = [gpio_pins EXCEPT ![g].cb = 0]
           /\ allocated' = allocated \ {c}
           /\ UNCHANGED enabled \/ enabled' = enabled \union {gpio_pins[g].at}
           /\ UNCHANGED attached
    BY <1>10, <2>3 DEF ocre_gpio_register_callback
  <2> HIDE DEF c, g
  <2>5. gpio_pins[g].at \in Place
    BY <2>2 DEF PinType
  <2>6. /\ allocated' \subseteq Callbacks /\ attached' \subseteq Callbacks \X Place
        /\ enabled' \subseteq Place
    BY <1>f, <2>4, <2>5
  <2>7. \A e \in Callbacks \union {0} : [gpio_pins[g] EXCEPT !.cb = e] \in PinType
    BY <2>2 DEF PinType
  <2>8. gpio_pins' \in [Pins -> PinType]
    BY <1>d, <2>2, <2>4, <2>7
  <2>9. QED
    BY <1>7, <1>h, <2>1, <2>6, <2>8 DEF Ops
<1>11. ASSUME NEW gs, NEW kept, NEW held, Unregistered(gs, kept, held)
       PROVE  /\ allocated' \subseteq Callbacks /\ attached' \subseteq Callbacks \X Place
              /\ enabled' \subseteq Place
  BY <1>11, <1>f DEF Unregistered
<1>12. ASSUME NEW m \in Modules, ocre_gpio_unregister_callback(m) PROVE GpioTypeOK'
  <2>1. /\ Doing(m, "unregister") /\ UNCHANGED resource_count
        /\ \E gs, kept, held : Unregistered(gs, kept, held)
        /\ UNCHANGED gpio_pins \/ gpio_pins' = [gpio_pins EXCEPT ![doing[m].pin].cb = 0]
    BY <1>12 DEF ocre_gpio_unregister_callback
  <2>2. doing[m].pin \in Pins /\ gpio_pins[doing[m].pin] \in PinType
    BY <1>d, <2>1, DoingType DEF Doing, Ops
  <2>3. [gpio_pins[doing[m].pin] EXCEPT !.cb = 0] \in PinType
    BY <2>2 DEF PinType
  <2>4. gpio_pins' \in [Pins -> PinType]
    BY <1>d, <2>1, <2>2, <2>3
  <2>5. QED
    BY <1>7, <1>11, <1>h, <2>1, <2>4 DEF Ops
<1>13. ASSUME NEW m \in Modules, Cleanup(m) PROVE GpioTypeOK'
  <2>1. /\ ocre_unregister_module(m)
        /\ UNCHANGED <<initialized, gpio_aliases, text, doing>>
        /\ \E gs, kept, held : Unregistered(gs, kept, held)
    BY <1>13 DEF Cleanup
  <2>2. EventsTypeOK(Place)'
    BY <1>b, <2>1 DEF ocre_unregister_module, EventsTypeOK
  <2>3. PICK S : gpio_pins' = [g \in Pins |->
            IF g \in Owned(m)
            THEN [gpio_pins[g] EXCEPT !.in_use = FALSE, !.owner = NULL,
                                      !.cb = IF g \in S THEN 0 ELSE @]
            ELSE gpio_pins[g]]
    BY <1>13 DEF Cleanup
  <2>4. \A g \in Pins : [gpio_pins[g] EXCEPT !.in_use = FALSE, !.owner = NULL,
                           !.cb = IF g \in S THEN 0 ELSE @] \in PinType
    BY <1>d DEF PinType
  <2>5. gpio_pins' \in [Pins -> PinType]
    BY <1>d, <2>3, <2>4
  <2>6. QED
    BY <1>11, <1>a, <1>c, <1>e, <1>g, <2>1, <2>2, <2>5 DEF GpioTypeOK
<1>14. ASSUME NEW c \in attached, gpio_callback_handler(c) PROVE GpioTypeOK'
  <2>1. /\ UNCHANGED <<live, gen, resource_count, gpioVars>>
        /\ \E g \in Pins : Put(GpioEvent(g))
    BY <1>14 DEF gpio_callback_handler
  <2>2. \A g \in Pins : GpioEvent(g) \in Event(Place)
    <3>1. gen \in [Modules -> 0 .. MaxInstances] /\ MaxInstances \in Nat
      BY Types, EventsAssumption DEF EventsAssumption
    <3>2. \A m : GenOf(m) \in Nat
      BY <3>1 DEF GenOf
    <3>3. QED
      BY <1>d, <3>2 DEF GpioEvent, Event, PinType
  <2>3. queue' \in Seq(Event(Place)) /\ Len(queue') <= QueueSize
    BY <2>1, <2>2, QueueType
  <2>4. EventsTypeOK(Place)'
    BY <1>b, <2>1, <2>3 DEF EventsTypeOK
  <2>5. QED
    BY <1>a, <1>c, <1>d, <1>e, <1>f, <1>g, <2>1, <2>4 DEF GpioTypeOK
<1>15. QED
  BY <1>1, <1>2, <1>3, <1>5, <1>6, <1>8, <1>9, <1>10, <1>12, <1>13, <1>14
     DEF GpioNext, ModuleNext, Effect

---------------------------------------------------------------------------
(* What most steps leave alone *)

LEMMA SameSetting ==
  ASSUME setting' = setting
  PROVE  (Careful' <=> Careful) /\ (Reliable' <=> Reliable)
BY DEF Careful, Reliable, Faulty

\* The steps that neither begin a call nor touch the cache.
LEMMA NamesQuiet ==
  ASSUME IInv, UNCHANGED <<setting, gen, gpio_aliases>>, live' \subseteq live,
         \A m \in Modules : doing'[m] = doing[m] \/ doing'[m] = Idle
  PROVE  CacheSound' /\ NamesResolve'
<1>1. CacheSound'
  BY DEF IInv, CacheSound
<1>2. NamesResolve'
  BY DEF IInv, NamesResolve, Idle
<1>3. QED
  BY <1>1, <1>2

\* The steps that leave the pins and their callbacks alone and begin no call.
LEMMA TableQuiet ==
  ASSUME IInv, UNCHANGED <<setting, live, resource_count, gpio_pins, allocated, attached>>,
         \A m \in Modules : doing'[m] = doing[m] \/ doing'[m] = Idle
  PROVE  /\ CallsSound' /\ OwnersLive' /\ CountBounds' /\ ChecksHold' /\ Counted'
         /\ CallbacksSound'
<1>1. (Careful' <=> Careful) /\ (Reliable' <=> Reliable)
  BY SameSetting
<1>2. \A m : Owned(m)' = Owned(m)
  BY DEF Owned
<1>3. \A m \in Modules : Busy(m)' => Busy(m) /\ doing'[m] = doing[m]
  BY DEF Busy
<1>4. CallsSound' /\ ChecksHold'
  BY <1>1, <1>3 DEF IInv, CallsSound, ChecksHold
<1>5. OwnersLive' /\ CountBounds' /\ Counted'
  BY <1>1, <1>2 DEF IInv, OwnersLive, CountBounds, Counted
<1>6. CallbacksSound'
  BY <1>1 DEF IInv, CallbacksSound
<1>7. QED
  BY <1>4, <1>5, <1>6

LEMMA StillIInv ==
  ASSUME IInv, UNCHANGED <<setting, live, gen, resource_count, gpio_pins, gpio_aliases,
                           allocated, attached>>,
         \A m \in Modules : doing'[m] = doing[m] \/ doing'[m] = Idle
  PROVE  GpioTypeOK' => IInv'
BY NamesQuiet, TableQuiet DEF IInv

\* Another careful module's call is on another pin, and another careful module's
\* pin is not the call's.
LEMMA OwnPins ==
  ASSUME IInv, Careful, NEW m \in Modules, Busy(m)
  PROVE  /\ \A n \in Modules : n # m /\ Busy(n) => doing[n].pin # doing[m].pin
         /\ \A n \in Modules : n # m => doing[m].pin \notin Owned(n)
<1>1. \A n \in Modules : n # m => setting.uses[m] \intersect setting.uses[n] = {}
  BY DEF Careful
<1>2. doing[m].pin \in setting.uses[m]
  BY DEF IInv, ChecksHold
<1>3. \A n \in Modules : Busy(n) => doing[n].pin \in setting.uses[n]
  BY DEF IInv, ChecksHold
<1>4. \A n \in Modules : \A g \in Owned(n) : g \in setting.uses[n]
  BY DEF IInv, ChecksHold, Owned
<1>5. QED
  BY <1>1, <1>2, <1>3, <1>4

\* The effect of a call changes the pin of the call, if any: what the other calls
\* have checked stays so.
LEMMA EffectChecks ==
  ASSUME IInv, UNCHANGED <<setting, live>>, NEW m \in Modules, NEW op \in Ops, Doing(m, op),
         \A h \in Pins : h # doing[m].pin => gpio_pins'[h] = gpio_pins[h],
         gpio_pins'[doing[m].pin].in_use =>
           \/ gpio_pins'[doing[m].pin].owner = m
           \/ /\ gpio_pins[doing[m].pin].in_use
              /\ gpio_pins'[doing[m].pin].owner = gpio_pins[doing[m].pin].owner
  PROVE  CallsSound' /\ OwnersLive' /\ ChecksHold'
<1>1. Careful' <=> Careful
  BY SameSetting
<1>2. Busy(m) /\ doing[m].pin \in Pins
  BY DoingType DEF IInv, Doing
<1>3. doing'[m] = Idle /\ \A n \in Modules : n # m => doing'[n] = doing[n]
  BY DoingType DEF IInv, Doing
<1>4. ~ Busy(m)' /\ \A n \in Modules : Busy(n)' => n # m /\ Busy(n) /\ doing'[n] = doing[n]
  BY <1>3 DEF Busy
<1>5. CallsSound'
  BY <1>4 DEF IInv, CallsSound
<1>6. m \in live
  BY <1>2 DEF IInv, CallsSound
<1>7. OwnersLive'
  BY <1>2, <1>6 DEF IInv, OwnersLive
<1>8. ChecksHold'
  <2> SUFFICES ASSUME Careful
               PROVE  /\ \A g \in Pins : gpio_pins'[g].in_use =>
                           g \in setting.uses[gpio_pins'[g].owner]
                      /\ \A n \in Modules : Busy(n)' =>
                           /\ doing'[n] = doing[n] /\ Busy(n)
                           /\ gpio_pins'[doing[n].pin] = gpio_pins[doing[n].pin]
    BY <1>1 DEF ChecksHold, IInv
  <2>1. doing[m].pin \in setting.uses[m]
    BY <1>2 DEF IInv, ChecksHold
  <2>2. \A g \in Pins : gpio_pins'[g].in_use => g \in setting.uses[gpio_pins'[g].owner]
    BY <1>2, <2>1 DEF IInv, ChecksHold
  <2>3. \A n \in Modules : Busy(n)' => gpio_pins'[doing[n].pin] = gpio_pins[doing[n].pin]
    <3> SUFFICES ASSUME NEW n \in Modules, Busy(n)'
                 PROVE  gpio_pins'[doing[n].pin] = gpio_pins[doing[n].pin]
      OBVIOUS
    <3>1. doing[n].pin # doing[m].pin
      BY <1>2, <1>4, OwnPins
    <3>2. doing[n].pin \in Pins
      BY <1>4, DoingType DEF IInv
    <3>3. QED
      BY <3>1, <3>2
  <2>4. QED
    BY <1>4, <2>2, <2>3
<1>9. QED
  BY <1>5, <1>7, <1>8

---------------------------------------------------------------------------
(* The calls *)

\* A call passes its checks on a pin number.
LEMMA CallIInv ==
  ASSUME IInv, UNCHANGED setting, NEW m \in Modules, NEW op \in Ops, NEW at \in Location,
         GpioCall(m, op, at)
  PROVE  GpioTypeOK' => IInv'
<1> DEFINE g == global_pin(at)
<1>1. /\ UNCHANGED <<live, gen, resource_count, gpio_pins, gpio_aliases, allocated, attached>>
      /\ Wanted(m, op, g) /\ Permitted(op, g)
      /\ doing' = [doing EXCEPT ![m] = [op |-> op, pin |-> g, name |-> NoName]]
  BY DEF GpioCall, Begin
<1>2. /\ doing'[m].op = op /\ doing'[m].pin = g /\ doing'[m].name = NoName
      /\ \A n \in Modules : n # m => doing'[n] = doing[n]
  BY <1>1, DoingType DEF IInv
<1>3. m \in live /\ g \in setting.uses[m]
  BY <1>1 DEF Wanted
<1>4. (Careful' <=> Careful) /\ (Reliable' <=> Reliable) /\ \A n : Owned(n)' = Owned(n)
  BY <1>1, SameSetting DEF Owned
<1>5. CallsSound'
  BY <1>1, <1>2, <1>3 DEF IInv, CallsSound, Busy
<1>6. OwnersLive' /\ CountBounds' /\ Counted' /\ CallbacksSound'
  BY <1>1, <1>4 DEF IInv, OwnersLive, CountBounds, Counted, CallbacksSound
<1>7. ASSUME Careful
      PROVE  /\ op = "configure" => ~ gpio_pins[g].in_use
             /\ op # "configure" => gpio_pins[g].in_use
             /\ op = "register" => gpio_pins[g].direction = "in" /\ gpio_pins[g].cb = 0
             /\ op = "unregister" => gpio_pins[g].cb # 0
  BY <1>1, <1>7 DEF Wanted, Permitted, Careful
<1> HIDE DEF g
<1>8. ChecksHold'
  BY <1>1, <1>2, <1>3, <1>4, <1>7 DEF IInv, ChecksHold, Busy
<1>9. CacheSound'
  BY <1>1 DEF IInv, CacheSound
<1>10. NamesResolve'
  BY <1>1, <1>2 DEF IInv, NamesResolve
<1>11. QED
  BY <1>5, <1>6, <1>8, <1>9, <1>10 DEF IInv

\* A name is resolved to the place that it has, if every instance that cached a
\* name still runs and has its names in strings that stay.
LEMMA Resolved ==
  ASSUME IInv, NEW m \in Modules, NEW name \in Names, NEW at,
         resolve_gpio_alias(m, name, at), setting.literals,
         \A i \in DOMAIN gpio_aliases : Current(gpio_aliases[i])
  PROVE  at = Alias[name]
<1>1. ASSUME NEW i \in DOMAIN gpio_aliases, name \in Found(gpio_aliases[i], text')
      PROVE  gpio_aliases[i].at = Alias[name]
  <2>1. /\ gpio_aliases[i].name.at \in Names
        /\ gpio_aliases[i].at = Alias[gpio_aliases[i].name.at]
    BY <1>1 DEF IInv, CacheSound
  <2>2. gpio_aliases[i].name.at # "buffer"
    BY <2>1, GpioAssumption DEF GpioAssumption
  <2>3. Found(gpio_aliases[i], text') = {gpio_aliases[i].name.at}
    BY <1>1, <2>2 DEF Found, Current
  <2>4. QED
    BY <1>1, <2>1, <2>3
<1>2. QED
  BY <1>1 DEF resolve_gpio_alias, Hit

\* A call passes its checks on a name, or the pin of the name is refused.
LEMMA NamedIInv ==
  ASSUME IInv, UNCHANGED setting, NEW m \in Modules, NEW op \in Ops, NEW at \in Location,
         NEW name \in Names, GpioCallByName(m, op, name, at)
  PROVE  GpioTypeOK' => IInv'
<1> DEFINE g == global_pin(at)
<1>1. /\ UNCHANGED <<live, gen, resource_count, gpio_pins, allocated, attached>>
      /\ m \in live /\ setting.named /\ resolve_gpio_alias(m, name, at)
      /\ \/ doing' = [doing EXCEPT ![m] = [op |-> op, pin |-> g, name |-> name]]
         \/ doing' = doing
  BY DEF GpioCallByName, Wanted, Begin
<1>2. /\ doing'[m] = doing[m] \/ doing'[m] = [op |-> op, pin |-> g, name |-> name]
      /\ \A n \in Modules : n # m => doing'[n] = doing[n]
  BY <1>1, DoingType DEF IInv
<1>3. ~ Careful /\ ~ Careful' /\ ~ Reliable' /\ \A n : Owned(n)' = Owned(n)
  BY <1>1 DEF Careful, Reliable, Owned
<1>4. CallsSound'
  BY <1>1, <1>2 DEF IInv, CallsSound, Busy
<1>5. OwnersLive' /\ CountBounds' /\ Counted' /\ CallbacksSound' /\ ChecksHold'
  BY <1>1, <1>3 DEF IInv, OwnersLive, CountBounds, Counted, CallbacksSound, ChecksHold
<1>6. \/ gpio_aliases' = gpio_aliases
      \/ /\ DOMAIN gpio_aliases' = DOMAIN gpio_aliases \union {Len(gpio_aliases) + 1}
         /\ \A i \in DOMAIN gpio_aliases : gpio_aliases'[i] = gpio_aliases[i]
         /\ gpio_aliases'[Len(gpio_aliases) + 1] = Cached(m, name)
  BY <1>1, ResolveType DEF IInv
<1>7. CacheSound'
  <2>1. /\ Cached(m, name).name.gen = gen[m] /\ Cached(m, name).name.module = m
        /\ Cached(m, name).at = Alias[name]
        /\ setting.literals => Cached(m, name).name.at = name
    BY DEF Cached
  <2>2. gen[m] <= gen[m]
    BY Types, EventsAssumption DEF IInv, EventsAssumption
  <2>3. QED
    BY <1>1, <1>6, <2>1, <2>2 DEF IInv, CacheSound
<1>8. NamesResolve'
  <2> SUFFICES ASSUME setting.literals,
                      \A i \in DOMAIN gpio_aliases' : Current(gpio_aliases[i])',
                      NEW n \in Modules, doing'[n].name # NoName
               PROVE  doing'[n].pin = global_pin(Alias[doing'[n].name])
    BY DEF NamesResolve, Current
  <2>1. \A i \in DOMAIN gpio_aliases : Current(gpio_aliases[i])
    BY <1>1, <1>6 DEF Current
  <2>2. CASE doing'[n] = doing[n]
    BY <2>1, <2>2 DEF IInv, NamesResolve, Current
  <2>3. CASE doing'[n] = [op |-> op, pin |-> g, name |-> name]
    <3>1. at = Alias[name]
      BY <1>1, <2>1, Resolved
    <3>2. QED
      BY <2>3, <3>1
  <2>4. QED
    BY <1>2, <2>2, <2>3
<1>9. QED
  BY <1>4, <1>5, <1>7, <1>8 DEF IInv

---------------------------------------------------------------------------
(* The effects of the calls *)

\* The pin of the call is the module's now; nobody's count is too low.
LEMMA ConfigureIInv ==
  ASSUME IInv, UNCHANGED setting, NEW m \in Modules, ocre_gpio_configure(m)
  PROVE  GpioTypeOK' => IInv'
<1> DEFINE g == doing[m].pin
<1>0. GpioTypeOK /\ Doing(m, "configure") /\ "configure" \in Ops
  BY DEF IInv, ocre_gpio_configure, Ops
<1>1. /\ UNCHANGED <<live, gen, queue, gpio_aliases, allocated, attached>>
      /\ doing' = [doing EXCEPT ![m] = Idle]
  BY DEF ocre_gpio_configure, Doing
<1>2. g \in Pins /\ Busy(m)
  BY <1>0, DoingType DEF Doing
<1>3. \A n \in Modules : doing'[n] = doing[n] \/ doing'[n] = Idle
  BY <1>0, <1>1, DoingType
<1>4. CASE UNCHANGED <<gpio_pins, resource_count>>
  BY <1>1, <1>3, <1>4, StillIInv
<1>5. ASSUME NEW d \in Directions,
             gpio_pins' = [gpio_pins EXCEPT ![g] =
               [in_use |-> TRUE, direction |-> d, at |-> LocationOf(g),
                cb |-> 0, owner |-> m]],
             increment_resource_count(m)
      PROVE  GpioTypeOK' => IInv'
  <2> HIDE DEF g
  <2>1. /\ gpio_pins'[g].in_use /\ gpio_pins'[g].owner = m /\ gpio_pins'[g].cb = 0
        /\ \A h \in Pins : h # g => gpio_pins'[h] = gpio_pins[h]
    BY <1>0, <1>2, <1>5, PinsType
  <2>2. CallsSound' /\ OwnersLive' /\ ChecksHold'
    BY <1>0, <1>1, <2>1, EffectChecks DEF g
  <2>3. CacheSound' /\ NamesResolve'
    BY <1>1, <1>3, NamesQuiet
  <2>4. /\ Owned(m)' = Owned(m) \union {g}
        /\ \A n \in Modules : n # m => Owned(n)' = Owned(n) \ {g}
    BY <1>2, <2>1 DEF Owned
  <2>5. resource_count \in [Modules -> Nat] /\ live \subseteq Modules
    BY <1>0, Types
  <2>6. /\ resource_count'[m] = resource_count[m] + 1
        /\ \A n \in Modules : n # m => resource_count'[n] = resource_count[n]
    BY <1>5, <2>5 DEF increment_resource_count
  <2>7. \A n : IsFiniteSet(Owned(n)) /\ Cardinality(Owned(n)) \in Nat
    BY OwnedFinite, FS_CardinalityType
  <2>8. /\ Cardinality(Owned(m))' =
             IF g \in Owned(m) THEN Cardinality(Owned(m)) ELSE Cardinality(Owned(m)) + 1
        /\ \A n \in Modules : n # m => Cardinality(Owned(n))' =
             IF g \in Owned(n) THEN Cardinality(Owned(n)) - 1 ELSE Cardinality(Owned(n))
    BY <2>4, <2>7, FS_AddElement, FS_RemoveElement
  <2>9. CountBounds'
    <3> SUFFICES ASSUME NEW n \in live PROVE resource_count'[n] >= Cardinality(Owned(n))'
      BY <1>1 DEF CountBounds
    <3>1. /\ n \in Modules /\ resource_count[n] >= Cardinality(Owned(n))
          /\ resource_count[n] \in Nat /\ Cardinality(Owned(n)) \in Nat
      BY <2>5, <2>7 DEF IInv, CountBounds
    <3>2. QED
      BY <2>6, <2>8, <3>1
  <2>10. Careful => ~ gpio_pins[g].in_use
    BY <1>0, <1>2 DEF IInv, ChecksHold, Doing, g
  <2>11. Counted'
    <3> SUFFICES ASSUME Careful, NEW n \in live
                 PROVE  resource_count'[n] = Cardinality(Owned(n))'
      BY <1>1, SameSetting DEF Counted
    <3>1. /\ n \in Modules /\ resource_count[n] = Cardinality(Owned(n))
      BY <2>5 DEF IInv, Counted
    <3>2. g \notin Owned(n)
      BY <2>10 DEF Owned
    <3>3. QED
      BY <2>6, <2>8, <3>1, <3>2
  <2>12. CallbacksSound'
    <3> SUFFICES ASSUME Reliable PROVE CallbacksSound'
      BY SameSetting DEF CallbacksSound
    <3>1. gpio_pins[g].cb = 0
      BY <1>2, <2>10 DEF IInv, CallbacksSound, Reliable
    <3>2. \A h \in Pins : /\ gpio_pins'[h].cb = gpio_pins[h].cb
                          /\ gpio_pins[h].cb # 0 => gpio_pins'[h] = gpio_pins[h]
      BY <2>1, <3>1
    <3>3. 0 \notin allocated
      BY <1>0, Types, GpioAssumption DEF GpioAssumption
    <3>4. QED
      BY <1>1, <3>2, <3>3 DEF IInv, CallbacksSound
  <2>13. QED
    BY <2>2, <2>3, <2>9, <2>11, <2>12 DEF IInv
<1>6. QED
  BY <1>4, <1>5 DEF ocre_gpio_configure

\* The calls that change no more of a pin than its callback.
LEMMA CallbackOnly ==
  ASSUME IInv, UNCHANGED <<setting, resource_count>>, NEW m \in Modules, NEW op \in Ops,
         Doing(m, op),
         NEW c, gpio_pins' = [gpio_pins EXCEPT ![doing[m].pin].cb = c]
  PROVE  /\ CallsSound' /\ OwnersLive' /\ CountBounds' /\ ChecksHold' /\ Counted'
         /\ CacheSound' /\ NamesResolve'
         /\ doing[m].pin \in Pins /\ Busy(m)
         /\ gpio_pins'[doing[m].pin].cb = c
         /\ \A h \in Pins : h # doing[m].pin => gpio_pins'[h] = gpio_pins[h]
         /\ \A h \in Pins : /\ gpio_pins'[h].in_use = gpio_pins[h].in_use
                            /\ gpio_pins'[h].direction = gpio_pins[h].direction
                            /\ gpio_pins'[h].at = gpio_pins[h].at
<1>0. GpioTypeOK
  BY DEF IInv
<1>1. /\ UNCHANGED <<live, gen, queue, gpio_aliases>>
      /\ doing' = [doing EXCEPT ![m] = Idle]
  BY DEF Doing
<1>2. doing[m].pin \in Pins /\ Busy(m)
  BY <1>0, DoingType DEF Doing
<1>3. \A n \in Modules : doing'[n] = doing[n] \/ doing'[n] = Idle
  BY <1>0, <1>1, DoingType
<1>4. /\ gpio_pins'[doing[m].pin] = [gpio_pins[doing[m].pin] EXCEPT !.cb = c]
      /\ \A h \in Pins : h # doing[m].pin => gpio_pins'[h] = gpio_pins[h]
  BY <1>0, <1>2, PinsType
<1>5. gpio_pins[doing[m].pin] \in PinType
  BY <1>0, <1>2, PinsType
<1>6. /\ gpio_pins'[doing[m].pin].in_use = gpio_pins[doing[m].pin].in_use
      /\ gpio_pins'[doing[m].pin].direction = gpio_pins[doing[m].pin].direction
      /\ gpio_pins'[doing[m].pin].at = gpio_pins[doing[m].pin].at
      /\ gpio_pins'[doing[m].pin].owner = gpio_pins[doing[m].pin].owner
      /\ gpio_pins'[doing[m].pin].cb = c
  BY <1>4, <1>5 DEF PinType
<1>7. CallsSound' /\ OwnersLive' /\ ChecksHold'
  BY <1>1, <1>4, <1>6, EffectChecks
<1>8. CacheSound' /\ NamesResolve'
  BY <1>1, <1>3, NamesQuiet
<1>9. \A h \in Pins : /\ gpio_pins'[h].in_use = gpio_pins[h].in_use
                      /\ gpio_pins'[h].owner = gpio_pins[h].owner
                      /\ gpio_pins'[h].direction = gpio_pins[h].direction
                      /\ gpio_pins'[h].at = gpio_pins[h].at
  BY <1>4, <1>6
<1>10. \A n : Owned(n)' = Owned(n)
  BY <1>9 DEF Owned
<1>11. CountBounds' /\ Counted'
  BY <1>1, <1>10, SameSetting DEF IInv, CountBounds, Counted
<1>12. QED
  BY <1>2, <1>4, <1>6, <1>7, <1>8, <1>9, <1>11

\* The new callback is the pin's, and the driver has it, or it is freed.
LEMMA RegisterCallbackIInv ==
  ASSUME IInv, UNCHANGED setting, NEW m \in Modules, ocre_gpio_register_callback(m)
  PROVE  GpioTypeOK' => IInv'
<1> DEFINE g == doing[m].pin
<1> DEFINE c == CallbackFor(g)
<1>0. GpioTypeOK /\ Doing(m, "register") /\ UNCHANGED resource_count /\ "register" \in Ops
  BY DEF IInv, ocre_gpio_register_callback, Ops
<1>1. /\ UNCHANGED <<live, gen, queue, gpio_aliases>>
      /\ doing' = [doing EXCEPT ![m] = Idle]
  BY <1>0 DEF Doing
<1>2. \A n \in Modules : doing'[n] = doing[n] \/ doing'[n] = Idle
  BY <1>0, <1>1, DoingType
<1>3. \/ UNCHANGED <<gpio_pins, driverVars>>
      \/ /\ gpio_pins[g].cb # 0 \/ Fresh # {}
         /\ gpio_pins' = [gpio_pins EXCEPT ![g].cb = c]
         /\ allocated' = allocated \union {c}
         /\ attached' = attached \union {<<c, gpio_pins[g].at>>}
      \/ /\ gpio_pins[g].cb # 0 \/ Fresh # {}
         /\ gpio_pins' = [gpio_pins EXCEPT ![g].cb = 0]
         /\ allocated' = allocated \ {c}
         /\ UNCHANGED attached
  BY DEF ocre_gpio_register_callback
<1>4. ASSUME Reliable
      PROVE  /\ gpio_pins[g].cb = 0 /\ gpio_pins[g].in_use /\ gpio_pins[g].direction = "in"
  BY <1>0, <1>4, DoingType DEF IInv, ChecksHold, Reliable, Doing
<1>5. ASSUME Reliable, Fresh # {}
      PROVE  c \in Callbacks /\ c # 0 /\ c \notin allocated /\ c \notin {x[1] : x \in attached}
  BY <1>4, <1>5, GpioAssumption DEF CallbackFor, Fresh, GpioAssumption
<1> HIDE DEF g, c
<1>6. CASE UNCHANGED <<gpio_pins, driverVars>>
  BY <1>0, <1>1, <1>2, <1>6, StillIInv
<1>7. CASE /\ gpio_pins[g].cb # 0 \/ Fresh # {}
           /\ gpio_pins' = [gpio_pins EXCEPT ![g].cb = c]
           /\ allocated' = allocated \union {c}
           /\ attached' = attached \union {<<c, gpio_pins[g].at>>}
  <2>1. /\ CallsSound' /\ OwnersLive' /\ CountBounds' /\ ChecksHold' /\ Counted'
        /\ CacheSound' /\ NamesResolve'
        /\ g \in Pins /\ gpio_pins'[g].cb = c
        /\ \A h \in Pins : h # g => gpio_pins'[h] = gpio_pins[h]
        /\ \A h \in Pins : /\ gpio_pins'[h].in_use = gpio_pins[h].in_use
                           /\ gpio_pins'[h].direction = gpio_pins[h].direction
                           /\ gpio_pins'[h].at = gpio_pins[h].at
    BY <1>0, <1>7, CallbackOnly DEF g
  <2>2. CallbacksSound'
    <3> SUFFICES ASSUME Reliable PROVE CallbacksSound'
      BY SameSetting DEF CallbacksSound
    <3>1. /\ gpio_pins[g].cb = 0 /\ gpio_pins[g].in_use /\ gpio_pins[g].direction = "in"
          /\ c # 0 /\ c \notin allocated
      BY <1>4, <1>5, <1>7
    <3>2. \A h \in Pins : gpio_pins'[h].cb # 0 =>
           /\ gpio_pins'[h].in_use
           /\ gpio_pins'[h].direction = "in"
           /\ gpio_pins'[h].cb \in allocated'
           /\ <<gpio_pins'[h].cb, gpio_pins'[h].at>> \in attached'
      BY <1>7, <2>1, <3>1 DEF IInv, CallbacksSound
    <3>3. \A h, k \in Pins :
             gpio_pins'[h].cb = gpio_pins'[k].cb /\ gpio_pins'[h].cb # 0 => h = k
      <4>1. \A h, k \in Pins : gpio_pins[h].cb = gpio_pins[k].cb /\ gpio_pins[h].cb # 0 => h = k
        BY DEF IInv, CallbacksSound
      <4>2. \A h \in Pins : gpio_pins[h].cb # c
        BY <3>1 DEF IInv, CallbacksSound
      <4>3. \A h \in Pins : h # g => gpio_pins'[h].cb = gpio_pins[h].cb
        BY <2>1
      <4>4. QED
        BY <2>1, <4>1, <4>2, <4>3
    <3>4. \A x \in allocated' : \E h \in Pins : gpio_pins'[h].cb = x
      <4> SUFFICES ASSUME NEW x \in allocated, x # c PROVE \E h \in Pins : gpio_pins'[h].cb = x
        BY <1>7, <2>1
      <4>1. PICK h \in Pins : gpio_pins[h].cb = x
        BY DEF IInv, CallbacksSound
      <4>2. x # 0
        BY <1>0, Types, GpioAssumption DEF GpioAssumption
      <4>3. QED
        BY <2>1, <3>1, <4>1, <4>2
    <3>5. \A x \in attached' : x[1] \in allocated'
      BY <1>7 DEF IInv, CallbacksSound
    <3>6. QED
      BY <3>2, <3>3, <3>4, <3>5 DEF CallbacksSound
  <2>3. QED
    BY <2>1, <2>2 DEF IInv
<1>8. CASE /\ gpio_pins[g].cb # 0 \/ Fresh # {}
           /\ gpio_pins' = [gpio_pins EXCEPT ![g].cb = 0]
           /\ allocated' = allocated \ {c}
           /\ UNCHANGED attached
  <2>1. /\ CallsSound' /\ OwnersLive' /\ CountBounds' /\ ChecksHold' /\ Counted'
        /\ CacheSound' /\ NamesResolve'
        /\ g \in Pins /\ gpio_pins'[g].cb = 0
        /\ \A h \in Pins : h # g => gpio_pins'[h] = gpio_pins[h]
    BY <1>0, <1>8, CallbackOnly DEF g
  <2>2. CallbacksSound'
    <3> SUFFICES ASSUME Reliable PROVE CallbacksSound'
      BY SameSetting DEF CallbacksSound
    <3>1. gpio_pins[g].cb = 0 /\ c \notin allocated
      BY <1>4, <1>5, <1>8
    <3>2. allocated' = allocated /\ \A h \in Pins :
             /\ gpio_pins'[h].cb = gpio_pins[h].cb
             /\ gpio_pins[h].cb # 0 => gpio_pins'[h] = gpio_pins[h]
      BY <1>8, <2>1, <3>1
    <3>3. QED
      BY <1>8, <3>2 DEF IInv, CallbacksSound
  <2>3. QED
    BY <2>1, <2>2 DEF IInv
<1>9. QED
  BY <1>3, <1>6, <1>7, <1>8 DEF c, g

\* The callback is freed, and the driver no longer has it.
LEMMA UnregisterCallbackIInv ==
  ASSUME IInv, UNCHANGED setting, NEW m \in Modules, ocre_gpio_unregister_callback(m)
  PROVE  GpioTypeOK' => IInv'
<1> DEFINE g == doing[m].pin
<1>0. GpioTypeOK /\ Doing(m, "unregister") /\ UNCHANGED resource_count /\ "unregister" \in Ops
  BY DEF IInv, ocre_gpio_unregister_callback, Ops
<1>1. /\ UNCHANGED <<live, gen, queue, gpio_aliases>>
      /\ doing' = [doing EXCEPT ![m] = Idle]
  BY <1>0 DEF Doing
<1>2. \A n \in Modules : doing'[n] = doing[n] \/ doing'[n] = Idle
  BY <1>0, <1>1, DoingType
<1>3. PICK kept \in SUBSET {g}, held \in SUBSET {g} :
        /\ Unregistered({g}, kept, held)
        /\ gpio_pins' = IF g \in kept THEN gpio_pins ELSE [gpio_pins EXCEPT ![g].cb = 0]
  BY DEF ocre_gpio_unregister_callback
<1> HIDE DEF g
<1>4. CASE g \in kept
  <2>1. UNCHANGED <<gpio_pins, allocated, attached>>
    BY <1>3, <1>4 DEF Unregistered
  <2>2. QED
    BY <1>0, <1>1, <1>2, <2>1, StillIInv
<1>5. CASE g \notin kept
  <2>1. gpio_pins' = [gpio_pins EXCEPT ![g].cb = 0] /\ kept = {}
    BY <1>3, <1>5
  <2>2. /\ CallsSound' /\ OwnersLive' /\ CountBounds' /\ ChecksHold' /\ Counted'
        /\ CacheSound' /\ NamesResolve'
        /\ g \in Pins /\ gpio_pins'[g].cb = 0
        /\ \A h \in Pins : h # g => gpio_pins'[h] = gpio_pins[h]
    BY <1>0, <2>1, CallbackOnly DEF g
  <2>3. CallbacksSound'
    <3> SUFFICES ASSUME Reliable PROVE CallbacksSound'
      BY SameSetting DEF CallbacksSound
    <3>1. held = {}
      BY <1>3 DEF Unregistered, Reliable
    <3>2. /\ allocated' = allocated \ {gpio_pins[g].cb}
          /\ attached' = {x \in attached : gpio_pins[g].cb # x[1]}
      BY <1>3, <2>1, <3>1 DEF Unregistered
    <3>3. /\ \A h \in Pins : gpio_pins[h].cb # 0 =>
               /\ gpio_pins[h].in_use /\ gpio_pins[h].direction = "in"
               /\ gpio_pins[h].cb \in allocated
               /\ <<gpio_pins[h].cb, gpio_pins[h].at>> \in attached
          /\ \A h, k \in Pins : gpio_pins[h].cb = gpio_pins[k].cb /\ gpio_pins[h].cb # 0 => h = k
          /\ \A x \in allocated : \E h \in Pins : gpio_pins[h].cb = x
          /\ \A x \in attached : x[1] \in allocated
      BY DEF IInv, CallbacksSound
    <3>4. \A h \in Pins : gpio_pins'[h].cb # 0 =>
             /\ gpio_pins'[h].in_use /\ gpio_pins'[h].direction = "in"
             /\ gpio_pins'[h].cb \in allocated'
             /\ <<gpio_pins'[h].cb, gpio_pins'[h].at>> \in attached'
      BY <2>2, <3>2, <3>3
    <3>5. \A h, k \in Pins :
             gpio_pins'[h].cb = gpio_pins'[k].cb /\ gpio_pins'[h].cb # 0 => h = k
      <4>1. \A h \in Pins : h # g => gpio_pins'[h].cb = gpio_pins[h].cb
        BY <2>2
      <4>2. QED
        BY <2>2, <3>3, <4>1
    <3>6. \A x \in allocated' : \E h \in Pins : gpio_pins'[h].cb = x
      BY <2>2, <3>2, <3>3
    <3>7. \A x \in attached' : x[1] \in allocated'
      BY <3>2, <3>3
    <3>8. QED
      BY <3>4, <3>5, <3>6, <3>7 DEF CallbacksSound
  <2>4. QED
    BY <2>2, <2>3 DEF IInv
<1>6. QED
  BY <1>4, <1>5

---------------------------------------------------------------------------
(* The life of a module *)

\* A new instance has no pin, and its count starts at 0.
LEMMA RegisterIInv ==
  ASSUME IInv, UNCHANGED setting, NEW m \in Modules, Register(m)
  PROVE  GpioTypeOK' => IInv'
<1>0. GpioTypeOK
  BY DEF IInv
<1>1. /\ UNCHANGED gpioVars
      /\ m \notin live /\ live' = live \union {m}
      /\ gen' = [gen EXCEPT ![m] = @ + 1]
      /\ resource_count' = [resource_count EXCEPT ![m] = 0]
  BY DEF Register, ocre_register_module
<1>2. (Careful' <=> Careful) /\ (Reliable' <=> Reliable)
  BY SameSetting
<1>3. (\A n : Owned(n)' = Owned(n)) /\ \A n \in Modules : Busy(n)' <=> Busy(n)
  BY <1>1 DEF Owned, Busy
<1>4. Owned(m) = {}
  BY <1>1 DEF IInv, OwnersLive, Owned
<1>5. CallsSound' /\ OwnersLive' /\ ChecksHold'
  BY <1>1, <1>2, <1>3 DEF IInv, CallsSound, OwnersLive, ChecksHold
<1>6. CountBounds' /\ Counted'
  <2>1. resource_count \in [Modules -> Nat] /\ live \subseteq Modules
    BY <1>0, Types
  <2>2. resource_count'[m] = 0 /\ \A n \in live : resource_count'[n] = resource_count[n]
    BY <1>1, <2>1
  <2>3. Cardinality(Owned(m)) = 0
    BY <1>4, FS_EmptySet
  <2>4. QED
    BY <1>1, <1>2, <1>3, <2>2, <2>3 DEF IInv, CountBounds, Counted
<1>7. CallbacksSound'
  BY <1>1, <1>2 DEF IInv, CallbacksSound
<1>8. /\ gen \in [Modules -> 0 .. MaxInstances] /\ MaxInstances \in Nat
      /\ gen'[m] = gen[m] + 1 /\ \A n \in Modules : n # m => gen'[n] = gen[n]
  BY <1>0, <1>1, Types, EventsAssumption DEF EventsAssumption
<1>9. \A i \in DOMAIN gpio_aliases :
        /\ gpio_aliases[i].name.module \in Modules /\ gpio_aliases[i].name.gen \in Nat
        /\ gpio_aliases[i].name.gen <= gen[gpio_aliases[i].name.module]
  BY <1>0, CacheType DEF IInv, CacheSound
<1>10. \A n \in Modules : gen[n] \in Nat /\ gen'[n] \in Nat /\ gen[n] <= gen'[n]
  BY <1>8
<1>11. CacheSound'
  <2>1. \A i \in DOMAIN gpio_aliases :
          gpio_aliases[i].name.gen <= gen'[gpio_aliases[i].name.module]
    BY <1>9, <1>10
  <2>2. QED
    BY <1>1, <2>1 DEF IInv, CacheSound
<1>12. NamesResolve'
  <2>1. \A i \in DOMAIN gpio_aliases :
          /\ gpio_aliases[i].name.module \in live'
          /\ gpio_aliases[i].name.gen = gen'[gpio_aliases[i].name.module]
          => Current(gpio_aliases[i])
    BY <1>1, <1>8, <1>9 DEF Current
  <2>2. QED
    BY <1>1, <2>1 DEF IInv, NamesResolve, Current
<1>13. QED
  BY <1>5, <1>6, <1>7, <1>11, <1>12 DEF IInv

\* The pins of the module are free, and their callbacks too, if the driver lets
\* go of them.
LEMMA CleanupIInv ==
  ASSUME IInv, UNCHANGED setting, NEW m \in Modules, Cleanup(m)
  PROVE  GpioTypeOK' => IInv'
<1> DEFINE registered == {g \in Owned(m) : gpio_pins[g].direction = "in" /\ gpio_pins[g].cb # 0}
<1>0. GpioTypeOK /\ gpio_pins \in [Pins -> PinType]
  BY PinsType DEF IInv
<1>1. /\ doing[m] = Idle /\ live' = live \ {m}
      /\ resource_count' = [resource_count EXCEPT ![m] = 0]
      /\ UNCHANGED <<gen, gpio_aliases, doing>>
  BY DEF Cleanup, ocre_unregister_module
<1>2. PICK kept \in SUBSET registered, held \in SUBSET registered :
        /\ Unregistered(registered, kept, held)
        /\ gpio_pins' = [g \in Pins |->
             IF g \in Owned(m)
             THEN [gpio_pins[g] EXCEPT !.in_use = FALSE, !.owner = NULL,
                                       !.cb = IF g \in registered \ kept THEN 0 ELSE @]
             ELSE gpio_pins[g]]
  BY DEF Cleanup
<1>3. /\ \A g \in Owned(m) : ~ gpio_pins'[g].in_use
      /\ \A g \in Owned(m) : gpio_pins'[g].cb =
           IF g \in registered \ kept THEN 0 ELSE gpio_pins[g].cb
      /\ \A g \in Pins \ Owned(m) : gpio_pins'[g] = gpio_pins[g]
  <2>1. \A g \in Pins : gpio_pins[g] \in PinType
    BY <1>0
  <2>2. \A g \in Owned(m) : g \in Pins
    BY DEF Owned
  <2>3. QED
    BY <1>2, <2>1, <2>2 DEF PinType
<1>4. (Careful' <=> Careful) /\ (Reliable' <=> Reliable)
  BY SameSetting
<1>5. \A n \in Modules : Busy(n)' => n # m /\ Busy(n)
  BY <1>1 DEF Busy
<1>6. \A n \in Modules : n # m => Owned(n)' = Owned(n)
  BY <1>3 DEF Owned
<1>7. CallsSound' /\ OwnersLive'
  <2>1. CallsSound'
    BY <1>1, <1>5 DEF IInv, CallsSound
  <2>2. \A g \in Pins : gpio_pins'[g].in_use =>
          gpio_pins'[g] = gpio_pins[g] /\ gpio_pins[g].owner # m
    BY <1>3 DEF Owned
  <2>3. OwnersLive'
    BY <1>1, <2>2 DEF IInv, OwnersLive
  <2>4. QED
    BY <2>1, <2>3
<1>8. CountBounds' /\ Counted'
  <2>1. resource_count \in [Modules -> Nat] /\ live \subseteq Modules
    BY <1>0, Types
  <2>2. \A n \in live' : n \in live /\ n \in Modules /\ n # m
                         /\ resource_count'[n] = resource_count[n]
    BY <1>1, <2>1
  <2>3. QED
    BY <1>4, <1>6, <2>2 DEF IInv, CountBounds, Counted
<1>9. ChecksHold'
  <2> SUFFICES ASSUME Careful
               PROVE  /\ \A g \in Pins : gpio_pins'[g].in_use => gpio_pins'[g] = gpio_pins[g]
                      /\ \A n \in Modules : Busy(n)' =>
                           Busy(n) /\ gpio_pins'[doing[n].pin] = gpio_pins[doing[n].pin]
    BY <1>1, <1>4 DEF IInv, ChecksHold
  <2>1. \A n \in Modules : Busy(n) /\ n # m =>
          doing[n].pin \in Pins /\ doing[n].pin \notin Owned(m)
    BY <1>0, OwnPins, DoingType
  <2>2. QED
    BY <1>3, <1>5, <2>1
<1>10. CallbacksSound'
  <2> SUFFICES ASSUME Reliable PROVE CallbacksSound'
    BY <1>4 DEF CallbacksSound
  <2>1. kept = {} /\ held = {}
    BY <1>2 DEF Unregistered, Reliable
  <2>2. /\ allocated' = allocated \ {gpio_pins[g].cb : g \in registered}
        /\ attached' = {x \in attached : \A g \in registered : gpio_pins[g].cb # x[1]}
    BY <1>2, <2>1 DEF Unregistered
  <2>3. /\ \A h \in Pins : gpio_pins[h].cb # 0 =>
             /\ gpio_pins[h].in_use /\ gpio_pins[h].direction = "in"
             /\ gpio_pins[h].cb \in allocated
             /\ <<gpio_pins[h].cb, gpio_pins[h].at>> \in attached
        /\ \A h, k \in Pins : gpio_pins[h].cb = gpio_pins[k].cb /\ gpio_pins[h].cb # 0 => h = k
        /\ \A x \in allocated : \E h \in Pins : gpio_pins[h].cb = x
        /\ \A x \in attached : x[1] \in allocated
    BY DEF IInv, CallbacksSound
  <2>4. /\ \A g \in registered : g \in Pins /\ g \in Owned(m) /\ gpio_pins[g].cb # 0
        /\ \A g \in Owned(m) : g \in Pins /\ (gpio_pins[g].cb # 0 => g \in registered)
    BY <2>3 DEF Owned
  <2> HIDE DEF registered
  <2>5. \A h \in Pins : gpio_pins'[h].cb # 0 =>
           h \notin Owned(m) /\ gpio_pins'[h] = gpio_pins[h]
    BY <1>3, <2>1, <2>4
  <2>6. \A h \in Pins : gpio_pins'[h].cb # 0 =>
           /\ gpio_pins'[h].in_use /\ gpio_pins'[h].direction = "in"
           /\ gpio_pins'[h].cb \in allocated'
           /\ <<gpio_pins'[h].cb, gpio_pins'[h].at>> \in attached'
    BY <2>2, <2>3, <2>4, <2>5
  <2>7. \A h, k \in Pins :
           gpio_pins'[h].cb = gpio_pins'[k].cb /\ gpio_pins'[h].cb # 0 => h = k
    BY <2>3, <2>5
  <2>8. \A x \in allocated' : \E h \in Pins : gpio_pins'[h].cb = x
    <3> SUFFICES ASSUME NEW x \in allocated' PROVE \E h \in Pins : gpio_pins'[h].cb = x
      OBVIOUS
    <3>1. PICK h \in Pins : gpio_pins[h].cb = x
      BY <2>2, <2>3
    <3>2. x # 0
      BY <1>0, <2>2, Types, GpioAssumption DEF GpioAssumption
    <3>3. h \notin Owned(m)
      BY <2>2, <2>4, <3>1, <3>2
    <3>4. QED
      BY <1>3, <3>1, <3>3
  <2>9. \A x \in attached' : x[1] \in allocated'
    BY <2>2, <2>3
  <2>10. QED
    BY <2>6, <2>7, <2>8, <2>9 DEF CallbacksSound
<1>11. CacheSound' /\ NamesResolve'
  BY <1>1, NamesQuiet
<1>12. QED
  BY <1>7, <1>8, <1>9, <1>10, <1>11 DEF IInv

---------------------------------------------------------------------------
(* The invariance of IInv, and what it says of the pins *)

LEMMA NextIInv == IInv /\ GpioNext => IInv'
<1> SUFFICES ASSUME IInv, GpioNext PROVE IInv'
  OBVIOUS
<1>0. GpioTypeOK' /\ UNCHANGED setting
  BY NextType DEF IInv, GpioNext
<1>1. ASSUME NEW m \in Modules, Register(m) PROVE IInv'
  BY <1>0, <1>1, RegisterIInv
<1>2. ASSUME NEW m \in Modules, ocre_gpio_init(m) PROVE IInv'
  <2>1. UNCHANGED <<live, gen, resource_count, gpio_pins, gpio_aliases, allocated, attached,
                    doing>>
    BY <1>2 DEF ocre_gpio_init
  <2>2. QED
    BY <1>0, <2>1, StillIInv
<1>3. ASSUME NEW m \in Modules, GetEvent(m) PROVE IInv'
  <2>1. UNCHANGED <<live, gen, resource_count, gpio_pins, gpio_aliases, allocated, attached,
                    doing>>
    BY <1>3 DEF GetEvent
  <2>2. QED
    BY <1>0, <2>1, StillIInv
<1>4. ASSUME NEW m \in Modules, Cleanup(m) PROVE IInv'
  BY <1>0, <1>4, CleanupIInv
<1>5. ASSUME NEW m \in Modules, Effect(m) PROVE IInv'
  <2>1. CASE Access(m)
    <3>1. /\ UNCHANGED <<live, gen, resource_count, gpio_pins, gpio_aliases, allocated, attached>>
          /\ doing' = [doing EXCEPT ![m] = Idle]
      BY <2>1 DEF Access, Doing
    <3>2. \A n \in Modules : doing'[n] = doing[n] \/ doing'[n] = Idle
      BY <3>1, DoingType DEF IInv
    <3>3. QED
      BY <1>0, <3>1, <3>2, StillIInv
  <2>2. QED
    BY <1>0, <1>5, <2>1, ConfigureIInv, RegisterCallbackIInv, UnregisterCallbackIInv DEF Effect
<1>6. ASSUME NEW m \in Modules, NEW op \in Ops, NEW at \in Location, GpioCall(m, op, at)
      PROVE  IInv'
  BY <1>0, <1>6, CallIInv
<1>7. ASSUME NEW m \in Modules, NEW op \in Ops, NEW at \in Location, NEW name \in Names,
             GpioCallByName(m, op, name, at)
      PROVE  IInv'
  BY <1>0, <1>7, NamedIInv
<1>8. ASSUME NEW c \in attached, gpio_callback_handler(c) PROVE IInv'
  <2>1. UNCHANGED <<live, gen, resource_count, gpio_pins, gpio_aliases, allocated, attached,
                    doing>>
    BY <1>8 DEF gpio_callback_handler
  <2>2. QED
    BY <1>0, <2>1, StillIInv
<1>9. QED
  BY <1>1, <1>2, <1>3, <1>4, <1>5, <1>6, <1>7, <1>8 DEF GpioNext, ModuleNext

LEMMA StutterIInv == IInv /\ UNCHANGED allGpioVars => IInv'
<1> SUFFICES ASSUME IInv, UNCHANGED allGpioVars PROVE IInv'
  OBVIOUS
<1>1. GpioTypeOK'
  BY DEF allGpioVars, IInv, GpioTypeOK, EventsTypeOK
<1>2. QED
  BY <1>1, StillIInv DEF allGpioVars

\* The pins alone keep the inductive invariant, whatever the sensors do.
THEOREM Invariance == GpioSpec => []IInv
<1>1. IInv /\ [GpioNext]_allGpioVars => IInv'
  BY NextIInv, StutterIInv
<1>2. QED
  BY <1>1, InitIInv, PTL DEF GpioSpec

\* The sensors share the modules with the pins and change nothing of them: what a
\* module does to the pins is what it does without sensors.
THEOREM PinsAlone == PeripheralsSpec => GpioSpec
<1>1. PeripheralsInit => GpioInit
  BY DEF PeripheralsInit
<1>2. [PeripheralsNext]_allVars => [GpioNext]_allGpioVars
  BY DEF PeripheralsNext, allVars
<1>3. QED
  BY <1>1, <1>2, PTL DEF PeripheralsSpec, GpioSpec

\* The table, the cache of names and the queue stay within their types and sizes
\* (ocre_gpio.c), whichever of the driver's calls fail.
THEOREM TypeCorrect == PeripheralsSpec => []GpioTypeOK
<1>1. IInv => GpioTypeOK
  BY DEF IInv
<1>2. QED
  BY <1>1, Invariance, PinsAlone, PTL

\* No pin outlives its module, and the counts of pins are right where modules are
\* careful: ocre_gpio_cleanup_container frees every pin of the module.
THEOREM Accounted == PeripheralsSpec => []PinsAccounted
<1>1. IInv => PinsAccounted
  BY DEF IInv, OwnersLive, CountBounds, Counted, PinsAccounted
<1>2. QED
  BY <1>1, Invariance, PinsAlone, PTL

\* No callback is leaked or freed while the driver has it, where modules are
\* careful and the driver lets go of callbacks.
THEOREM CallbacksKept == PeripheralsSpec => []CallbacksAccounted
<1>1. IInv => CallbacksAccounted
  <2> SUFFICES ASSUME IInv, Reliable
               PROVE  /\ allocated = {c[1] : c \in attached}
                      /\ allocated = {gpio_pins[g].cb : g \in {h \in Pins : gpio_pins[h].in_use}}
                                     \ {0}
    BY DEF CallbacksAccounted, Reliable
  <2>1. /\ \A h \in Pins : gpio_pins[h].cb # 0 =>
             /\ gpio_pins[h].in_use
             /\ gpio_pins[h].cb \in allocated
             /\ <<gpio_pins[h].cb, gpio_pins[h].at>> \in attached
        /\ \A x \in allocated : \E h \in Pins : gpio_pins[h].cb = x
        /\ \A x \in attached : x[1] \in allocated
    BY DEF IInv, CallbacksSound
  <2>2. 0 \notin allocated
    BY Types, GpioAssumption DEF GpioAssumption, IInv
  <2>3. \A x \in allocated : \E c \in attached : x = c[1]
    <3> SUFFICES ASSUME NEW x \in allocated PROVE \E c \in attached : x = c[1]
      OBVIOUS
    <3>1. PICK h \in Pins : gpio_pins[h].cb = x
      BY <2>1
    <3>2. <<x, gpio_pins[h].at>> \in attached
      BY <2>1, <2>2, <3>1
    <3>3. <<x, gpio_pins[h].at>>[1] = x
      OBVIOUS
    <3>4. QED
      BY <3>2, <3>3
  <2>4. QED
    BY <2>1, <2>2, <2>3
<1>2. QED
  BY <1>1, Invariance, PinsAlone, PTL

\* A call by name is about the pin of that name (resolve_gpio_alias), where the
\* names that are cached are strings of modules that run.
THEOREM NamesAreRight == PeripheralsSpec => []NamesResolve
<1>1. IInv => NamesResolve
  BY DEF IInv
<1>2. QED
  BY <1>1, Invariance, PinsAlone, PTL

\* gpio_callback_handler makes events for registered modules only.
THEOREM EventsForTheLiving == PeripheralsSpec => EventForLive
<1>1. IInv /\ [GpioNext]_allGpioVars =>
        [Len(queue') > Len(queue) => queue'[Len(queue')].owner \in live]_allGpioVars
  <2> SUFFICES ASSUME IInv, GpioNext, Len(queue') > Len(queue)
               PROVE  queue'[Len(queue')].owner \in live
    OBVIOUS
  <2>0. GpioTypeOK /\ Len(queue) \in Nat /\ ~ (Len(queue) > Len(queue))
    BY Types, LenProperties DEF IInv
  <2>1. ASSUME NEW m \in Modules, ModuleNext(m) PROVE FALSE
    <3>1. CASE GetEvent(m)
      BY <2>0, <3>1, QueueType DEF GetEvent
    <3>2. CASE queue' = queue
      BY <2>0, <3>2
    <3>3. QED
      BY <2>1, <3>1, <3>2 DEF ModuleNext, Register, ocre_register_module, ocre_gpio_init,
         Cleanup, ocre_unregister_module, Effect, ocre_gpio_configure, Access,
         ocre_gpio_register_callback, ocre_gpio_unregister_callback, Doing,
         GpioCall, GpioCallByName
  <2>2. ASSUME NEW c \in attached, gpio_callback_handler(c)
        PROVE  queue'[Len(queue')].owner \in live
    <3>1. PICK g \in Pins : gpio_pins[g].in_use /\ Put(GpioEvent(g))
      BY <2>2 DEF gpio_callback_handler
    <3>2. GpioEvent(g).owner = gpio_pins[g].owner /\ gpio_pins[g].owner \in live
      BY <3>1 DEF GpioEvent, IInv, OwnersLive
    <3>3. GpioEvent(g) \in Event(Place)
      <4>1. gen \in [Modules -> 0 .. MaxInstances] /\ MaxInstances \in Nat
        BY <2>0, Types, EventsAssumption DEF EventsAssumption
      <4>2. \A m : GenOf(m) \in Nat
        BY <4>1 DEF GenOf
      <4>3. gpio_pins \in [Pins -> PinType]
        BY <2>0, PinsType
      <4>4. QED
        BY <4>2, <4>3 DEF GpioEvent, Event, PinType
    <3>4. QED
      BY <2>0, <3>1, <3>2, <3>3, QueueType
  <2>3. QED
    BY <2>1, <2>2 DEF GpioNext
<1>2. QED
  BY <1>1, Invariance, PinsAlone, PTL DEF GpioSpec, EventForLive

---------------------------------------------------------------------------
(* The sensors *)

\* The entry of device d as sensor s, and what it has to be.
Entry(s, d) == [device |-> d, in_use |-> TRUE, handle |-> s]

Holds(s) ==
  /\ sensors[s].in_use /\ sensors[s].handle = s
  /\ IsSensorNumber(sensors[s].device, s)

\* A discovery at device i has filled as many entries as there are sensors before
\* it; a read is about one of them.
Discovering(c) ==
  \E i \in 1 .. Len(Devices) + 1 :
    c = [op |-> "discover", i |-> i] /\ sensor_count = SensorsAmong(i - 1)
OpeningChannels(c) ==
  \E i \in 1 .. Len(Devices) :
    /\ c = [op |-> "channels", i |-> i] /\ sensor_count = SensorsAmong(i - 1)
    /\ Devices[i] \in Eligible /\ sensor_count < MaxSensors
    /\ sensors[sensor_count] = Entry(sensor_count, Devices[i])
Reading(c) == \E id \in 0 .. sensor_count - 1 : c = [op |-> "read", id |-> id]

Quiet == \A m \in Modules : calling[m] = NoCall \/ Reading(calling[m])

\* Unless a discovery is under way the table is complete or empty.
TableSound ==
  /\ sensor_count \in 0 .. MaxSensors
  /\ \A s \in 0 .. sensor_count - 1 : Holds(s)
  /\ Quiet => /\ sensor_count \in {0, SensorsAmong(Len(Devices)), MaxSensors}
              /\ sensor_count <= SensorsAmong(Len(Devices))

\* One call at a time, and where it is.
CallsInTurn ==
  /\ \A m \in Modules : \/ calling[m] = NoCall \/ Discovering(calling[m])
                        \/ OpeningChannels(calling[m]) \/ Reading(calling[m])
  /\ \A m, n \in Modules : calling[m] # NoCall /\ calling[n] # NoCall => m = n

FoundSound ==
  \A m \in Modules : found[m] # NotRead => IsSensorNumber(found[m].device, found[m].id)

SensorIInv ==
  /\ DOMAIN calling = Modules /\ DOMAIN found = Modules
  /\ DOMAIN sensors = 0 .. MaxSensors - 1
  /\ turns => TableSound /\ CallsInTurn /\ FoundSound

\* Counting the sensors among the devices.
LEMMA SensorsAmongSound ==
  /\ Len(Devices) \in Nat /\ DOMAIN Devices = 1 .. Len(Devices)
  /\ SensorsAmong(0) = 0
  /\ \A n \in 0 .. Len(Devices) :
       SensorsAmong(n) \in Nat /\ SensorsAmong(n) <= SensorsAmong(Len(Devices))
  /\ \A n \in Nat :
       /\ IsSensor(Devices[n + 1]) => SensorsAmong(n + 1) = SensorsAmong(n) + 1
       /\ ~ IsSensor(Devices[n + 1]) => SensorsAmong(n + 1) = SensorsAmong(n)
<1>1. Len(Devices) \in Nat /\ DOMAIN Devices = 1 .. Len(Devices)
  BY SensorsAssumption, LenProperties DEF SensorsAssumption
<1> DEFINE S(n) == {j \in 1 .. n : IsSensor(Devices[j])}
<1>2. \A n \in Nat : IsFiniteSet(S(n)) /\ Cardinality(S(n)) \in Nat
  <2> SUFFICES ASSUME NEW n \in Nat PROVE IsFiniteSet(S(n)) /\ Cardinality(S(n)) \in Nat
    OBVIOUS
  <2>1. IsFiniteSet(1 .. n) /\ S(n) \subseteq 1 .. n
    BY FS_Interval
  <2>2. QED
    BY <2>1, FS_Subset, FS_CardinalityType
<1>3. \A n : SensorsAmong(n) = Cardinality(S(n))
  BY DEF SensorsAmong
<1>4. SensorsAmong(0) = 0
  <2>1. S(0) = {}
    OBVIOUS
  <2>2. QED
    BY <1>3, <2>1, FS_EmptySet
<1>5. ASSUME NEW n \in 0 .. Len(Devices)
      PROVE  SensorsAmong(n) \in Nat /\ SensorsAmong(n) <= SensorsAmong(Len(Devices))
  <2>1. n \in Nat /\ S(n) \subseteq S(Len(Devices))
    BY <1>1
  <2>2. QED
    BY <1>1, <1>2, <1>3, <2>1, FS_Subset
<1>6. ASSUME NEW n \in Nat
      PROVE  /\ IsSensor(Devices[n + 1]) => SensorsAmong(n + 1) = SensorsAmong(n) + 1
             /\ ~ IsSensor(Devices[n + 1]) => SensorsAmong(n + 1) = SensorsAmong(n)
  <2>1. 1 .. n + 1 = (1 .. n) \union {n + 1} /\ n + 1 \notin 1 .. n
    OBVIOUS
  <2>2. CASE IsSensor(Devices[n + 1])
    <3>1. S(n + 1) = S(n) \union {n + 1} /\ n + 1 \notin S(n)
      BY <2>1, <2>2
    <3>2. Cardinality(S(n) \union {n + 1}) = Cardinality(S(n)) + 1
      BY <1>2, <3>1, FS_AddElement
    <3>3. QED
      BY <1>3, <2>2, <3>1, <3>2
  <2>3. CASE ~ IsSensor(Devices[n + 1])
    <3>1. S(n + 1) = S(n)
      BY <2>1, <2>3
    <3>2. QED
      BY <1>3, <2>3, <3>1
  <2>4. QED
    BY <2>2, <2>3
<1>7. QED
  BY <1>1, <1>4, <1>5, <1>6

\* At the start nothing is in the table.
LEMMA SensorInit == SensorsInit => SensorIInv
<1> SUFFICES ASSUME SensorsInit PROVE SensorIInv
  OBVIOUS
<1>1. /\ sensors = Cleared /\ sensor_count = 0 /\ calling = [m \in Modules |-> NoCall]
      /\ found = [m \in Modules |-> NotRead]
  BY DEF SensorsInit
<1>2. MaxSensors \in Nat \ {0} /\ SensorsAmong(Len(Devices)) \in Nat
  BY SensorsAssumption, SensorsAmongSound DEF SensorsAssumption
<1>3. 0 .. 0 - 1 = {} /\ 0 \in 0 .. MaxSensors /\ 0 <= SensorsAmong(Len(Devices))
  BY <1>2
<1>4. QED
  BY <1>1, <1>3 DEF SensorIInv, TableSound, CallsInTurn, FoundSound, Cleared

\* The pins leave the sensors alone.
LEMMA SensorQuiet ==
  ASSUME SensorIInv, UNCHANGED sensorVars
  PROVE  SensorIInv'
<1>1. UNCHANGED <<turns, sensors, sensor_count, calling, found>>
  BY DEF sensorVars
<1>2. QED
  BY <1>1 DEF SensorIInv, TableSound, CallsInTurn, FoundSound, Quiet, Reading, Discovering,
     OpeningChannels, Holds

\* The table is cleared, and filled again from the first device or not.
LEMMA ClearedSound ==
  ASSUME SensorIInv, NEW m \in Modules, ocre_sensors_init(m) \/ Discover(m)
  PROVE  SensorIInv'
<1>1. PICK call \in {NoCall, [op |-> "discover", i |-> 1]} :
        /\ calling' = [calling EXCEPT ![m] = call] /\ calling[m] = NoCall
        /\ turns => \A n \in Modules : calling[n] = NoCall
        /\ sensors' = Cleared /\ sensor_count' = 0 /\ UNCHANGED <<turns, found>>
  BY DEF ocre_sensors_init, Discover, BeginCall
<1>2. /\ DOMAIN calling' = Modules /\ DOMAIN sensors' = 0 .. MaxSensors - 1
      /\ \A n \in Modules : calling'[n] = IF n = m THEN call ELSE calling[n]
  BY <1>1 DEF SensorIInv, Cleared
<1>3. SUFFICES ASSUME turns PROVE TableSound' /\ CallsInTurn' /\ FoundSound'
  BY <1>1, <1>2 DEF SensorIInv
<1>4. /\ MaxSensors \in Nat \ {0} /\ SensorsAmong(Len(Devices)) \in Nat
      /\ SensorsAmong(1 - 1) = 0 /\ Len(Devices) \in Nat
  BY SensorsAssumption, SensorsAmongSound DEF SensorsAssumption
<1>5. TableSound'
  <2>1. 0 .. 0 - 1 = {} /\ 0 \in 0 .. MaxSensors /\ 0 <= SensorsAmong(Len(Devices))
    BY <1>4
  <2>2. QED
    BY <1>1, <2>1 DEF TableSound
<1>6. call = NoCall \/ Discovering(call)'
  <2>1. 1 \in 1 .. Len(Devices) + 1
    BY <1>4
  <2>2. QED
    BY <1>1, <1>4, <2>1 DEF Discovering
<1>7. CallsInTurn'
  BY <1>1, <1>2, <1>3, <1>6 DEF CallsInTurn
<1>8. FoundSound'
  BY <1>1, <1>3 DEF FoundSound, SensorIInv
<1>9. QED
  BY <1>5, <1>7, <1>8

\* In turns, a module in a call is the only one.
LEMMA TheOnlyCall ==
  ASSUME SensorIInv, turns, NEW m \in Modules, calling[m] # NoCall
  PROVE  \A n \in Modules : n # m => calling[n] = NoCall
BY DEF SensorIInv, CallsInTurn

\* A module that discovers is not at rest.
LEMMA NotQuiet ==
  ASSUME NEW m \in Modules, calling'[m].op \in {"discover", "channels"}
  PROVE  ~ Quiet'
<1>1. calling'[m] # NoCall
  BY DEF NoCall
<1>2. \A id : calling'[m] # [op |-> "read", id |-> id]
  OBVIOUS
<1>3. QED
  BY <1>1, <1>2 DEF Quiet, Reading

\* A device is skipped, or its entry filled.
LEMMA NextDeviceSound ==
  ASSUME SensorIInv, NEW m \in Modules, NextDevice(m)
  PROVE  SensorIInv'
<1>0. UNCHANGED <<turns, sensor_count, found>> /\ calling[m].op = "discover"
  BY DEF NextDevice
<1>1. /\ DOMAIN calling' = Modules /\ DOMAIN sensors' = 0 .. MaxSensors - 1
      /\ \A n \in Modules : n # m => calling'[n] = calling[n]
  BY DEF NextDevice, Go, SensorIInv
<1>2. SUFFICES ASSUME turns PROVE TableSound' /\ CallsInTurn' /\ FoundSound'
  BY <1>0, <1>1 DEF SensorIInv
<1>3. calling[m] # NoCall
  BY <1>0 DEF NoCall
<1>4. \A n \in Modules : n # m => calling[n] = NoCall /\ calling'[n] = NoCall
  BY <1>1, <1>2, <1>3, TheOnlyCall
<1>5. PICK i \in 1 .. Len(Devices) + 1 :
        calling[m] = [op |-> "discover", i |-> i] /\ sensor_count = SensorsAmong(i - 1)
  <2>1. Discovering(calling[m])
    BY <1>0, <1>2, <1>3 DEF SensorIInv, CallsInTurn, OpeningChannels, Reading
  <2>2. QED
    BY <2>1 DEF Discovering
<1>6. /\ Len(Devices) \in Nat /\ DOMAIN Devices = 1 .. Len(Devices)
      /\ MaxSensors \in Nat \ {0}
  BY SensorsAmongSound, SensorsAssumption DEF SensorsAssumption
<1>7. i \in 1 .. Len(Devices) /\ sensor_count < MaxSensors
  BY <1>5, <1>6 DEF NextDevice
<1>8. /\ TableSound /\ FoundSound /\ sensor_count \in 0 .. MaxSensors - 1
  BY <1>2, <1>6, <1>7 DEF SensorIInv, TableSound
<1>9. FoundSound'
  BY <1>0, <1>8 DEF FoundSound
<1>10. CASE Devices[i] \notin Eligible
  <2>1. UNCHANGED sensors /\ calling'[m] = [op |-> "discover", i |-> i + 1]
    BY <1>5, <1>10 DEF NextDevice, Go, SensorIInv
  <2>2. i - 1 \in Nat /\ (i - 1) + 1 = i /\ (i + 1) - 1 = i /\ i + 1 \in 1 .. Len(Devices) + 1
    BY <1>6, <1>7
  <2>3. SensorsAmong((i + 1) - 1) = SensorsAmong(i - 1)
    BY <1>10, <2>2, SensorsAmongSound DEF IsSensor
  <2>4. Discovering(calling[m])'
    BY <1>0, <1>5, <2>1, <2>2, <2>3 DEF Discovering
  <2>5. ~ Quiet'
    <3>1. calling'[m].op \in {"discover", "channels"}
      BY <2>1
    <3>2. QED
      BY <3>1, NotQuiet
  <2>6. TableSound'
    <3>1. \A s \in 0 .. sensor_count - 1 : Holds(s)'
      BY <1>8, <2>1 DEF TableSound, Holds
    <3>2. QED
      BY <1>0, <1>8, <2>5, <3>1 DEF TableSound
  <2>7. CallsInTurn'
    BY <1>4, <2>4 DEF CallsInTurn
  <2>8. QED
    BY <1>9, <2>6, <2>7
<1>11. CASE Devices[i] \in Eligible
  <2>1. /\ sensors' = [sensors EXCEPT ![sensor_count] = Entry(sensor_count, Devices[i])]
        /\ calling'[m] = [op |-> "channels", i |-> i]
    BY <1>5, <1>11 DEF NextDevice, Go, SensorIInv, Entry
  <2>2. /\ sensors'[sensor_count] = Entry(sensor_count, Devices[i])
        /\ \A s \in 0 .. sensor_count - 1 : sensors'[s] = sensors[s]
    BY <1>6, <1>8, <2>1 DEF SensorIInv
  <2>3. OpeningChannels(calling[m])'
    BY <1>0, <1>5, <1>7, <1>11, <2>1, <2>2 DEF OpeningChannels
  <2>4. ~ Quiet'
    <3>1. calling'[m].op \in {"discover", "channels"}
      BY <2>1
    <3>2. QED
      BY <3>1, NotQuiet
  <2>5. TableSound'
    <3>1. \A s \in 0 .. sensor_count - 1 : Holds(s)'
      BY <1>8, <2>2 DEF TableSound, Holds
    <3>2. QED
      BY <1>0, <1>8, <2>4, <3>1 DEF TableSound
  <2>6. CallsInTurn'
    BY <1>4, <2>3 DEF CallsInTurn
  <2>7. QED
    BY <1>9, <2>5, <2>6
<1>12. QED
  BY <1>10, <1>11

\* The entry is counted if the device has channels.
LEMMA OpenChannelsSound ==
  ASSUME SensorIInv, NEW m \in Modules, OpenChannels(m)
  PROVE  SensorIInv'
<1>0. UNCHANGED <<turns, sensors, found>> /\ calling[m].op = "channels"
  BY DEF OpenChannels
<1>1. /\ DOMAIN calling' = Modules
      /\ \A n \in Modules : n # m => calling'[n] = calling[n]
  BY DEF OpenChannels, Go, SensorIInv
<1>2. SUFFICES ASSUME turns PROVE TableSound' /\ CallsInTurn' /\ FoundSound'
  BY <1>0, <1>1 DEF SensorIInv
<1>3. calling[m] # NoCall
  BY <1>0 DEF NoCall
<1>4. \A n \in Modules : n # m => calling[n] = NoCall /\ calling'[n] = NoCall
  BY <1>1, <1>2, <1>3, TheOnlyCall
<1>5. PICK i \in 1 .. Len(Devices) :
        /\ calling[m] = [op |-> "channels", i |-> i] /\ sensor_count = SensorsAmong(i - 1)
        /\ Devices[i] \in Eligible /\ sensor_count < MaxSensors
        /\ sensors[sensor_count] = Entry(sensor_count, Devices[i])
  <2>1. OpeningChannels(calling[m])
    BY <1>0, <1>2, <1>3 DEF SensorIInv, CallsInTurn, Discovering, Reading
  <2>2. QED
    BY <2>1 DEF OpeningChannels
<1>6. /\ Len(Devices) \in Nat /\ DOMAIN Devices = 1 .. Len(Devices)
      /\ MaxSensors \in Nat \ {0}
  BY SensorsAmongSound, SensorsAssumption DEF SensorsAssumption
<1>7. /\ TableSound /\ FoundSound /\ sensor_count \in 0 .. MaxSensors - 1
  BY <1>2, <1>5, <1>6 DEF SensorIInv, TableSound
<1>8. FoundSound'
  BY <1>0, <1>7 DEF FoundSound
<1>9. i - 1 \in Nat /\ (i - 1) + 1 = i /\ (i + 1) - 1 = i /\ i + 1 \in 1 .. Len(Devices) + 1
  BY <1>6
<1>10. /\ calling'[m] = [op |-> "discover", i |-> i + 1]
       /\ sensor_count' = IF Channels[Devices[i]] > 0 THEN sensor_count + 1 ELSE sensor_count
  BY <1>5 DEF OpenChannels, Go, SensorIInv
<1>11. sensor_count' = SensorsAmong((i + 1) - 1)
  BY <1>5, <1>9, <1>10, SensorsAmongSound DEF IsSensor
<1>12. Discovering(calling[m])'
  BY <1>9, <1>10, <1>11 DEF Discovering
<1>13. ~ Quiet'
  <2>1. calling'[m].op \in {"discover", "channels"}
    BY <1>10
  <2>2. QED
    BY <2>1, NotQuiet
<1>14. Channels[Devices[i]] > 0 => Holds(sensor_count)
  <2>1. Channels[Devices[i]] > 0 => IsSensorNumber(Devices[i], sensor_count)
    BY <1>5, <1>6 DEF IsSensorNumber, IsSensor
  <2>2. QED
    BY <1>5, <2>1 DEF Holds, Entry
<1>15. /\ sensor_count' \in 0 .. MaxSensors
       /\ \A s \in 0 .. sensor_count' - 1 : s \in 0 .. sensor_count - 1
                                            \/ (s = sensor_count /\ Channels[Devices[i]] > 0)
  BY <1>6, <1>7, <1>10
<1>16. \A s \in 0 .. sensor_count' - 1 : Holds(s)'
  BY <1>0, <1>7, <1>14, <1>15 DEF TableSound, Holds
<1>17. QED
  <2>1. TableSound'
    BY <1>13, <1>15, <1>16 DEF TableSound
  <2>2. CallsInTurn'
    BY <1>4, <1>12 DEF CallsInTurn
  <2>3. QED
    BY <1>8, <2>1, <2>2

\* The devices are all looked at, or the table is full.
LEMMA DiscoveredSound ==
  ASSUME SensorIInv, NEW m \in Modules, Discovered(m)
  PROVE  SensorIInv'
<1>0. /\ UNCHANGED <<turns, sensors, sensor_count, found>> /\ calling[m].op = "discover"
      /\ calling' = [calling EXCEPT ![m] = NoCall]
  BY DEF Discovered, Go
<1>1. /\ DOMAIN calling' = Modules /\ calling'[m] = NoCall
      /\ \A n \in Modules : n # m => calling'[n] = calling[n]
  BY <1>0 DEF SensorIInv
<1>2. SUFFICES ASSUME turns PROVE TableSound' /\ CallsInTurn' /\ FoundSound'
  BY <1>0, <1>1 DEF SensorIInv
<1>3. calling[m] # NoCall
  BY <1>0 DEF NoCall
<1>4. \A n \in Modules : calling'[n] = NoCall
  BY <1>1, <1>2, <1>3, TheOnlyCall
<1>5. PICK i \in 1 .. Len(Devices) + 1 :
        calling[m] = [op |-> "discover", i |-> i] /\ sensor_count = SensorsAmong(i - 1)
  <2>1. Discovering(calling[m])
    BY <1>0, <1>2, <1>3 DEF SensorIInv, CallsInTurn, OpeningChannels, Reading
  <2>2. QED
    BY <2>1 DEF Discovering
<1>6. /\ Len(Devices) \in Nat /\ DOMAIN Devices = 1 .. Len(Devices)
      /\ MaxSensors \in Nat \ {0}
  BY SensorsAmongSound, SensorsAssumption DEF SensorsAssumption
<1>7. TableSound /\ FoundSound
  BY <1>2 DEF SensorIInv
<1>8. sensor_count <= SensorsAmong(Len(Devices))
  <2>1. i - 1 \in 0 .. Len(Devices)
    BY <1>6
  <2>2. QED
    BY <1>5, <2>1, SensorsAmongSound
<1>9. sensor_count \in {SensorsAmong(Len(Devices)), MaxSensors}
  <2>1. CASE i \notin DOMAIN Devices
    <3>1. i - 1 = Len(Devices)
      BY <1>6, <2>1
    <3>2. QED
      BY <1>5, <3>1
  <2>2. CASE sensor_count >= MaxSensors
    BY <1>6, <1>7, <2>2 DEF TableSound
  <2>3. QED
    BY <1>5, <2>1, <2>2 DEF Discovered
<1>10. QED
  BY <1>0, <1>4, <1>7, <1>8, <1>9 DEF TableSound, CallsInTurn, FoundSound, Holds

\* A read checks an entry, which stays until it is used.
LEMMA ReadCallSound ==
  ASSUME SensorIInv, NEW m \in Modules, NEW id \in 0 .. MaxSensors - 1, ReadCall(m, id)
  PROVE  SensorIInv'
<1> DEFINE call == [op |-> "read", id |-> id]
<1>0. /\ UNCHANGED <<turns, sensors, sensor_count, found>> /\ id < sensor_count
      /\ calling' = [calling EXCEPT ![m] = call]
      /\ turns => \A n \in Modules : calling[n] = NoCall
  BY DEF ReadCall, BeginCall
<1>1. /\ DOMAIN calling' = Modules /\ calling'[m] = call
      /\ \A n \in Modules : n # m => calling'[n] = calling[n]
  BY <1>0 DEF SensorIInv
<1> HIDE DEF call
<1>2. SUFFICES ASSUME turns PROVE TableSound' /\ CallsInTurn' /\ FoundSound'
  BY <1>0, <1>1 DEF SensorIInv
<1>3. TableSound /\ FoundSound /\ Quiet
  BY <1>0, <1>2 DEF SensorIInv, Quiet
<1>4. MaxSensors \in Nat \ {0} /\ sensor_count \in 0 .. MaxSensors
  BY <1>3, SensorsAssumption DEF SensorsAssumption, TableSound
<1>5. id \in 0 .. sensor_count - 1
  BY <1>0, <1>4
<1>6. Reading(call)'
  BY <1>0, <1>5 DEF Reading, call
<1>7. QED
  BY <1>0, <1>1, <1>2, <1>3, <1>6 DEF TableSound, CallsInTurn, FoundSound, Holds

LEMMA ReadSound ==
  ASSUME SensorIInv, NEW m \in Modules, Read(m)
  PROVE  SensorIInv'
<1>0. /\ UNCHANGED <<turns, sensors, sensor_count>> /\ calling[m].op = "read"
      /\ calling' = [calling EXCEPT ![m] = NoCall]
      /\ found' = [found EXCEPT ![m] = [id |-> calling[m].id,
                                        device |-> sensors[calling[m].id].device]]
  BY DEF Read, Go
<1>1. /\ DOMAIN calling' = Modules /\ calling'[m] = NoCall /\ DOMAIN found' = Modules
      /\ found'[m] = [id |-> calling[m].id, device |-> sensors[calling[m].id].device]
      /\ \A n \in Modules : n # m => calling'[n] = calling[n] /\ found'[n] = found[n]
  BY <1>0 DEF SensorIInv
<1>2. SUFFICES ASSUME turns PROVE TableSound' /\ CallsInTurn' /\ FoundSound'
  BY <1>0, <1>1 DEF SensorIInv
<1>3. calling[m] # NoCall
  BY <1>0 DEF NoCall
<1>4. \A n \in Modules : n # m => calling[n] = NoCall
  BY <1>2, <1>3, TheOnlyCall
<1>5. PICK id \in 0 .. sensor_count - 1 : calling[m] = [op |-> "read", id |-> id]
  <2>1. Reading(calling[m])
    BY <1>0, <1>2, <1>3 DEF SensorIInv, CallsInTurn, Discovering, OpeningChannels
  <2>2. QED
    BY <2>1 DEF Reading
<1>6. TableSound /\ FoundSound /\ Quiet
  BY <1>2, <1>4, <1>5 DEF SensorIInv, Quiet, Reading
<1>7. found'[m].id = id /\ found'[m].device = sensors[id].device
  BY <1>1, <1>5
<1>8. IsSensorNumber(found'[m].device, found'[m].id)
  BY <1>6, <1>7 DEF TableSound, Holds
<1>9. FoundSound'
  BY <1>1, <1>6, <1>8 DEF FoundSound
<1>10. QED
  BY <1>0, <1>1, <1>4, <1>6, <1>9 DEF TableSound, CallsInTurn, Holds

\* Whichever modules use the sensors one after the other, and however many devices
\* there are: the table has the sensors in the order of the devices, as many as
\* fit (ocre_sensors_discover), and a handle leads to the same sensor.
THEOREM TableRight == PeripheralsSpec => []SensorTable
<1>1. PeripheralsInit => SensorIInv
  BY SensorInit DEF PeripheralsInit
<1>2. SensorIInv /\ [PeripheralsNext]_allVars => SensorIInv'
  <2> SUFFICES ASSUME SensorIInv, [PeripheralsNext]_allVars PROVE SensorIInv'
    OBVIOUS
  <2>1. CASE UNCHANGED sensorVars
    BY <2>1, SensorQuiet
  <2>2. CASE SensorsNext
    <3>1. PICK m \in Modules :
            \/ ocre_sensors_init(m) \/ Discover(m) \/ NextDevice(m) \/ OpenChannels(m)
            \/ Discovered(m) \/ Read(m)
            \/ \E id \in 0 .. MaxSensors - 1 : ReadCall(m, id)
      BY <2>2 DEF SensorsNext
    <3>2. QED
      BY <3>1, ClearedSound, NextDeviceSound, OpenChannelsSound, DiscoveredSound, ReadSound,
         ReadCallSound
  <2>3. QED
    BY <2>1, <2>2 DEF PeripheralsNext, allVars
<1>3. SensorIInv => SensorTable
  BY DEF SensorIInv, TableSound, FoundSound, SensorTable, Holds, Quiet
<1>4. QED
  BY <1>1, <1>2, <1>3, PTL DEF PeripheralsSpec
=============================================================================
