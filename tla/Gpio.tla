--------------------------------- MODULE Gpio ---------------------------------
(***************************************************************************)
(* The GPIO pins of the containers (ocre_api/ocre_gpio/ocre_gpio.c): the   *)
(* table of pins, the callbacks that are given to Zephyr's driver, the     *)
(* interrupts that make events, and the cache of alias names.              *)
(*                                                                         *)
(* Nothing here has a lock.  A call of a module is two steps, its checks   *)
(* and its effect; races inside the effect of one call are not             *)
(* distinguished.  An interrupt runs to completion before any thread goes  *)
(* on, and is one step.  A call that its checks refuse changes nothing.    *)
(*                                                                         *)
(* The driver is external: which callbacks it holds, on which pins it      *)
(* interrupts, and which of its calls fail.  The level of a pin is left    *)
(* out: set, get and toggle change nothing in the table.                   *)
(***************************************************************************)
EXTENDS Events

CONSTANTS
  ReadyPorts,   \* the ports that ocre_gpio_init finds ready
  PinsPerPort,  \* CONFIG_OCRE_GPIO_PINS_PER_PORT
  MaxPins,      \* CONFIG_OCRE_GPIO_MAX_PINS
  Names,        \* the names of the devicetree's aliases
  Alias,        \* Alias[n]: the port and the pin of name n
  Callbacks,    \* the memory for callbacks: their addresses
  MaxCount,     \* bound: a module at this resource count configures no pin
  Settings      \* the settings in which the pins are looked at

Ops == {"configure", "access", "register", "unregister"}

ASSUME GpioAssumption ==
  /\ ReadyPorts \subseteq Nat
  /\ PinsPerPort \in Nat \ {0}
  /\ MaxPins \in Nat
  /\ "buffer" \notin Names
  /\ Alias \in [Names -> ReadyPorts \X (0 .. PinsPerPort - 1)]
  /\ Callbacks \subseteq Nat \ {0}
  /\ MaxCount \in Nat
  /\ Settings \subseteq
       [faults : SUBSET {"configure", "alloc", "interrupt", "add", "remove"},
        uses : [Modules -> SUBSET Nat], ops : SUBSET Ops, again : BOOLEAN,
        named : BOOLEAN, literals : BOOLEAN]

VARIABLES
  (*************************************************************************)
  (* The setting of this behaviour never changes.                          *)
  (*   faults    the driver's calls that may fail                          *)
  (*   uses      uses[m]: the pins that the modules at m use               *)
  (*   ops       the operations they call                                  *)
  (*   again     modules configure and register pins that already are      *)
  (*   named     modules use aliases                                       *)
  (*   literals  a guest has a string for every name, not one buffer       *)
  (*************************************************************************)
  setting,
  initialized,  \* gpio_system_initialized
  gpio_pins,    \* the table
  gpio_aliases, \* the cache of names, in the order of gpio_aliases[]
  allocated,    \* the callbacks that are allocated
  attached,     \* the callbacks the driver holds, with port and pin
  enabled,      \* the pins on which the driver interrupts
  text,         \* text[m]: what a guest's buffer for names holds
  doing         \* doing[m]: the call that m's thread is in, after its checks

driverVars == <<allocated, attached, enabled>>
gpioVars == <<initialized, gpio_pins, gpio_aliases, driverVars, text, doing>>
allGpioVars == <<setting, eventVars, gpioVars>>

Pins == 0 .. MaxPins - 1
Directions == {"in", "out"}
NoName == "none"
Idle == [op |-> "none", pin |-> 0, name |-> NoName]
Location == ReadyPorts \X (0 .. PinsPerPort - 1)
Place == Location \union {<<0, 0>>}
PinType == [in_use : BOOLEAN, direction : Directions, at : Place,
            cb : Callbacks \union {0}, owner : Modules \union {NULL}]
Pointer == [module : Modules, gen : Nat, at : Names \union {"buffer"}]
CacheEntry == [name : Pointer, at : Location]
CallType == [op : Ops, pin : Pins, name : Names \union {NoName}]

GpioTypeOK ==
  /\ setting \in Settings
  /\ EventsTypeOK(Place)
  /\ initialized \in BOOLEAN
  /\ gpio_pins \in [Pins -> PinType]
  /\ gpio_aliases \in Seq(CacheEntry)
  /\ Len(gpio_aliases) <= MaxPins
  /\ allocated \subseteq Callbacks
  /\ attached \subseteq Callbacks \X Place
  /\ enabled \subseteq Place
  /\ text \in [Modules -> Names \union {NoName}]
  /\ doing \in [Modules -> {Idle} \union CallType]

\* The index in the table of a pin of a port.
global_pin(at) == at[1] * PinsPerPort + at[2]

GpioInit ==
  /\ setting \in Settings
  /\ EventsInit
  /\ initialized = FALSE
  /\ gpio_pins = [g \in Pins |-> [in_use |-> FALSE, direction |-> "in",
                                  at |-> <<0, 0>>, cb |-> 0, owner |-> NULL]]
  /\ gpio_aliases = <<>>
  /\ allocated = {}
  /\ attached = {}
  /\ enabled = {}
  /\ text = [m \in Modules |-> NoName]
  /\ doing = [m \in Modules |-> Idle]

Faulty(call) == call \in setting.faults
Owned(m) == {g \in Pins : gpio_pins[g].in_use /\ gpio_pins[g].owner = m}

\* The second call finds the system initialised.
ocre_gpio_init(m) ==
  /\ m \in live
  /\ ReadyPorts # {}
  /\ ~ initialized
  /\ initialized' = TRUE
  /\ UNCHANGED <<eventVars, gpio_pins, gpio_aliases, driverVars, text, doing>>

---------------------------------------------------------------------------
(* The names *)

\* What strcmp may find where the cache points to.  The strings are in the
\* guests' memory: a string of an instance that is gone may be anything.
Found(alias, buffers) ==
  LET p == alias.name IN
  IF p.module \in live /\ p.gen = gen[p.module]
  THEN {IF p.at = "buffer" THEN buffers[p.module] ELSE p.at}
  ELSE Names \union {NoName}

Mut_HitAny(i, name, buffers) == i = 1

\* The cache's entry i is the first that equals the name.
Hit(i, name, buffers) ==
  /\ name \in Found(gpio_aliases[i], buffers)
  /\ \A j \in 1 .. i - 1 : Found(gpio_aliases[j], buffers) # {name}

Miss(name, buffers) ==
  \A j \in DOMAIN gpio_aliases : Found(gpio_aliases[j], buffers) # {name}

\* The caller's own pointer is stored, not a copy of the name.
Cached(m, name) ==
  [name |-> [module |-> m, gen |-> gen[m],
             at |-> IF setting.literals THEN name ELSE "buffer"],
   at |-> Alias[name]]

\* The name is resolved to location at.
resolve_gpio_alias(m, name, at) ==
  /\ text' = IF setting.literals THEN text ELSE [text EXCEPT ![m] = name]
  /\ \/ /\ \E i \in DOMAIN gpio_aliases :
             Hit(i, name, text') /\ at = gpio_aliases[i].at
        /\ UNCHANGED gpio_aliases
     \/ /\ Miss(name, text')
        /\ at = Alias[name]
        /\ gpio_aliases' = IF Len(gpio_aliases) < MaxPins
                           THEN Append(gpio_aliases, Cached(m, name))
                           ELSE gpio_aliases

---------------------------------------------------------------------------
(* The calls of a module *)

\* What the calls check of the pin.  None but the cleanup looks at the owner;
\* get needs a pin in use, set and toggle an output too.
Permitted(op, g) ==
  /\ g \in Pins
  /\ \/ op = "configure"
     \/ op = "access" /\ gpio_pins[g].in_use
     \/ op = "register" /\ gpio_pins[g].in_use /\ gpio_pins[g].direction = "in"
     \/ op = "unregister" /\ gpio_pins[g].in_use /\ gpio_pins[g].cb # 0

\* What the application does in this setting: the pin is the one it means.
Wanted(m, op, g) ==
  /\ m \in live
  /\ doing[m] = Idle
  /\ op \in setting.ops
  /\ g \in setting.uses[m]
  /\ setting.again \/ op # "configure" \/ ~ gpio_pins[g].in_use
  /\ setting.again \/ op # "register" \/ gpio_pins[g].cb = 0
  /\ op = "configure" => resource_count[m] < MaxCount

Begin(m, op, g, name) ==
  /\ Permitted(op, g)
  /\ doing' = [doing EXCEPT ![m] = [op |-> op, pin |-> g, name |-> name]]

\* A pin that was never configured is not in use, so that only configure has
\* to look at gpio_system_initialized.  The other calls also take a pin number
\* beyond the port's last: it is another way to write a pin of a later port.
GpioCall(m, op, at) ==
  /\ ~ setting.named
  /\ initialized
  /\ Wanted(m, op, global_pin(at))
  /\ Begin(m, op, global_pin(at), NoName)
  /\ UNCHANGED <<eventVars, initialized, gpio_pins, gpio_aliases, driverVars, text>>

\* The name is cached also when the pin is refused.
GpioCallByName(m, op, name, at) ==
  /\ setting.named
  /\ initialized
  /\ Wanted(m, op, global_pin(Alias[name]))
  /\ resolve_gpio_alias(m, name, at)
  /\ \/ Begin(m, op, global_pin(at), name)
     \/ ~ Permitted(op, global_pin(at)) /\ UNCHANGED doing
  /\ UNCHANGED <<eventVars, initialized, gpio_pins, driverVars>>

Doing(m, op) ==
  /\ doing[m].op = op
  /\ doing' = [doing EXCEPT ![m] = Idle]
  /\ UNCHANGED <<live, gen, queue, initialized, gpio_aliases, text>>

LocationOf(g) == <<g \div PinsPerPort, g % PinsPerPort>>

\* The whole entry is overwritten, the callback of an earlier user included.
ocre_gpio_configure(m) ==
  LET g == doing[m].pin IN
  /\ Doing(m, "configure")
  /\ \/ /\ \E d \in Directions :
             gpio_pins' = [gpio_pins EXCEPT ![g] =
               [in_use |-> TRUE, direction |-> d, at |-> LocationOf(g),
                cb |-> 0, owner |-> m]]
        /\ increment_resource_count(m)
     \/ Faulty("configure") /\ UNCHANGED <<gpio_pins, resource_count>>
  /\ UNCHANGED driverVars

Access(m) ==
  /\ Doing(m, "access")
  /\ UNCHANGED <<resource_count, gpio_pins, driverVars>>

\* An address that nobody uses; one that the driver still holds is not used
\* again.
Fresh == Callbacks \ (allocated \union {c[1] : c \in attached})

\* k_calloc: the callback the entry has, or a new one.
CallbackFor(g) ==
  IF gpio_pins[g].cb # 0 THEN gpio_pins[g].cb ELSE CHOOSE c \in Fresh : TRUE

Mut_RegisterKeepsFreed(m) ==
  LET g == doing[m].pin
      pin == gpio_pins[g]
      c == CallbackFor(g)
  IN
  /\ Doing(m, "register")
  /\ pin.cb # 0 \/ Fresh # {}
  /\ gpio_pins' = [gpio_pins EXCEPT ![g].cb = c]
  /\ \/ /\ allocated' = allocated \union {c}
        /\ attached' = attached \union {<<c, pin.at>>}
        /\ enabled' = enabled \union {pin.at}
     \/ /\ Faulty("add")
        /\ allocated' = allocated \ {c}
        /\ enabled' = enabled \union {pin.at}
        /\ UNCHANGED attached
  /\ UNCHANGED resource_count

\* Enabling the interrupt or adding the callback may fail: both free the
\* callback, also one that an earlier call has given to the driver.
ocre_gpio_register_callback(m) ==
  LET g == doing[m].pin
      pin == gpio_pins[g]
      c == CallbackFor(g)
  IN
  /\ Doing(m, "register")
  /\ \/ /\ Faulty("alloc") \/ Fresh = {}
        /\ pin.cb = 0
        /\ UNCHANGED <<gpio_pins, driverVars>>
     \/ /\ pin.cb # 0 \/ Fresh # {}
        /\ gpio_pins' = [gpio_pins EXCEPT ![g].cb = c]
        /\ allocated' = allocated \union {c}
        /\ attached' = attached \union {<<c, pin.at>>}
        /\ enabled' = enabled \union {pin.at}
     \/ /\ Faulty("interrupt") \/ Faulty("add")
        /\ pin.cb # 0 \/ Fresh # {}
        /\ gpio_pins' = [gpio_pins EXCEPT ![g].cb = 0]
        /\ allocated' = allocated \ {c}
        /\ \/ Faulty("interrupt") /\ UNCHANGED enabled
           \/ Faulty("add") /\ enabled' = enabled \union {pin.at}
        /\ UNCHANGED attached
  /\ UNCHANGED resource_count

\* The callbacks of the pins in gs are unregistered; disabling the interrupt
\* fails on those in kept, and taking the callback from the driver on those
\* in held, which is freed all the same.
Unregistered(gs, kept, held) ==
  LET done == gs \ kept IN
  /\ kept = {} \/ Faulty("interrupt")
  /\ held = {} \/ Faulty("remove")
  /\ enabled' = enabled \ {gpio_pins[g].at : g \in done}
  /\ attached' = {c \in attached : \A g \in done \ held : gpio_pins[g].cb # c[1]}
  /\ allocated' = allocated \ {gpio_pins[g].cb : g \in done}

ocre_gpio_unregister_callback(m) ==
  LET g == doing[m].pin IN
  /\ Doing(m, "unregister")
  /\ \E kept \in SUBSET {g} : \E held \in SUBSET {g} :
       /\ Unregistered({g}, kept, held)
       /\ gpio_pins' = IF g \in kept THEN gpio_pins ELSE [gpio_pins EXCEPT ![g].cb = 0]
  /\ UNCHANGED resource_count

---------------------------------------------------------------------------
(* Interrupts *)

GpioEvent(g) ==
  [owner |-> gpio_pins[g].owner, gen |-> GenOf(gpio_pins[g].owner),
   body |-> gpio_pins[g].at]

Mut_HandlerIgnoresInUse(c) ==
  /\ c \in attached
  /\ c[1] \in allocated
  /\ c[2] \in enabled
  /\ \E g \in Pins : gpio_pins[g].cb = c[1] /\ Put(GpioEvent(g))
  /\ UNCHANGED <<live, gen, resource_count, gpioVars>>

\* The driver calls a callback that it holds.  What it does with one that was
\* freed is undefined and left out.
gpio_callback_handler(c) ==
  /\ c \in attached
  /\ c[1] \in allocated
  /\ c[2] \in enabled
  /\ \E g \in Pins :
       /\ gpio_pins[g].in_use
       /\ gpio_pins[g].cb = c[1]
       /\ gpio_pins[g].at[2] = c[2][2]
       /\ Put(GpioEvent(g))
  /\ UNCHANGED <<live, gen, resource_count, gpioVars>>

---------------------------------------------------------------------------
(* The life of a module *)

Register(m) == ocre_register_module(m) /\ UNCHANGED gpioVars

Mut_CleanupInputs(m) ==
  /\ doing[m] = Idle
  /\ ocre_unregister_module(m)
  /\ LET gs == {g \in Owned(m) : gpio_pins[g].direction = "in"} IN
     /\ Unregistered({g \in gs : gpio_pins[g].cb # 0}, {}, {})
     /\ gpio_pins' = [g \in Pins |-> IF g \in gs
          THEN [gpio_pins[g] EXCEPT !.in_use = FALSE, !.owner = NULL, !.cb = 0]
          ELSE gpio_pins[g]]
  /\ UNCHANGED <<initialized, gpio_aliases, text, doing>>

\* ocre_gpio_cleanup_container: a callback that cannot be unregistered stays
\* in the entry, which is free.
Cleanup(m) ==
  LET registered == {g \in Owned(m) : gpio_pins[g].direction = "in" /\ gpio_pins[g].cb # 0}
  IN
  /\ doing[m] = Idle
  /\ ocre_unregister_module(m)
  /\ \E kept \in SUBSET registered : \E held \in SUBSET registered :
       /\ Unregistered(registered, kept, held)
       /\ gpio_pins' = [g \in Pins |->
            IF g \in Owned(m)
            THEN [gpio_pins[g] EXCEPT !.in_use = FALSE, !.owner = NULL,
                                      !.cb = IF g \in registered \ kept THEN 0 ELSE @]
            ELSE gpio_pins[g]]
  /\ UNCHANGED <<initialized, gpio_aliases, text, doing>>

GetEvent(m) ==
  /\ doing[m] = Idle
  /\ ocre_get_event(m)
  /\ UNCHANGED <<live, gen, resource_count, gpioVars>>

Effect(m) ==
  \/ ocre_gpio_configure(m)
  \/ Access(m)
  \/ ocre_gpio_register_callback(m)
  \/ ocre_gpio_unregister_callback(m)

ModuleNext(m) ==
  \/ Register(m)
  \/ ocre_gpio_init(m)
  \/ Cleanup(m)
  \/ GetEvent(m)
  \/ Effect(m)
  \/ \E op \in Ops, at \in Location :
       \/ GpioCall(m, op, at)
       \/ \E name \in Names : GpioCallByName(m, op, name, at)

GpioNext ==
  /\ \/ \E m \in Modules : ModuleNext(m)
     \/ \E c \in attached : gpio_callback_handler(c)
  /\ UNCHANGED setting

GpioSpec == GpioInit /\ [][GpioNext]_allGpioVars

---------------------------------------------------------------------------
\* Every module keeps to pins of its own, does nothing twice, and uses no name: a
\* name that an instance cached before it exited may lead to any pin.
Careful ==
  /\ \A m, n \in Modules : m # n => setting.uses[m] \intersect setting.uses[n] = {}
  /\ ~ setting.again
  /\ ~ setting.named

\* No pin outlives its module, although cleaning it up may fail halfway: what
\* is in use belongs to a registered instance.  A module's count is never below
\* the number of its pins, and is that number where modules are careful.
\* (Configuring a pin again counts it again, and taking over another module's
\* pin leaves that one's count as it was.)
PinsAccounted ==
  /\ \A g \in Pins : gpio_pins[g].in_use => gpio_pins[g].owner \in live
  /\ \A m \in live :
       /\ resource_count[m] >= Cardinality(Owned(m))
       /\ Careful => resource_count[m] = Cardinality(Owned(m))

\* Where modules are careful and callbacks can be unregistered, the callbacks
\* allocated, those the driver holds and those of the pins in use are the
\* same: the driver never calls one that was freed, and none is left over.
CallbacksAccounted ==
  Careful /\ ~ Faulty("interrupt") /\ ~ Faulty("remove") =>
    /\ allocated = {c[1] : c \in attached}
    /\ allocated = {gpio_pins[g].cb : g \in {h \in Pins : gpio_pins[h].in_use}} \ {0}

\* An interrupt makes events for running modules only, although the callback
\* of a module that exited may still be with the driver.
EventForLive ==
  [][Len(queue') > Len(queue) => queue'[Len(queue')].owner \in live]_allGpioVars

\* A call by name reaches the pin of that name, as long as the guests keep
\* their names in strings that stay and none that cached a name has exited.
NamesResolve ==
  setting.literals
    /\ (\A i \in DOMAIN gpio_aliases :
          LET p == gpio_aliases[i].name IN p.module \in live /\ p.gen = gen[p.module])
  => \A m \in Modules :
       doing[m].name # NoName => doing[m].pin = global_pin(Alias[doing[m].name])
=============================================================================
