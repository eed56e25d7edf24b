---------------------------- MODULE MCPeripherals ----------------------------
(***************************************************************************)
(* The instance of Peripherals that TLC checks.                            *)
(***************************************************************************)
EXTENDS Peripherals

TwoAliases == [n \in Names |-> IF n = "led0" THEN <<0, 0>> ELSE <<1, 0>>]

CarefulUse ==
  [faults |-> {"configure", "alloc", "add"}, uses |-> [m \in Modules |-> {m}],
   ops |-> Ops, again |-> FALSE, named |-> FALSE, literals |-> TRUE]

FaultyUse ==
  [faults |-> {"interrupt", "add", "remove"}, uses |-> [m \in Modules |-> {0}],
   ops |-> Ops, again |-> TRUE, named |-> FALSE, literals |-> TRUE]

NamedUse ==
  [faults |-> {}, uses |-> [m \in Modules |-> {0, 1}],
   ops |-> {"configure", "access"}, again |-> FALSE, named |-> TRUE, literals |-> TRUE]

\* One module, with one buffer for its names.
BufferUse ==
  [NamedUse EXCEPT !.literals = FALSE,
                   !.uses = [m \in Modules |-> IF m = 0 THEN {0, 1} ELSE {}]]

NoPins == [CarefulUse EXCEPT !.ops = {}, !.faults = {}]

AllSettings == {CarefulUse, FaultyUse, NamedUse, BufferUse, NoPins}

\* Five devices: one that is no sensor, one without channels, and one more
\* than fit into the table.
FiveDevices == <<"uart", "imu", "broken", "baro", "mag">>
FourEligible == {"imu", "broken", "baro", "mag"}
SomeChannels == [d \in FourEligible |-> IF d = "broken" THEN 0 ELSE 2]
=============================================================================
