------------------------------- MODULE Sensors -------------------------------
(***************************************************************************)
(* The sensors of the containers (ocre_api/ocre_sensors/ocre_sensors.c):   *)
(* one table for all modules, which each of them may clear and fill again, *)
(* and from which each of them reads, without any lock.                    *)
(*                                                                         *)
(* A discovery is one step per device at which the driver is asked for its *)
(* channels, a read is its checks and its use of the entry.  Whatever else *)
(* looks something up in the table (open, get_handle, get_channel_type,    *)
(* get_list, the calls by name) makes the checks of a read.                *)
(*                                                                         *)
(* Discoveries that overlap can count more sensors than the table holds; a *)
(* read beyond the table is not followed.                                  *)
(*                                                                         *)
(* The devices are external: Zephyr's list of static devices, which of     *)
(* them the devicetree names as sensors, and how many channels they have.  *)
(***************************************************************************)
EXTENDS Events

CONSTANTS
  Devices,     \* the list of z_device_get_all_static, as a sequence
  Eligible,    \* those with a name in the sensor list and a channel_get
  Channels,    \* Channels[d]: what set_opened_channels returns for d
  MaxSensors,  \* CONFIG_MAX_SENSORS
  MaxReads     \* bound: how many discoveries and reads there are

ASSUME SensorsAssumption ==
  /\ Devices \in Seq({Devices[i] : i \in DOMAIN Devices})
  /\ Eligible \subseteq {Devices[i] : i \in DOMAIN Devices}
  /\ NULL \notin Eligible
  /\ MaxSensors \in Nat \ {0}
  /\ MaxReads \in Nat

VARIABLES
  turns,         \* TRUE iff no module calls while another one is in a call
  sensors,       \* the table
  sensor_count,
  calling,       \* calling[m]: the call that m's thread is in
  found,         \* found[m]: the device that m's last read used, and its id
  calls          \* how many discoveries and reads there were

sensorVars == <<turns, sensors, sensor_count, calling, found, calls>>

Empty == [device |-> NULL, in_use |-> FALSE, handle |-> 0]
NoCall == [op |-> "none"]
NotRead == [id |-> 0, device |-> NULL]
Cleared == [s \in 0 .. MaxSensors - 1 |-> Empty]

SensorsInit ==
  /\ turns \in BOOLEAN
  /\ sensors = Cleared
  /\ sensor_count = 0
  /\ calling = [m \in Modules |-> NoCall]
  /\ found = [m \in Modules |-> NotRead]
  /\ calls = 0

\* Module m begins a call, or ends it.
BeginCall(m, call) ==
  /\ m \in live
  /\ calls < MaxReads
  /\ calls' = calls + 1
  /\ calling[m] = NoCall
  /\ turns => \A n \in Modules : calling[n] = NoCall
  /\ calling' = [calling EXCEPT ![m] = call]

Go(m, call) == calling' = [calling EXCEPT ![m] = call] /\ UNCHANGED calls

---------------------------------------------------------------------------
\* ocre_sensors_init
ocre_sensors_init(m) ==
  /\ BeginCall(m, NoCall)
  /\ sensors' = Cleared
  /\ sensor_count' = 0
  /\ UNCHANGED <<turns, found>>

\* ocre_sensors_discover: the table is cleared, then every device is looked at
\* until the table is full.
Discover(m) ==
  /\ BeginCall(m, [op |-> "discover", i |-> 1])
  /\ sensors' = Cleared
  /\ sensor_count' = 0
  /\ UNCHANGED <<turns, found>>

\* A device that is no sensor is skipped; the entry of one that is gets filled
\* before its channels are known.
NextDevice(m) ==
  LET c == calling[m]
      d == Devices[c.i]
  IN
  /\ c.op = "discover"
  /\ c.i \in DOMAIN Devices /\ sensor_count < MaxSensors
  /\ \/ /\ d \notin Eligible
        /\ Go(m, [c EXCEPT !.i = @ + 1])
        /\ UNCHANGED sensors
     \/ /\ d \in Eligible
        /\ sensors' = [sensors EXCEPT ![sensor_count] =
                         [device |-> d, in_use |-> TRUE, handle |-> sensor_count]]
        /\ Go(m, [op |-> "channels", i |-> c.i])
  /\ UNCHANGED <<turns, sensor_count, found>>

Mut_OpenChannels(m) ==
  LET c == calling[m] IN
  /\ c.op = "channels"
  /\ sensor_count' = sensor_count + 1
  /\ Go(m, [op |-> "discover", i |-> c.i + 1])
  /\ UNCHANGED <<turns, sensors, found>>

\* set_opened_channels: a device that has none, or is not ready, is not counted,
\* and the next one takes its entry.
OpenChannels(m) ==
  LET c == calling[m] IN
  /\ c.op = "channels"
  /\ sensor_count' = IF Channels[Devices[c.i]] > 0 THEN sensor_count + 1
                     ELSE sensor_count
  /\ Go(m, [op |-> "discover", i |-> c.i + 1])
  /\ UNCHANGED <<turns, sensors, found>>

Discovered(m) ==
  /\ calling[m].op = "discover"
  /\ calling[m].i \notin DOMAIN Devices \/ sensor_count >= MaxSensors
  /\ Go(m, NoCall)
  /\ UNCHANGED <<turns, sensors, sensor_count, found>>

\* ocre_sensors_read and the look-ups: the checks ...
ReadCall(m, id) ==
  /\ id < sensor_count /\ sensors[id].in_use
  /\ BeginCall(m, [op |-> "read", id |-> id])
  /\ UNCHANGED <<turns, sensors, sensor_count, found>>

\* ... and the entry.
Read(m) ==
  LET c == calling[m] IN
  /\ c.op = "read"
  /\ found' = [found EXCEPT ![m] = [id |-> c.id, device |-> sensors[c.id].device]]
  /\ Go(m, NoCall)
  /\ UNCHANGED <<turns, sensors, sensor_count>>

SensorsNext ==
  \E m \in Modules :
    \/ ocre_sensors_init(m) \/ Discover(m) \/ NextDevice(m) \/ OpenChannels(m)
    \/ Discovered(m) \/ Read(m)
    \/ \E id \in 0 .. MaxSensors - 1 : ReadCall(m, id)

---------------------------------------------------------------------------
IsSensor(d) == d \in Eligible /\ Channels[d] > 0

\* How many of the first n devices are sensors.
SensorsAmong(n) == Cardinality({j \in 1 .. n : IsSensor(Devices[j])})

\* The sensor that comes after s others in the order of the devices.
IsSensorNumber(d, s) ==
  \E i \in DOMAIN Devices : d = Devices[i] /\ IsSensor(d) /\ SensorsAmong(i - 1) = s

\* Modules that take turns see one table: whoever filled it, between two calls
\* it is empty or holds the sensors in the order of the devices, as many as
\* fit, each under the handle that is its place; and a handle always leads to
\* the same sensor.
SensorTable ==
  turns =>
    /\ (\A m \in Modules : calling[m] = NoCall) =>
         /\ sensor_count \in {0, SensorsAmong(Len(Devices)), MaxSensors}
         /\ sensor_count <= SensorsAmong(Len(Devices))
         /\ \A s \in 0 .. sensor_count - 1 :
              /\ sensors[s].in_use /\ sensors[s].handle = s
              /\ IsSensorNumber(sensors[s].device, s)
    /\ \A m \in Modules :
         found[m] # NotRead => IsSensorNumber(found[m].device, found[m].id)
=============================================================================
