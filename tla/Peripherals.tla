----------------------------- MODULE Peripherals -----------------------------
(***************************************************************************)
(* The modules and the peripherals they use: pins, or, in a setting that   *)
(* has no operation on pins, sensors.  A module that exits is in no call.  *)
(***************************************************************************)
EXTENDS Gpio, Sensors

allVars == <<allGpioVars, sensorVars>>

PeripheralsInit ==
  /\ GpioInit
  /\ SensorsInit
  /\ turns \/ setting.ops = {}

PeripheralsNext ==
  \/ /\ GpioNext
     /\ \A m \in live \ live' : calling[m] = NoCall
     /\ UNCHANGED sensorVars
  \/ /\ setting.ops = {}
     /\ SensorsNext
     /\ UNCHANGED allGpioVars

\* A call in progress ends, and a module asks for events again and again.
PeripheralsSpec ==
  /\ PeripheralsInit
  /\ [][PeripheralsNext]_allVars
  /\ \A m \in Modules :
       /\ WF_allVars(Effect(m) /\ UNCHANGED <<setting, sensorVars>>)
       /\ SF_allVars(GetEvent(m) /\ UNCHANGED <<setting, sensorVars>>)
=============================================================================
