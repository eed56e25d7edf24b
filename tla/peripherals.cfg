\* Two modules and two pins: careful modules, careless ones, and ones that use
\* names; and modules that use the sensors.  They stop when both addresses have
\* had their instances.
CHECK_DEADLOCK FALSE
SPECIFICATION PeripheralsSpec
CONSTANTS
  Modules = {0, 1}
  NULL = NULL
  QueueSize = 1
  MaxInstances = 2
  ReadyPorts = {0, 1}
  PinsPerPort = 1
  MaxPins = 2
  Names = {"led0", "sw0"}
  Alias <- TwoAliases
  Callbacks = {1, 2}
  MaxCount = 2
  Settings <- AllSettings
  Devices <- FiveDevices
  Eligible <- FourEligible
  Channels <- SomeChannels
  MaxSensors = 2
  MaxReads = 4
INVARIANTS
  
  CallbacksAccounted
  NamesResolve
  SensorTable

  
  
