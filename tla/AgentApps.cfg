\* Two rules of the agent at a time, of two cameras each, a process and its
\* successor; any events of two cameras at five instants;
\* two sends at a time over two loops and two connections.
CONSTANTS
  Asked <- TwoAlarms
  NumCameras = 2
  MaxAlarms = 2
  MaxMonitors = 1
  MaxSchedules = 1
  Rearm = 1
  Pulse = 1
  Every = 1
  MaxCreated = 2
  MaxBoots = 1
  Cameras = {c1, c2}
  Labels = {person}
  Threshold = 2
  Grace = 1
  MaxTime = 4
  Sends = {s1, s2}
  MaxLoops = 2
  MaxClients = 2
SPECIFICATION AppsSpec
INVARIANTS AppsTypeOK  AlertsGoOut
 
