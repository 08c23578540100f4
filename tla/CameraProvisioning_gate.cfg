\* As CameraProvisioning.cfg, one job at a time.
CONSTANTS
  Cameras = {c1}
  Jobs = {j1}
  Lenient = {plaintext}
  MaxRetries = 2
  MaxEdits = 2
SPECIFICATION Spec
PROPERTIES GateCoversEveryCaller
