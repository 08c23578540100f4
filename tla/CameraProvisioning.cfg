\* One camera, two requests or sweeps at a time, two attempts for three.
CONSTANTS
  Cameras = {c1}
  Jobs = {j1, j2}
  Lenient = {plaintext}
  MaxRetries = 2
  MaxEdits = 2
SYMMETRY JobSymmetry
SPECIFICATION Spec
INVARIANTS TypeOK 
PROPERTIES OverrideKept RequiredIsRefused
