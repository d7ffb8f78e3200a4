SPECIFICATION Spec
CONSTANTS
  Handler = {h1, h2}
  Otp = {o1}
  Device = {d1, d2}
  Alert = {f1}
  NoDevice = NoDevice
  NoUser = NoUser
  None = None
SYMMETRY Symmetry
INVARIANTS TypeOK OneLoginPerOtp LogExplainsAccount
PROPERTY ProtectionHolds
CHECK_DEADLOCK FALSE
