\* The device index with two users and two devices.
SPECIFICATION ixSpec
CONSTANTS
  Users = {u1, u2}
  Devices = {d1, d2}
  NoDevice = NoDevice
INVARIANTS IndexHolds
PROPERTIES IndexLives
