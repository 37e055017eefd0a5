CONSTANTS
  M = 16
  Second = 4
  Birth = 2
  Waits = {1, 3}
  Grace = 2
  Tolerance = 1
  Skew = 1
  MaxUp = 19
SPECIFICATION Spec
PROPERTIES GraceOnce
