SPECIFICATION Spec
CONSTANTS
  Lengths = {28, 40}
  Flags = {128, 133}
  Rcodes = {0, 2, 3}
  Counts = {0, 1}
  Octets = {0, 192}
  RdLengths = {0, 1}
INVARIANT
  RcodeReported
CHECK_DEADLOCK FALSE
