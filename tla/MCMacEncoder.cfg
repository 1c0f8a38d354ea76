SPECIFICATION Spec
CONSTANTS
  MaxNals = 3
  MaxPts = 6
INVARIANTS FlagsDescribeBytes KeyframesDecodable
