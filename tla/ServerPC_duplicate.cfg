SPECIFICATION Spec
CONSTANTS
  Sessions = {s1, s2}
  Commands = {"update"}
  MaxJobs = 2
  Faults = {}
SYMMETRY Symmetry
PROPERTY DuplicateUpdateRefused
