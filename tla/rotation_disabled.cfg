SPECIFICATION Spec
CONSTANTS
  Job = Job
  Requests = {r1}
  Replicas = {p1}
  Nobody = Nobody
  Dead = Dead
  Attempts = 2
  MaxFaults = 0
PROPERTY DisabledIsSkipped
