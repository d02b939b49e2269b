\* Two processes with a scheduler each.
CONSTANTS
  Process = {p1, p2}
  Scheduler = {standard}
SPECIFICATION Spec
INVARIANTS
  OneHolder
