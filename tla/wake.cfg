\* Two workers and two tasks that save files; a queue the host can fill.
SPECIFICATION WakeSpec
CONSTANTS
  w1 = w1
  w2 = w2
  h1 = h1
  h2 = h2
  Workers = {w1, w2}
  Hooks = {h1, h2}
  Nobody = Nobody
  EventDepth = 3
INVARIANTS WakeInv WakeNoticed
