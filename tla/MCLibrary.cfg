\* Two objects of any kind, created and finalized over and over; the namespace
\* is loaded, unloaded and loaded again.  The process ends: no deadlock check.
CONSTANTS
    Objs = {a, b}
    MaxLoads = 2
CHECK_DEADLOCK FALSE
SPECIFICATION Spec
INVARIANT CoreSteady
PROPERTY ExitReleases
