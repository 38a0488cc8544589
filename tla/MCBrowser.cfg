SPECIFICATION Spec
CONSTANTS
  Tasks = {t1, t2}
  MaxLaunches = 3
  None = None
INVARIANT OneBrowser
