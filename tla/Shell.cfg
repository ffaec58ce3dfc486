\* A ring of three, which wraps and has a command between the newest and the
\* oldest.  A list of two, which a job more than free spots overflows.  Two
\* children that are used again for later ones.
CONSTANTS
  Words = {"ls", "cd", "fg", "jobs"}
  Pids = {p1, p2}
  HISTORY_SIZE = 3
  PROCESS_LIST_SIZE = 2
SPECIFICATION Spec
SYMMETRY PidSymmetry
VIEW View
INVARIANTS
  TypeOK
  HistoryIsRecent
  JobsAreListed
  OneReader
PROPERTIES
  RerunsTheHistory
  JobsRemovesTheDead
CHECK_DEADLOCK FALSE
