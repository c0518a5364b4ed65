\* Two tasks at once on one file, in every mode.
SPECIFICATION FairSpec
CONSTANTS
  f = f
  a = a
  Tasks = {t1, t2}
  Files = {f}
  Marks = {a}
  Jobs <- SomeJobs
  Configs <- SomeConfigs
  MaxSteps = 2
INVARIANTS
  DenyByDefault
  FilesAreWhole
  EditsBuildOnFile
  ReplyTellsEffect
PROPERTIES
  TaskAdvances
  TaskAnswered
CHECK_DEADLOCK FALSE
