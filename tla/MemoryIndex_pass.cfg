\* Two searches, two memory files, texts with long lines and with overlaps.
SPECIFICATION FairSpec
CONSTANTS
  s1 = s1
  s2 = s2
  Callers = {s1, s2}
  Files = {1, 2}
  Versions <- SomeVersions
  MaxTokens = 3
  OverlapTokens = 1
  BatchSize = 2
INVARIANTS
  AssetsVerified
  IndexComplete
  ChunkBounds
PROPERTIES
  AnswersFromOneTable
  Answered
