\* Two branches that call verbs: faults, requests through them, gates, samples, commands.
SPECIFICATION Spec
CONSTANTS
  A = A
  B = B
  Callers = {A, B}
  Families <- MCFamilies
  Horizon = 16
  Never = 1000
  Proxies = {"px"}
  Hosts = {"h1", "h2"}
  confFile <- MCConfFile
  Services = {"web", "db"}
  Containers <- MCContainers
  Contained <- MCContained
  Patterns <- MCPatterns
  Matching <- MCMatching
  DefaultTimeout <- MCDefaultTimeout
  Lag = 2
  Hangup = 1
  Null <- MCNull
  Clip <- MCClip
  termGrace = 2
  WaitDelay = 5
INVARIANTS
  WaitIsHonest
  WindowsAreWhole
  CutCommandsAreGone
PROPERTIES
  AnsweredIsInForce
  CallsReturn
\* The branches come to the end of their steps.
CHECK_DEADLOCK FALSE
