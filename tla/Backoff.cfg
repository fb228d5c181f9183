\* The constants of backoff.hpp; Oversleep is the timer slack of Linux.
SPECIFICATION FairSpec
CONSTANTS
  kSpinsBeforeSleep = 64
  kInitialSleep = 4
  kMaxSleep = 1000
  Oversleep = 50
INVARIANTS
  TypeOK
  NoticedInTime
  LateInProportion
PROPERTIES
  SleepsWhileBlocked
