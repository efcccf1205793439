SPECIFICATION FairSpec
CONSTANTS
  r1 = r1
  r2 = r2
  p1 = p1
  p2 = p2
  c1 = c1
  c2 = c2
  Runners = {r1, r2}
  Procs = {p1}
  ProcOf <- SharedProcess
  Cases = {c1}
  Requests <- OneRequest
  Fps = {"f1", "f2"}
  Sas = {"clear"}
  PassingSas = {"clear"}
  GraySas = {}
  NoSa = NoSa
  NoReq = NoReq
  NoRunner = NoRunner
  NoFp = NoFp
  Royalty = TRUE
  MaxSlow = 0
  MaxArrivals = 0
  MayExpire = FALSE
  ExternalJobs <- NoJobs
  FailAt <- ResumablePoints
  MaxCrashes = 1
  MaxFaults = 1
INVARIANTS
  OneRunPerCase
PROPERTIES
  SucceededIsFinal
  EventuallyAnswered
