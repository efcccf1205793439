SPECIFICATION Spec
CONSTANTS
  r1 = r1
  r2 = r2
  p1 = p1
  p2 = p2
  c1 = c1
  c2 = c2
  Runners = {r1, r2}
  Procs = {p1}
  ProcOf <- SharedProcess
  Cases = {c1}
  Requests <- OneRequest
  Fps = {"f1", "f2"}
  Sas = {"clear", "other"}
  PassingSas = {"clear", "other"}
  GraySas = {}
  NoSa = NoSa
  NoReq = NoReq
  NoRunner = NoRunner
  NoFp = NoFp
  Royalty = TRUE
  MaxSlow = 0
  MaxArrivals = 2
  MayExpire = FALSE
  ExternalJobs <- NoJobs
  FailAt <- VerifyPoint
  MaxCrashes = 0
  MaxFaults = 1
INVARIANTS
  AnswerMatchesChain
CHECK_DEADLOCK FALSE
