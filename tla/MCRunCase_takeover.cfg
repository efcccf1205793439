SPECIFICATION Spec
CONSTANTS
  r1 = r1
  r2 = r2
  p1 = p1
  p2 = p2
  c1 = c1
  c2 = c2
  Runners = {r1, r2}
  Procs = {p1, p2}
  ProcOf <- OwnProcess
  Cases = {c1}
  Requests <- ConflictingPair
  Fps = {"f1", "f2"}
  Sas = {"clear", "held"}
  PassingSas = {"clear"}
  GraySas = {}
  NoSa = NoSa
  NoReq = NoReq
  NoRunner = NoRunner
  NoFp = NoFp
  Royalty = TRUE
  MaxSlow = 1
  MaxArrivals = 3
  MayExpire = FALSE
  ExternalJobs <- NoJobs
  FailAt <- UnrecordedPoints
  MaxCrashes = 1
  MaxFaults = 0
INVARIANTS
  TypeOK
  OneJobPerCase
  SameRequestThroughout
  CostsMatchPurchase
PROPERTIES
  ImplementsCaseRecord
CHECK_DEADLOCK FALSE
