SPECIFICATION Spec
CONSTANTS
  r1 = r1
  r2 = r2
  p1 = p1
  p2 = p2
  c1 = c1
  c2 = c2
  Runners = {r1, r2}
  Procs = {p1}
  ProcOf <- SharedProcess
  Cases = {c1, c2}
  Requests <- OwnAndExternal
  Fps = {"f1", "f2"}
  Sas = {"gray", "held"}
  PassingSas = {"gray"}
  GraySas = {"gray"}
  NoSa = NoSa
  NoReq = NoReq
  NoRunner = NoRunner
  NoFp = NoFp
  Royalty = TRUE
  MaxSlow = 0
  MaxArrivals = 0
  MayExpire = TRUE
  ExternalJobs <- OneWalletJob
  FailAt <- EarlyPoints
  MaxCrashes = 1
  MaxFaults = 0
INVARIANTS
  EndAgreesWithChain
  AnswerMatchesChain
  IncomeIsReal
  WritesAreNotRepeated
  ModulePaidOnce
