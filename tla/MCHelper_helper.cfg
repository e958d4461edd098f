SPECIFICATION AllSpec
CONSTANTS
  Bundles = {1, 2}
  MaxRuns = 4
  MaxFaults = 3
  Shared = {"a", "b"}
  Own = {"x"}
  Broker = "broker"
  Nobody = Nobody
  MaxOps = 2
  MaxBreaks = 1
  Run = {"r1", "r2"}
  Profile = {"p"}
  MaxEdits = 1
  MaxBegun = 2
  MaxFailures = 1
  FirstSetups <- MCSetups
  Tolerance = 1
  MaxTime = 2
  MaxLaunches = 2
  MaxClicks = 2
  MaxQueue = 2
  MaxInbox = 1
INVARIANT VerifiedIsProtected
INVARIANT LeasesAreCounted
INVARIANT ReadyMeansProven
INVARIANT ActionIsFresh
INVARIANT GuideAgrees
CHECK_DEADLOCK FALSE
