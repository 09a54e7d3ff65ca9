SPECIFICATION ControlSpec
CONSTANTS
  t1 = t1
  t2 = t2
  Requests = {r1, r2}
  Tenants <- TwoTenants
  Workers = {1, 2}
  Specs <- ThreeSpecs
  Policy <- Policies
  Capacity <- Capacities
  Limit <- Limits
  Births <- TwoBirths
  Generated = {1}
  GpuTimes = {1}
  MaxRequests = 21
  MaxSeries = 2
  MinSamples = 1
  Availability = 95
  TokenLimit = 2
  Events <- SomeEvents
  ReferenceSamples <- SomeReferences
  Measurements <- SomeMeasurements
  RefLimit = 4
SYMMETRY RequestSymmetry
INVARIANT QuotaKept
