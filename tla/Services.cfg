SPECIFICATION MCSpec
CONSTANTS
  None = None
  Runs = {r1, r2}
  Grants <- MCGrants
  Requests = {q1, q2}
  Probes = {"database", "storage", "delivery"}
  Outages <- MCOutages
INVARIANTS
  OnlyItsOwnBucket
PROPERTIES
  HealthHolds
