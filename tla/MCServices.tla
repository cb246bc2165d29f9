----------------------------- MODULE MCServices -----------------------------
(* The provisioning of the bucket, and the health checks, each on its own.   *)
EXTENDS Health, ObjectStore

VARIABLE scene

allVars == <<healthVars, bucketVars, scene>>

FullGrants == {"head", "create", "policy", "put"}
MCGrants == {FullGrants, FullGrants \ {"policy"}, FullGrants \ {"head"}}

MCOutages == {{}, {"database"}, {"storage", "delivery"}, {"delivery"}, {"limiter"}}

MCInit == HealthInit /\ BucketInit /\ scene \in {"bucket", "health"}
          /\ (scene = "health" => grants = FullGrants /\ Direct)

MCNext ==
  /\ \/ scene = "bucket" /\ BucketNext /\ UNCHANGED healthVars
     \/ scene = "health" /\ HealthNext /\ UNCHANGED bucketVars
  /\ UNCHANGED scene

MCSpec == MCInit /\ [][MCNext]_allVars /\ (scene = "health" => HealthFairness)
=============================================================================
