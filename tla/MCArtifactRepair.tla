-------------------------- MODULE MCArtifactRepair --------------------------
(* What the daily jobs of ArtifactStorage repair, on small instances: "of"   *)
(* tells which.                                                              *)
(*   repair: two uploads of pages, a crash, and the jobs of five days        *)
(*   lost:   two uploads of sites, of whose batches the reply may be lost    *)
EXTENDS ArtifactStorage, TLC
VARIABLE of

Lost == INSTANCE ArtifactStorage WITH
  Path <- {Entry, "other"}, LostReply <- TRUE,
  Offered <- {"createSite", "site"}, Daily <- {"verify"}, MaxTime <- 0, MaxCrashes <- 0

MCInit == of \in {"repair", "lost"} /\ IF of = "repair" THEN Init ELSE Lost!Init

MCNext ==
  /\ \/ of = "repair" /\ Next
     \/ of = "lost" /\ Lost!Next /\ \A d \in Deleter : phase'[d] = "idle"
  /\ UNCHANGED of

\* The fairness of the case.
MCFairness == (of = "repair" => Fairness) /\ (of = "lost" => Lost!Fairness)

MCFairSpec == MCInit /\ [][MCNext]_<<of, vars>> /\ MCFairness

\* Whatever died half-way, the bucket ends up holding what the rows reference
\* and the storage counter at what is stored.
Repaired == of = "repair" => OrphansCollected /\ CounterRepaired

\* When D1 applies a batch whose reply is lost, what the compensation takes
\* away is not lost in silence.
LossReported == of = "lost" => Lost!NoSilentLoss
===============================================================================
