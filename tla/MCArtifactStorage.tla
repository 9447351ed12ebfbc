-------------------------- MODULE MCArtifactStorage --------------------------
(* ArtifactStorage on small instances: "of" tells which.                      *)
(*   publish: three requests of every kind, deletion and retention, no faults *)
(*   orphans: two uploads of sites, a crash, and the collection of orphans    *)
(*   audit:   three new or replaced pages, and the check of the references    *)
(*   counter: three new or replaced pages at a quota of two, a crash, and the *)
(*            nightly correction of the counter                               *)
EXTENDS ArtifactStorage, TLC
VARIABLE of

Counter == INSTANCE ArtifactStorage WITH
  Quota <- 2, Offered <- {"createPage", "page"}, Daily <- {"quota"}

Begun == {u \in Upload : phase'[u] # "idle"}
Sites == \A u \in Begun : mem'[u].kind \in SiteKinds \cup {"none"}
Pages == \A u \in Begun : mem'[u].kind \in {"createPage", "page", "none"}
\* Requests begin when none that began earlier can still be at work.
BeginsApart == now = 1 => \A j \in Job : phase[j] = "idle" => phase'[j] = "idle"

Requests ==
  \/ \E u \in Upload : Start(u) \/ Advance(u)
  \/ \E d \in Deleter : StartDelete(d) \/ DeleteBatch(d)
  \/ \E j \in Job : Clean(j)

Deaths == \E j \in Job : Crash(j)

MCNext ==
  /\ \/ of = "publish" /\ Requests
     \/ /\ of = "orphans"
        /\ Requests \/ Deaths \/ OrphanCron \/ Tick
        /\ Sites /\ Cardinality(Begun) <= 2 /\ BeginsApart
     \/ of = "audit" /\ (Requests \/ VerifyCron) /\ Pages
     \/ of = "counter" /\ Counter!Next
  /\ UNCHANGED of

MCInit == Init /\ of \in {"publish", "orphans", "audit", "counter"}
MCSpec == MCInit /\ [][MCNext]_<<of, vars>>

\* Requests are interchangeable: nothing orders them but their actions.
UploadSymmetry == Permutations(Upload)
=============================================================================
