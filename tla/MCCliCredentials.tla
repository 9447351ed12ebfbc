-------------------------- MODULE MCCliCredentials --------------------------
(* CliCredentials on small instances: "of" tells which.                      *)
(*   devices: two refreshes and the logins and revocations of a human        *)
(*   bots:    two refreshes and the administration of a bot                  *)
EXTENDS CliCredentials, TLC
VARIABLE of

NoBot == \A c \in Credential : cred'[c].owner \notin Bot
NoHuman == \A s \in Session : sess'[s].owner \notin Human

MCNext ==
  /\ Next
  /\ IF of = "devices" THEN NoBot ELSE NoHuman
  /\ UNCHANGED of

MCInit == Init /\ of \in {"devices", "bots"}
MCSpec == MCInit /\ [][MCNext]_<<of, vars>>

\* Ids are drawn at random: no row is told from another by its id.
IdSymmetry == Permutations(Credential) \cup Permutations(Session) \cup Permutations(Call)

\* What a revocation of everything promised guards no step: what does not ask
\* about it leaves it out of the state.
WithoutPromises == <<of, server, ended>>
=============================================================================
