----------------------------- MODULE MCCliProfile -----------------------------
(* The refresh credentials of the CLI on small instances: "of" tells which.    *)
(*   devices: two refreshes and the logins and revocations of a human          *)
(*   bots:    two refreshes and the administration of a bot                    *)
(*   profile: the process of a saved profile, and two calls that reach the     *)
(*            server                                                           *)
EXTENDS CliProfile, TLC
CONSTANT r1
VARIABLE of

\* Credentials that expire sooner than those of the profile
Brief == INSTANCE CliProfile WITH CredentialTtl <- 1

NoBot == \A c \in Credential : cred'[c].owner \notin Bot
NoHuman == \A s \in Session : sess'[s].owner \notin Human
OneRotation == \A q \in Call : call'[q].request \in {r1, None}

MCInit == ProfileInit /\ of \in {"devices", "bots", "profile"}

MCNext ==
  /\ \/ of = "devices" /\ Brief!Next /\ Serving /\ NoBot /\ OneRotation
     \/ of = "bots" /\ Brief!Next /\ Serving /\ NoHuman /\ OneRotation
     \/ of = "profile" /\ ProfileNext /\ NoBot
  /\ UNCHANGED of

MCSpec == MCInit /\ [][MCNext]_<<of, all>>

\* Ids are drawn at random: no row is told from another by its id.
IdSymmetry == Permutations(Credential) \cup Permutations(Session) \cup Permutations(Call)

\* What a revocation of everything promised guards no step: what does not ask
\* about it leaves it out of the state.
WithoutPromises == <<of, server, ended, client>>
===============================================================================
