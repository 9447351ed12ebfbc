------------------------ MODULE MCBridgeConversations ------------------------
(* BridgeConversations on small instances: "of" tells which.                 *)
(*   private: calls from one channel, and people who open what is shared     *)
(*   races:   three first shares from channels with two ids                  *)
(*   lost:    two calls of which one is sent again, and a reply that is lost *)
(*   retry:   the same, where projects are archived and the bot is stopped   *)
EXTENDS BridgeConversations, TLC
VARIABLE of

Begun == {c \in Call : call'[c].pc # "new"}
CallStep == \E c \in Call : Step(c)
FromOneChannel == \A c \in Begun : call'[c].ids \in {{}, ExternalId}
FirstShares == \A c \in Begun : call'[c].op = "publish"
Used == {c \in Call : call'[c].pc # "new" \/ request'[c] # NoRequest \/ project'[c] # None}
TwoCalls == Cardinality(Used) <= 2
OneRevises == Cardinality({c \in Call : call'[c].op = "revise"}) <= 1
Undisturbed == retries' = 0 /\ lost' = 0

MCNext ==
  /\ \/ /\ of = "private"
        /\ CallStep \/ \E p \in Call : OpenProject(p) \/ OpenArtifact(p)
        /\ FromOneChannel /\ OneRevises /\ Undisturbed
     \/ of = "races" /\ CallStep /\ FirstShares /\ Undisturbed
     \/ of = "lost" /\ CallStep /\ FirstShares /\ TwoCalls
     \/ /\ of = "retry"
        /\ CallStep \/ StopBot \/ \E p \in Call : Archive(p)
        /\ FirstShares /\ TwoCalls /\ lost' = 0
  /\ UNCHANGED of

MCInit == Init /\ of \in {"private", "races", "lost", "retry"}

MCSpec == MCInit /\ [][MCNext]_<<of, vars>>

Symmetry == Permutations(Call) \cup Permutations(ExternalId)
=============================================================================
