--------------------------- MODULE MCBridgeRequests ---------------------------
(* BridgeRequests on a small instance.  Calls that carry two request ids do not *)
(* change the visibility, which is left to the calls of one id.                 *)
EXTENDS BridgeRequests, TLC

Begun == {c \in Call : call'[c].pc # "new"}

OneKeyOrNoShow ==
  \/ Cardinality({call'[c].key : c \in Begun}) <= 1
  \/ \A c \in Begun : call'[c].intent.op # "visibility"

MCSpec == Init /\ [][Next /\ OneKeyOrNoShow]_vars

Symmetry == Permutations(Call) \cup Permutations(Key)
===============================================================================
