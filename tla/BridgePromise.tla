---------------------------- MODULE BridgePromise ----------------------------
(***************************************************************************)
(* What a bridge request promises, with no leases and no steps in between: *)
(* the work a request id stands for is done at most once, and whoever asks *)
(* for it and is told of success is told of that one result.               *)
(***************************************************************************)
CONSTANTS Key, Asker, Result, None

VARIABLES
  done,   \* per request id, the result of the work done for it
  told    \* per asker, the success it was told of

Init ==
  /\ done = [k \in Key |-> {}]
  /\ told = [c \in Asker |-> None]

\* The work may be done for an asker that never hears of it.
Perform(k) ==
  /\ done[k] = {}
  /\ \E r \in Result : done' = [done EXCEPT ![k] = {r}]
  /\ UNCHANGED told

Tell(c, k) ==
  /\ told[c] = None
  /\ \E r \in done[k] : told' = [told EXCEPT ![c] = [key |-> k, result |-> r]]
  /\ UNCHANGED done

Next == \E k \in Key : Perform(k) \/ \E c \in Asker : Tell(c, k)

Spec == Init /\ [][Next]_<<done, told>>
=============================================================================
