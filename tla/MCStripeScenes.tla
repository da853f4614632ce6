---------------------------- MODULE MCStripeScenes ----------------------------
(* The behaviours of StripeEvents in which one of three things happens, so that *)
(* one instance is small enough for TLC: a subscription is bought; one that     *)
(* exists is disputed, won back and ended in two seconds, on two functions; or  *)
(* anything happens to it in one second, on one function at a time.             *)
EXTENDS MCStripeEvents

VARIABLE scene

\* The events that Stripe emits in the scene.
Tells(ev) ==
  CASE scene = "checkout" -> /\ ev.kind \in Projecting /\ ev.sub \notin Known
                             /\ ev.says \in {"expired", "active"}
    [] scene = "end"      -> /\ ev.kind \in {"subscription", "dispute", "won"}
                             /\ ev.sub \in Known /\ ev.says \in {"active", "canceled"}
    [] scene = "reversal" -> ev.sub \in Known /\ ev.created = 1

InScene ==
  /\ \A e \in Events : event'[e] = event[e] \/ Tells(event'[e])
  /\ scene = "reversal" =>
       \A w \in Workers : pc'[w] # pc[w] => \A v \in Workers \ {w} : pc[v] = "free"

SceneInit ==
  /\ scene \in {"checkout", "end", "reversal"}
  /\ Init
  /\ scene # "reversal" => foreign = {}

SceneSpec == SceneInit /\ [][Next /\ UNCHANGED scene /\ InScene]_<<vars, scene>>
=============================================================================
