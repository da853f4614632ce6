---------------------------- MODULE QuotaContract ----------------------------
(***************************************************************************)
(* What metered Cloud processing promises, without counters, locks, time   *)
(* or requests: a key is granted some units of a pot only while the pot's  *)
(* held and billed units fit its cap, the provider is called at most once  *)
(* for a key and only with a grant, only a called key is billed, and a     *)
(* billed or void grant never changes again.                               *)
(***************************************************************************)
EXTENDS Integers, FiniteSets

CONSTANTS
  Keys,      \* idempotency keys
  Pots,      \* a month's units of one kind
  MaxUnits,  \* bound of what a key asks for
  Cap        \* the units of each pot

VARIABLES
  grant,  \* what each key was granted, and what became of it
  calls   \* how often the provider was called for each key

NoGrant == [phase |-> "none"]
Grant == [phase : {"held", "billed", "void"}, pot : Pots, units : 1 .. MaxUnits]

\* The units of a pot that keys other than k hold or have been billed.
Taken(g, pot, k) ==
  Cardinality({t \in (Keys \ {k}) \X (1 .. MaxUnits) :
                 /\ g[t[1]].phase \in {"held", "billed"}
                 /\ g[t[1]].pot = pot
                 /\ t[2] <= g[t[1]].units})

\* Held grants of one pot, given up: their time has run out.
Lapsed(keys) == [j \in Keys |-> IF j \in keys THEN [grant[j] EXCEPT !.phase = "void"] ELSE grant[j]]
Held == {j \in Keys : grant[j].phase = "held"}

Init ==
  /\ grant = [k \in Keys |-> NoGrant]
  /\ calls = [k \in Keys |-> 0]

\* A new grant, after some held ones have lapsed.
GrantTo(k) ==
  /\ grant[k] = NoGrant
  /\ \E pot \in Pots, n \in 1 .. MaxUnits, lapsing \in SUBSET Held :
       /\ Taken(Lapsed(lapsing), pot, k) + n <= Cap[pot]
       /\ grant' = [Lapsed(lapsing) EXCEPT ![k] = [phase |-> "held", pot |-> pot, units |-> n]]
  /\ UNCHANGED calls

Lapse ==
  /\ \E lapsing \in SUBSET Held : grant' = Lapsed(lapsing)
  /\ UNCHANGED calls

Call(k) ==
  /\ grant[k] # NoGrant
  /\ calls[k] = 0
  /\ calls' = [calls EXCEPT ![k] = 1]
  /\ UNCHANGED grant

Close(k) ==
  /\ grant[k].phase = "held"
  /\ calls[k] = 1
  /\ \E phase \in {"billed", "void"} : grant' = [grant EXCEPT ![k].phase = phase]
  /\ UNCHANGED calls

Next == Lapse \/ \E k \in Keys : GrantTo(k) \/ Call(k) \/ Close(k)

Spec == Init /\ [][Next]_<<grant, calls>>
=============================================================================
