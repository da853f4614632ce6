------------------------------ MODULE MCIdentity ------------------------------
(* Who may do what, on small instances: the devices of an account, its          *)
(* synchronisation keys and log, the members of operations, the support's       *)
(* ledger and the rate limits.  Each writes tables of its own, so nothing is    *)
(* lost when only one of them moves in a behaviour.                             *)
EXTENDS AccountDevices, SyncKeys, SyncLog, Members, RateLimits, SupportActions, TLC

VARIABLE moving   \* the component that moves

MCRateLimit == <<1, 1>>

IdentityInit ==
  /\ moving \in {"devices", "sync keys", "sync log", "members", "rates", "support"}
  /\ DevicesInit /\ SyncKeysInit /\ SyncLogInit /\ MembersInit /\ RateLimitsInit
  /\ SupportInit

IdentityNext ==
  \/ /\ moving = "devices" /\ DevicesNext
     /\ UNCHANGED <<moving, syncKeysVars, syncLogVars, memberVars, rateVars, supportVars>>
  \/ /\ moving = "sync keys" /\ SyncKeysNext
     /\ UNCHANGED <<moving, deviceVars, syncLogVars, memberVars, rateVars, supportVars>>
  \/ /\ moving = "sync log" /\ SyncLogNext
     /\ UNCHANGED <<moving, deviceVars, syncKeysVars, memberVars, rateVars, supportVars>>
  \/ /\ moving = "members" /\ MembersNext
     /\ UNCHANGED <<moving, deviceVars, syncKeysVars, syncLogVars, rateVars, supportVars>>
  \/ /\ moving = "rates" /\ RateLimitsNext
     /\ UNCHANGED <<moving, deviceVars, syncKeysVars, syncLogVars, memberVars, supportVars>>
  \/ /\ moving = "support" /\ SupportNext
     /\ UNCHANGED <<moving, deviceVars, syncKeysVars, syncLogVars, memberVars, rateVars>>

IdentitySpec ==
  IdentityInit /\ [][IdentityNext]_<<moving, deviceVars, syncKeysVars, syncLogVars,
                                    memberVars, rateVars, supportVars>>

\* The state of every component has the types its module declares.
IdentityTypeOK ==
  /\ DevicesTypeOK /\ SyncKeysTypeOK /\ SyncLogTypeOK /\ MembersTypeOK
  /\ RateLimitsTypeOK /\ SupportTypeOK

Symmetry == Permutations(SyncDevices) \cup Permutations(SyncRequests)
              \cup Permutations(AccountKeys) \cup Permutations(Codes)
=============================================================================
