---------------------------- MODULE AccessTokens ----------------------------
(***************************************************************************)
(* What the session store promises the rest of the API about access        *)
(* tokens, with no index, no lists, no locks and no requests half way in   *)
(* it: a token is issued with the roles of that moment, on a family that   *)
(* has not been revoked; revoking a family refuses its tokens for good and *)
(* no others; and the roles change only when no accepted token has others, *)
(* but for families that revocations no longer find.                       *)
(***************************************************************************)
EXTENDS Naturals

CONSTANTS
  Families,   \* refresh families of one account
  Sids,       \* access tokens, by their session
  None        \* no family

VARIABLES
  role,       \* the version of the account's roles
  access,     \* which tokens are out and accepted
  claims,     \* the roles each was issued with
  family_of,  \* the family each was issued on
  ended,      \* families revoked to the end
  stray       \* families that revocations no longer find

vars == <<role, access, claims, family_of, ended, stray>>

Init ==
  /\ role = 0
  /\ access = [s \in Sids |-> "none"]
  /\ claims = [s \in Sids |-> 0]
  /\ family_of = [s \in Sids |-> None]
  /\ ended = {} /\ stray = {}

(* What is issued on a family that was revoked meanwhile is refused.       *)
Issue(s, f) ==
  /\ access[s] = "none"
  /\ access' = [access EXCEPT ![s] = IF f \in ended THEN "refused" ELSE "accepted"]
  /\ claims' = [claims EXCEPT ![s] = role]
  /\ family_of' = [family_of EXCEPT ![s] = f]
  /\ UNCHANGED <<role, ended, stray>>

Expire(s) ==
  /\ access[s] = "accepted"
  /\ access' = [access EXCEPT ![s] = "refused"]
  /\ UNCHANGED <<role, claims, family_of, ended, stray>>

Revoke(f) ==
  /\ ended' = ended \union {f}
  /\ access' = [s \in Sids |->
                  IF access[s] = "accepted" /\ family_of[s] = f THEN "refused" ELSE access[s]]
  /\ UNCHANGED <<role, claims, family_of, stray>>

ChangeRoles ==
  /\ role' = role + 1
  /\ \A s \in Sids : access[s] = "accepted" => family_of[s] \in stray
  /\ UNCHANGED <<access, claims, family_of, ended, stray>>

Lose(S) ==
  /\ S \intersect ended = {}
  /\ stray' = stray \union S
  /\ UNCHANGED <<role, access, claims, family_of, ended>>

Next ==
  \/ \E s \in Sids : Expire(s) \/ \E f \in Families : Issue(s, f)
  \/ \E f \in Families : Revoke(f)
  \/ ChangeRoles
  \/ \E S \in SUBSET Families : Lose(S)

Spec == Init /\ [][Next]_vars
=============================================================================
