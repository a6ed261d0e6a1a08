------------------------------ MODULE Sessions ------------------------------
(***************************************************************************)
(* Staff sessions of one account (apps/api/src/auth/session): refresh      *)
(* families and the index of them in Redis, access tokens minted on a      *)
(* family under the account's shared authority lock, role changes that     *)
(* revoke every family under the exclusive lock, and revocations that take *)
(* no lock at all.                                                         *)
(*                                                                         *)
(* One step is one Redis command or script, or one statement in Postgres;  *)
(* requests interleave between them and may die there.  Role versions      *)
(* stand for the account's memberships as the claims carry them.           *)
(***************************************************************************)
EXTENDS Naturals, FiniteSets

CONSTANTS
  Families,       \* refresh families, one per browser sign-in
  Sids,           \* access tokens, by session id
  Requests,       \* requests being served, on any replica
  MaxChanges,     \* bound on role changes
  MaxRotations,   \* bound on the tokens of one family
  MaxCrashes,     \* bound on requests that die half way
  NoAccess,       \* role versions that leave no usable membership
  None            \* no family, no session

ASSUME SessionsAssumption ==
  /\ MaxChanges \in Nat /\ MaxRotations \in Nat /\ MaxCrashes \in Nat
  /\ NoAccess \subseteq 0..MaxChanges
  /\ None \notin Families /\ None \notin Sids

VARIABLES
  role,      \* the committed role version, Postgres
  family,    \* the state of each family's record, Redis
  rotations, \* how often its refresh token was rotated
  index,     \* userFamiliesKey
  listed,    \* familySessionsKey of each family
  revoked,   \* revokedSessionKey: the session ids marked
  token,     \* the access tokens: their state, ...
  family_of, \* ... the family each was minted on ...
  claims,    \* ... and the roles it carries
  pc,        \* the next step of each request, ...
  kind,      \* ... what it was asked, ...
  fam,       \* ... the family it works on, ...
  sid,       \* ... the token it mints, ...
  view,      \* ... the roles it read, ...
  todo,      \* ... the families it has still to revoke, ...
  owned,     \* ... whether it found the user of its family, ...
  marks,     \* ... the session ids it will mark, ...
  had,       \* ... and (history) the families that lived when it looked
  crashes,
  ended,     \* history: families some request finished revoking
  stray      \* history: families the index lost without their being revoked

store == <<role, family, rotations, index, listed, revoked, token, family_of, claims>>
work == <<fam, sid, view, todo, owned, marks, had>>
history == <<crashes, ended, stray>>
vars == <<store, pc, kind, work, history>>

Versions == 0..MaxChanges

Kinds == {"none", "open", "resume", "refresh", "revoke", "everywhere", "others",
          "roles"}

Steps == {"idle", "authority", "create", "mint", "register", "answer",
          "snapshot", "records", "next", "owner", "delete", "sessions", "mark",
          "announce"}

Init ==
  /\ role = 0
  /\ family = [f \in Families |-> "none"]
  /\ rotations = [f \in Families |-> 0]
  /\ index = {}
  /\ listed = [f \in Families |-> {}]
  /\ revoked = {}
  /\ token = [s \in Sids |-> "none"]
  /\ family_of = [s \in Sids |-> None]
  /\ claims = [s \in Sids |-> 0]
  /\ pc = [r \in Requests |-> "idle"]
  /\ kind = [r \in Requests |-> "none"]
  /\ fam = [r \in Requests |-> None]
  /\ sid = [r \in Requests |-> None]
  /\ view = [r \in Requests |-> 0]
  /\ todo = [r \in Requests |-> {}]
  /\ owned = [r \in Requests |-> FALSE]
  /\ marks = [r \in Requests |-> {}]
  /\ had = [r \in Requests |-> {}]
  /\ crashes = 0
  /\ ended = {}
  /\ stray = {}

Live(f) == family[f] = "live"

(* A request is asked something, goes on to its next step, or ends.        *)
Begins(r, k, step, f, s) ==
  /\ pc[r] = "idle"
  /\ pc' = [pc EXCEPT ![r] = step]
  /\ kind' = [kind EXCEPT ![r] = k]
  /\ fam' = [fam EXCEPT ![r] = f]
  /\ sid' = [sid EXCEPT ![r] = s]
  /\ UNCHANGED <<view, todo, marks, had>>

Goes(r, step) == pc' = [pc EXCEPT ![r] = step] /\ UNCHANGED kind

Ends(r) ==
  /\ pc' = [pc EXCEPT ![r] = "idle"]
  /\ kind' = [kind EXCEPT ![r] = "none"]
  /\ fam' = [fam EXCEPT ![r] = None]
  /\ sid' = [sid EXCEPT ![r] = None]
  /\ view' = [view EXCEPT ![r] = 0]
  /\ todo' = [todo EXCEPT ![r] = {}]
  /\ owned' = [owned EXCEPT ![r] = FALSE]
  /\ marks' = [marks EXCEPT ![r] = {}]
  /\ had' = [had EXCEPT ![r] = {}]

-----------------------------------------------------------------------------
(* The account's authority lock.                                           *)

(* Minting holds it shared, from the read of the roles to the end of the   *)
(* transaction; refresh revokes under it when the account has no role      *)
(* left.                                                                   *)
Reading(r) ==
  \/ pc[r] \in {"create", "mint", "register", "answer"}
  \/ kind[r] = "refresh" /\ pc[r] \in {"owner", "delete", "sessions", "mark"}

(* Mutant: a role change that takes the lock shared, and then upgrades it. *)
UpgradesTheLock(r) == kind[r] = "roles"

(* A role change holds it exclusively, through its revocation and commit.  *)
Writing(r) == kind[r] = "roles" /\ pc[r] # "authority"

(* withSessionAuthority waits for the writer.                              *)
Admits(r) ==
  /\ pc[r] = "authority" /\ kind[r] # "roles"
  /\ \A o \in Requests : ~Writing(o)

(* Mutant: the roles are read without waiting for the writer.              *)
ReadUnlocked(r) ==
  /\ pc[r] = "authority" /\ kind[r] # "roles"
  /\ role \notin NoAccess
  /\ view' = [view EXCEPT ![r] = role]
  /\ Goes(r, IF kind[r] = "open" THEN "create" ELSE "mint")
  /\ UNCHANGED <<store, fam, sid, todo, owned, marks, had, history>>

(* #view: the roles are read under the lock.                               *)
ReadAuthority(r) ==
  /\ Admits(r)
  /\ role \notin NoAccess
  /\ view' = [view EXCEPT ![r] = role]
  /\ Goes(r, IF kind[r] = "open" THEN "create" ELSE "mint")
  /\ UNCHANGED <<store, fam, sid, todo, owned, marks, had, history>>

(* An account with nothing left gets no session, ...                       *)
RefuseAuthority(r) ==
  /\ Admits(r)
  /\ role \in NoAccess /\ kind[r] # "refresh"
  /\ Ends(r)
  /\ UNCHANGED <<store, history>>

(* ... and its refresh ends the family it came from.                       *)
RefuseRefresh(r) ==
  /\ Admits(r)
  /\ role \in NoAccess /\ kind[r] = "refresh"
  /\ view' = [view EXCEPT ![r] = role]
  /\ Goes(r, "owner")
  /\ UNCHANGED <<store, fam, sid, todo, owned, marks, had, history>>

(* lockSessionWriteAuthority: nobody reads, nobody writes.                 *)
AdmitsWriter(r) ==
  /\ kind[r] = "roles" /\ pc[r] = "authority"
  /\ \A o \in Requests \ {r} : ~Reading(o) /\ ~Writing(o)

WriteAuthority(r) ==
  /\ AdmitsWriter(r)
  /\ Goes(r, "snapshot")
  /\ UNCHANGED <<store, work, history>>

-----------------------------------------------------------------------------
(* Minting.                                                                *)

(* uuidv7: the ids a request will use are its own from the start.          *)
FreshSid(s) == token[s] = "none" /\ \A o \in Requests : sid[o] # s

FreshFamily(f) == family[f] = "none" /\ \A o \in Requests : fam[o] # f

BeginOpen(r, f, s) ==
  /\ FreshFamily(f) /\ FreshSid(s)
  /\ Begins(r, "open", "authority", f, s)
  /\ UNCHANGED <<store, owned, history>>

(* The code exchange of a family that was opened before.                   *)
BeginResume(r, f, s) ==
  /\ family[f] # "none" /\ FreshSid(s)
  /\ Begins(r, "resume", "authority", f, s)
  /\ UNCHANGED <<store, owned, history>>

(* Mutant: the family is not put on the index.                             *)
CreateUnindexed(r) ==
  /\ pc[r] = "create"
  /\ family' = [family EXCEPT ![fam[r]] = "live"]
  /\ Goes(r, "mint")
  /\ UNCHANGED <<role, rotations, index, listed, revoked, token, family_of,
                 claims, work, history>>

(* createFamily: the record and the index entry in one MULTI.              *)
CreateFamily(r) ==
  /\ pc[r] = "create"
  /\ family' = [family EXCEPT ![fam[r]] = "live"]
  /\ index' = index \union {fam[r]}
  /\ Goes(r, "mint")
  /\ UNCHANGED <<role, rotations, listed, revoked, token, family_of, claims,
                 work, history>>

(* #mint: a family that is gone has no lifetime left, and the request      *)
(* throws; otherwise a token is signed.                                    *)
Mint(r) ==
  /\ pc[r] = "mint"
  /\ Live(fam[r])
  /\ token' = [token EXCEPT ![sid[r]] = "signed"]
  /\ family_of' = [family_of EXCEPT ![sid[r]] = fam[r]]
  /\ claims' = [claims EXCEPT ![sid[r]] = view[r]]
  /\ Goes(r, "register")
  /\ UNCHANGED <<role, family, rotations, index, listed, revoked, work, history>>

RefuseMint(r) ==
  /\ pc[r] = "mint"
  /\ ~Live(fam[r])
  /\ Ends(r)
  /\ UNCHANGED <<store, history>>

(* Mutant: the session is listed without asking whether the family lives.  *)
RegisterBlindly(r) ==
  /\ pc[r] = "register"
  /\ listed' = [listed EXCEPT ![fam[r]] = @ \union {sid[r]}]
  /\ Goes(r, "answer")
  /\ UNCHANGED <<role, family, rotations, index, revoked, token, family_of,
                 claims, work, history>>

(* REGISTER_SESSION_SCRIPT: one script finds the family and lists the      *)
(* session, or finds it gone and marks the session revoked.                *)
RegisterSession(r) ==
  /\ pc[r] = "register"
  /\ Live(fam[r])
  /\ listed' = [listed EXCEPT ![fam[r]] = @ \union {sid[r]}]
  /\ Goes(r, "answer")
  /\ UNCHANGED <<role, family, rotations, index, revoked, token, family_of,
                 claims, work, history>>

RefuseSession(r) ==
  /\ pc[r] = "register"
  /\ ~Live(fam[r])
  /\ revoked' = revoked \union {sid[r]}
  /\ Ends(r)
  /\ UNCHANGED <<role, family, rotations, index, listed, token, family_of,
                 claims, history>>

(* The transaction ends and the token reaches the browser.                 *)
Answer(r) ==
  /\ pc[r] = "answer"
  /\ token' = [token EXCEPT ![sid[r]] = "issued"]
  /\ Ends(r)
  /\ UNCHANGED <<role, family, rotations, index, listed, revoked, family_of,
                 claims, history>>

-----------------------------------------------------------------------------
(* Refreshing.  ROTATE_SCRIPT is one step; `k` numbers the refresh token   *)
(* presented, which any browser or copy of it may hold.                    *)

Rotate(r, f, k, s) ==
  /\ Live(f) /\ k = rotations[f] /\ k < MaxRotations
  /\ FreshSid(s)
  /\ rotations' = [rotations EXCEPT ![f] = k + 1]
  /\ Begins(r, "refresh", "authority", f, s)
  /\ UNCHANGED <<role, family, index, listed, revoked, token, family_of, claims,
                 owned, history>>

(* The script deletes the record at once, and what hangs on it goes        *)
(* afterwards, as at the end of any revocation.                            *)
Deletes(r, f) ==
  /\ family' = [family EXCEPT ![f] = "gone"]
  /\ Begins(r, "revoke", "sessions", f, None)
  /\ owned' = [owned EXCEPT ![r] = TRUE]
  /\ UNCHANGED <<role, rotations, index, listed, revoked, token, family_of,
                 claims, history>>

(* A token that was rotated already.                                       *)
RotateReused(r, f, k) == Live(f) /\ k < rotations[f] /\ Deletes(r, f)

(* Access tokens end no later than their family, and idle time is longer   *)
(* than a token lives: a family ends after the last of the tokens on it,   *)
(* but may end while one is being signed.                                  *)
Spent(f) ==
  /\ Live(f)
  /\ \A s \in Sids : family_of[s] = f => token[s] # "issued"
  /\ \A r \in Requests : fam[r] = f => pc[r] # "answer"

RotateExpired(r, f) == Spent(f) /\ Deletes(r, f)

(* Redis drops a record at the end of its TTL, and with it nothing else.   *)
FamilyExpires(f) ==
  /\ Spent(f)
  /\ family' = [family EXCEPT ![f] = "gone"]
  /\ UNCHANGED <<role, rotations, index, listed, revoked, token, family_of,
                 claims, pc, kind, work, history>>

TokenExpires(s) ==
  /\ token[s] = "issued"
  /\ token' = [token EXCEPT ![s] = "expired"]
  /\ UNCHANGED <<role, family, rotations, index, listed, revoked, family_of,
                 claims, pc, kind, work, history>>

-----------------------------------------------------------------------------
(* Revoking.                                                               *)

(* Sign-out and the revocation of one browser: no lock is taken.           *)
BeginRevoke(r, f) ==
  /\ family[f] # "none"
  /\ Begins(r, "revoke", "owner", f, None)
  /\ UNCHANGED <<store, owned, history>>

(* Log out everywhere and a password reset.                                *)
BeginEverywhere(r) ==
  /\ Begins(r, "everywhere", "snapshot", None, None)
  /\ UNCHANGED <<store, owned, history>>

(* A password change, that keeps one family.                               *)
BeginOthers(r, keep) ==
  /\ Begins(r, "others", "snapshot", keep, None)
  /\ UNCHANGED <<store, owned, history>>

BeginRoles(r) ==
  /\ Begins(r, "roles", "authority", None, None)
  /\ UNCHANGED <<store, owned, history>>

(* revokeAllForUser and familiesOf: SMEMBERS of the index.                 *)
Snapshot(r) ==
  /\ pc[r] = "snapshot"
  /\ todo' = [todo EXCEPT ![r] = index]
  /\ had' = [had EXCEPT ![r] =
              IF kind[r] = "others" THEN {} ELSE {f \in Families : Live(f)}]
  /\ Goes(r, IF kind[r] = "others" THEN "records" ELSE "next")
  /\ UNCHANGED <<store, fam, sid, view, owned, marks, history>>

(* The index loses families before they were revoked.                      *)
Loses(S) == stray' = stray \union (S \ ended)

(* The rest of familiesOf: the records are read, and an id without one is  *)
(* taken off the index on the way past.  A family that is gone stays gone, *)
(* so the SREM is one step with the read.                                  *)
ReadRecords(r) ==
  LET missing == {f \in todo[r] : ~Live(f)} IN
  /\ pc[r] = "records"
  /\ index' = index \ missing
  /\ Loses(index \intersect missing)
  /\ todo' = [todo EXCEPT ![r] = (@ \ missing) \ {fam[r]}]
  /\ Goes(r, "next")
  /\ UNCHANGED <<role, family, rotations, listed, revoked, token, family_of,
                 claims, fam, sid, view, owned, marks, had, crashes, ended>>

(* The security page reads familiesOf too, and revokes nothing.            *)
ListSessions(S) ==
  /\ S # {} /\ S \subseteq index /\ \A f \in S : ~Live(f)
  /\ index' = index \ S
  /\ Loses(S)
  /\ UNCHANGED <<role, family, rotations, listed, revoked, token, family_of,
                 claims, pc, kind, work, crashes, ended>>

NextFamily(r, f) ==
  /\ pc[r] = "next" /\ f \in todo[r]
  /\ fam' = [fam EXCEPT ![r] = f]
  /\ todo' = [todo EXCEPT ![r] = @ \ {f}]
  /\ Goes(r, "owner")
  /\ UNCHANGED <<store, sid, view, owned, marks, had, history>>

(* revokeFamily: HGET the user, DEL the record, then #forgetFamily:        *)
(* SMEMBERS of its sessions, and one MULTI that marks them, drops the list *)
(* and takes the family off the index of the user it found.                *)
ReadOwner(r) ==
  /\ pc[r] = "owner"
  /\ owned' = [owned EXCEPT ![r] = Live(fam[r])]
  /\ Goes(r, "delete")
  /\ UNCHANGED <<store, fam, sid, view, todo, marks, had, history>>

DeleteFamily(r) ==
  /\ pc[r] = "delete"
  /\ family' = [family EXCEPT ![fam[r]] = "gone"]
  /\ Goes(r, "sessions")
  /\ UNCHANGED <<role, rotations, index, listed, revoked, token, family_of,
                 claims, work, history>>

ReadSessions(r) ==
  /\ pc[r] = "sessions"
  /\ marks' = [marks EXCEPT ![r] = listed[fam[r]]]
  /\ Goes(r, "mark")
  /\ UNCHANGED <<store, fam, sid, view, todo, owned, had, history>>

Loops(r) == kind[r] \in {"everywhere", "others", "roles"}

(* Mutant: who finds no user of the family leaves its sessions unmarked.   *)
ForgetOwned(r) ==
  /\ pc[r] = "mark"
  /\ revoked' = IF owned[r] THEN revoked \union marks[r] ELSE revoked
  /\ listed' = [listed EXCEPT ![fam[r]] = {}]
  /\ index' = IF owned[r] THEN index \ {fam[r]} ELSE index
  /\ ended' = ended \union {fam[r]}
  /\ UNCHANGED <<role, family, rotations, token, family_of, claims, crashes, stray>>

ForgetFamily(r) ==
  /\ pc[r] = "mark"
  /\ revoked' = revoked \union marks[r]
  /\ listed' = [listed EXCEPT ![fam[r]] = {}]
  /\ index' = IF owned[r] THEN index \ {fam[r]} ELSE index
  /\ ended' = ended \union {fam[r]}
  /\ UNCHANGED <<role, family, rotations, token, family_of, claims, crashes, stray>>

MarkSessions(r) == ForgetFamily(r) /\ ~Loops(r) /\ Ends(r)

MarkAndGoOn(r) ==
  /\ ForgetFamily(r) /\ Loops(r)
  /\ fam' = [fam EXCEPT ![r] = None]
  /\ owned' = [owned EXCEPT ![r] = FALSE]
  /\ marks' = [marks EXCEPT ![r] = {}]
  /\ Goes(r, "next")
  /\ UNCHANGED <<sid, view, todo, had>>

(* The loop is over: revokeAllForUser deletes the whole index.             *)
DropIndex(r) ==
  /\ pc[r] = "next" /\ todo[r] = {} /\ kind[r] # "others"
  /\ index' = {}
  /\ Loses(index)
  /\ Goes(r, "announce")
  /\ UNCHANGED <<role, family, rotations, listed, revoked, token, family_of,
                 claims, work, crashes, ended>>

(* principal.revoked is published, or its failure logged, and the request  *)
(* answers.                                                                *)
Announce(r) ==
  /\ \/ pc[r] = "announce" /\ kind[r] = "everywhere"
     \/ pc[r] = "next" /\ todo[r] = {} /\ kind[r] = "others"
  /\ Ends(r)
  /\ UNCHANGED <<store, history>>

(* The transaction of a role change commits, or a later step of it throws  *)
(* and it rolls back with the families already revoked.  Changes that take *)
(* no lock or revoke nothing (an invitation of an active account, a        *)
(* reactivation, the viewer toggle, some syncs) are not among these.       *)
CommitRoles(r) ==
  /\ pc[r] = "announce" /\ kind[r] = "roles"
  /\ role < MaxChanges
  /\ role' = role + 1
  /\ Ends(r)
  /\ UNCHANGED <<family, rotations, index, listed, revoked, token, family_of,
                 claims, history>>

RollbackRoles(r) ==
  /\ pc[r] = "announce" /\ kind[r] = "roles"
  /\ Ends(r)
  /\ UNCHANGED <<store, history>>

(* A replica dies, or Redis does not answer: the transaction rolls back.   *)
Crash(r) ==
  /\ crashes < MaxCrashes
  /\ pc[r] # "idle"
  /\ Ends(r)
  /\ crashes' = crashes + 1
  /\ UNCHANGED <<store, ended, stray>>

-----------------------------------------------------------------------------
Begin(r) ==
  \/ BeginEverywhere(r) \/ BeginRoles(r)
  \/ \E f \in Families \union {None} : BeginOthers(r, f)
  \/ \E f \in Families : BeginRevoke(r, f) \/ RotateExpired(r, f)
  \/ \E f \in Families, s \in Sids : BeginOpen(r, f, s) \/ BeginResume(r, f, s)
  \/ \E f \in Families, k \in 0..MaxRotations :
       RotateReused(r, f, k) \/ \E s \in Sids : Rotate(r, f, k, s)

MintStep(r) ==
  \/ CreateFamily(r) \/ Mint(r) \/ RefuseMint(r)
  \/ RegisterSession(r) \/ RefuseSession(r) \/ Answer(r)

RevokeStep(r) ==
  \/ Snapshot(r) \/ ReadRecords(r) \/ (\E f \in Families : NextFamily(r, f))
  \/ ReadOwner(r) \/ DeleteFamily(r) \/ ReadSessions(r) \/ MarkSessions(r)
  \/ MarkAndGoOn(r) \/ DropIndex(r) \/ Announce(r) \/ CommitRoles(r)
  \/ RollbackRoles(r)

LockStep(r) ==
  ReadAuthority(r) \/ RefuseAuthority(r) \/ RefuseRefresh(r) \/ WriteAuthority(r)

Expiry == (\E f \in Families : FamilyExpires(f)) \/ (\E s \in Sids : TokenExpires(s))

Next ==
  \/ \E r \in Requests :
       Begin(r) \/ LockStep(r) \/ MintStep(r) \/ RevokeStep(r) \/ Crash(r)
  \/ \E S \in SUBSET Families : ListSessions(S)
  \/ Expiry

Spec == Init /\ [][Next]_vars

-----------------------------------------------------------------------------
(* The parts of the inductive invariant.                                   *)

Known(f) == family[f] # "none"

Minting == {"open", "resume", "refresh"}

(* Which fields each step of a request has filled in, and what it knows of *)
(* the family it works on.                                                 *)
RequestInv ==
  \A r \in Requests :
    /\ pc[r] \in {"create", "mint", "register", "answer"} => kind[r] \in Minting
    /\ pc[r] = "authority" => kind[r] \in Minting \union {"roles"}
    /\ pc[r] \in {"snapshot", "next"} => Loops(r)
    /\ pc[r] = "announce" => kind[r] \in {"everywhere", "roles"}
    /\ pc[r] = "records" => kind[r] = "others"
    /\ kind[r] \in Minting => fam[r] \in Families
    /\ pc[r] \in {"create", "mint", "register", "answer"} \/
       (pc[r] = "authority" /\ kind[r] # "roles") => sid[r] \in Sids
    /\ pc[r] = "create" => kind[r] = "open"
    /\ pc[r] \in {"create", "authority"} /\ kind[r] = "open" => ~Known(fam[r])
    /\ kind[r] \in {"resume", "refresh"} \/ pc[r] \in {"mint", "register", "answer"} =>
         Known(fam[r])
    /\ pc[r] \in {"owner", "delete", "sessions", "mark"} =>
         fam[r] \in Families /\ Known(fam[r])
    /\ pc[r] \in {"sessions", "mark"} => family[fam[r]] = "gone"
    /\ \A f \in todo[r] \union index : Known(f)

(* A session id belongs to one request, which signs it once.               *)
SidInv ==
  /\ \A r, o \in Requests : r # o /\ sid[r] # None => sid[r] # sid[o]
  /\ \A r, o \in Requests :
       r # o /\ kind[r] = "open" /\ pc[r] \in {"authority", "create"} =>
         ~(kind[o] = "open" /\ pc[o] \in {"authority", "create"} /\ fam[o] = fam[r])
  /\ \A s \in Sids : token[s] # "none" =>
       family_of[s] \in Families /\ Known(family_of[s])
  /\ \A r \in Requests : pc[r] \in {"register", "answer"} =>
       /\ token[sid[r]] = "signed" /\ family_of[sid[r]] = fam[r]
       /\ claims[sid[r]] = view[r]

(* A token that is out, or about to be, is on the list of its family or    *)
(* marked; who is about to mark a list holds all of it.                    *)
ListInv ==
  /\ \A f \in ended : family[f] = "gone" /\ listed[f] = {}
  /\ \A r \in Requests : pc[r] = "answer" =>
       sid[r] \in listed[fam[r]] \union revoked
  /\ \A s \in Sids : token[s] = "issued" =>
       s \in listed[family_of[s]] \union revoked
  /\ \A r \in Requests : pc[r] = "mark" =>
       listed[fam[r]] \subseteq marks[r] \union revoked

(* What is over is nothing any more, and holds no lock.                    *)
IdleInv == \A r \in Requests : pc[r] = "idle" => kind[r] = "none"

(* A session is unsigned until its request has minted it, and on no list   *)
(* until that has registered it; then it is on the list of its own family. *)
OwnInv ==
  /\ \A r \in Requests : pc[r] \in {"authority", "create", "mint"} /\ sid[r] # None =>
       token[sid[r]] = "none"
  /\ \A s \in revoked : token[s] # "none"
  /\ \A f \in Families : \A s \in listed[f] : token[s] # "none" /\ family_of[s] = f
  /\ \A r \in Requests :
       /\ pc[r] # "mark" => marks[r] = {}
       /\ \A s \in marks[r] : token[s] # "none" /\ family_of[s] = fam[r]
  /\ \A r \in Requests : pc[r] = "register" =>
       /\ sid[r] \notin revoked
       /\ \A f \in Families : sid[r] \notin listed[f]
       /\ \A o \in Requests : sid[r] \notin marks[o]
  /\ \A r \in Requests : pc[r] = "answer" /\ sid[r] \in revoked => fam[r] \in ended

(* Writers exclude one another and every reader; a reader has the roles.   *)
LockInv ==
  /\ \A r, o \in Requests : r # o /\ Writing(r) => ~Writing(o) /\ ~Reading(o)
  /\ \A r \in Requests : Reading(r) => view[r] = role

(* Families some request has still to end, or need not end any more.       *)
Remaining(r) ==
  todo[r] \union ended \union stray \union
    (IF pc[r] \in {"owner", "delete", "sessions", "mark"} THEN {fam[r]} ELSE {})

Revoking == {"next", "owner", "delete", "sessions", "mark", "announce"}

(* Nothing slips between the index and the end of a revocation.            *)
IndexInv ==
  /\ \A f \in Families : Known(f) => f \in index \union ended \union stray
  /\ \A r \in Requests : kind[r] \in {"everywhere", "roles"} /\ pc[r] \in Revoking =>
       had[r] \subseteq Remaining(r)
  /\ \A r \in Requests : kind[r] = "roles" /\ pc[r] \in Revoking =>
       \A f \in Families : Known(f) => f \in Remaining(r)
  /\ \A r \in Requests : pc[r] = "announce" => todo[r] = {}

(* Old claims live on ended families only, or on those the index lost.     *)
StaleInv ==
  \A s \in Sids : token[s] \in {"signed", "issued"} /\ claims[s] # role =>
    family_of[s] \in ended \union stray

-----------------------------------------------------------------------------
(* Properties.                                                             *)

TypeOK ==
  /\ role \in Versions
  /\ family \in [Families -> {"none", "live", "gone"}]
  /\ rotations \in [Families -> 0..MaxRotations]
  /\ index \subseteq Families
  /\ listed \in [Families -> SUBSET Sids]
  /\ revoked \subseteq Sids
  /\ token \in [Sids -> {"none", "signed", "issued", "expired"}]
  /\ family_of \in [Sids -> Families \union {None}]
  /\ claims \in [Sids -> Versions]
  /\ pc \in [Requests -> Steps]
  /\ kind \in [Requests -> Kinds]
  /\ fam \in [Requests -> Families \union {None}]
  /\ sid \in [Requests -> Sids \union {None}]
  /\ view \in [Requests -> Versions]
  /\ todo \in [Requests -> SUBSET Families]
  /\ owned \in [Requests -> BOOLEAN]
  /\ marks \in [Requests -> SUBSET Sids]
  /\ had \in [Requests -> SUBSET Families]
  /\ crashes \in 0..MaxCrashes
  /\ ended \subseteq Families /\ stray \subseteq Families

(* SessionPrincipalResolver accepts it.                                    *)
Usable(s) == token[s] = "issued" /\ s \notin revoked

(* Once any revocation of a family has run to its end, no access token of  *)
(* it is accepted, whatever was being minted on it meanwhile.              *)
RevokedFamilyIsMute ==
  \A s \in Sids : Usable(s) => family_of[s] \notin ended

(* A committed role change reaches every access token: one whose claims    *)
(* are out of date is not accepted, unless its family had been lost from   *)
(* the index before.                                                       *)
StaleClaimsAreRefused ==
  \A s \in Sids :
    Usable(s) /\ claims[s] # role => family_of[s] \in stray

Everywhere(r) == pc[r] = "announce"

(* Whoever revokes everything has, at its end, ended every family that     *)
(* lived when it began, but for those the index had lost.                  *)
EverywhereEndsTheRest ==
  \A r \in Requests : Everywhere(r) =>
    \A f \in had[r] : Live(f) => f \in stray

(* "Everything this account can get back in with, gone: every family"      *)
(* (auth.service.ts): without exception.                                   *)
EverywhereMeansEverywhere ==
  \A r \in Requests : Everywhere(r) => \A f \in had[r] : ~Live(f)

(* The guards of a request's steps: the lock lets it in, or it is past it, *)
(* and what it is at is something it can do whatever it finds.             *)
CanGoOn(r) ==
  \/ Admits(r) \/ AdmitsWriter(r)
  \/ pc[r] \in {"create", "mint", "register", "answer"}
  \/ pc[r] \in {"snapshot", "records", "owner", "delete", "sessions", "mark"}
  \/ pc[r] = "next" /\ (todo[r] \intersect Families # {} \/ todo[r] = {})
  \/ pc[r] = "announce" /\ kind[r] \in {"everywhere", "roles"}

(* The two kinds of authority lock are held across Redis commands, and a   *)
(* refresh revokes while it holds the shared one: as long as requests are  *)
(* under way, one of them can go on.                                       *)
NobodyBlocksForEver ==
  (\E r \in Requests : pc[r] # "idle") => \E r \in Requests : CanGoOn(r)

(* What the resolver makes of a token, and what was signed and not yet     *)
(* given out is nothing yet.                                               *)
Access(s) ==
  CASE token[s] = "expired"                     -> "refused"
    [] token[s] = "issued" /\ s \in revoked    -> "refused"
    [] token[s] = "issued" /\ s \notin revoked -> "accepted"
    [] OTHER                                    -> "none"

Out(s) == token[s] \in {"issued", "expired"}

(* Lists, marks, the index and the authority lock implement AccessTokens,  *)
(* whatever commands of whichever requests come between each other.        *)
Tokens == INSTANCE AccessTokens
            WITH access <- [s \in Sids |-> Access(s)],
                 claims <- [s \in Sids |-> IF Out(s) THEN claims[s] ELSE 0],
                 family_of <- [s \in Sids |-> IF Out(s) THEN family_of[s] ELSE None]

ImplementsAccessTokens == Tokens!Spec
=============================================================================
