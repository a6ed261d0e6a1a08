-------------------------- MODULE Sessions_proofs ---------------------------
(***************************************************************************)
(* What holds of Sessions for any families, session ids and requests.      *)
(* The invariant is proved part by part: each lemma takes all of the       *)
(* invariant before a step and gives one part of it after the step.        *)
(***************************************************************************)
EXTENDS Sessions, TLAPS

Inv ==
  /\ TypeOK /\ RequestInv /\ SidInv /\ ListInv /\ OwnInv /\ IdleInv /\ LockInv /\ IndexInv
  /\ StaleInv

(* Types: what a step writes is of its type, given that the family and the
   session id it works on are there. *)
LEMMA TypeStep ==
  ASSUME TypeOK, RequestInv, Next
  PROVE  TypeOK'
<1>1. ASSUME NEW r \in Requests, BeginEverywhere(r)
      PROVE  TypeOK'
  BY <1>1, SessionsAssumption DEF BeginEverywhere, Begins, store, history,
         TypeOK, RequestInv, Versions, Kinds, Steps, Minting
<1>2. ASSUME NEW r \in Requests, BeginRoles(r)
      PROVE  TypeOK'
  BY <1>2, SessionsAssumption DEF BeginRoles, Begins, store, history, TypeOK,
         RequestInv, Versions, Kinds, Steps, Minting
<1>3. ASSUME NEW r \in Requests, NEW f \in Families \union {None},
       BeginOthers(r, f)
      PROVE  TypeOK'
  BY <1>3, SessionsAssumption DEF BeginOthers, Begins, store, history, TypeOK,
         RequestInv, Versions, Kinds, Steps, Minting
<1>4. ASSUME NEW r \in Requests, NEW f \in Families, BeginRevoke(r, f)
      PROVE  TypeOK'
  BY <1>4, SessionsAssumption DEF BeginRevoke, Begins, store, history, TypeOK,
         RequestInv, Versions, Kinds, Steps, Minting
<1>5. ASSUME NEW r \in Requests, NEW f \in Families, RotateExpired(r, f)
      PROVE  TypeOK'
  BY <1>5, SessionsAssumption DEF RotateExpired, Deletes, Begins, history,
         TypeOK, RequestInv, Versions, Kinds, Steps, Minting
<1>6. ASSUME NEW r \in Requests, NEW f \in Families, NEW s \in Sids,
       BeginOpen(r, f, s)
      PROVE  TypeOK'
  BY <1>6, SessionsAssumption DEF BeginOpen, Begins, store, history, TypeOK,
         RequestInv, Versions, Kinds, Steps, Minting
<1>7. ASSUME NEW r \in Requests, NEW f \in Families, NEW s \in Sids,
       BeginResume(r, f, s)
      PROVE  TypeOK'
  BY <1>7, SessionsAssumption DEF BeginResume, Begins, store, history, TypeOK,
         RequestInv, Versions, Kinds, Steps, Minting
<1>8. ASSUME NEW r \in Requests, NEW f \in Families, NEW k \in
       0..MaxRotations, RotateReused(r, f, k)
      PROVE  TypeOK'
  BY <1>8, SessionsAssumption DEF RotateReused, Deletes, Begins, history,
         TypeOK, RequestInv, Versions, Kinds, Steps, Minting
<1>9. ASSUME NEW r \in Requests, NEW f \in Families, NEW k \in
       0..MaxRotations, NEW s \in Sids, Rotate(r, f, k, s)
      PROVE  TypeOK'
  BY <1>9, SessionsAssumption DEF Rotate, Begins, history, TypeOK, RequestInv,
         Versions, Kinds, Steps, Minting
<1>10. ASSUME NEW r \in Requests, ReadAuthority(r)
       PROVE  TypeOK'
  BY <1>10, SessionsAssumption DEF ReadAuthority, Admits, Goes, store,
         history, TypeOK, RequestInv, Versions, Kinds, Steps, Minting
<1>11. ASSUME NEW r \in Requests, RefuseAuthority(r)
       PROVE  TypeOK'
  BY <1>11, SessionsAssumption DEF RefuseAuthority, Admits, Ends, store,
         history, TypeOK, RequestInv, Versions, Kinds, Steps, Minting
<1>12. ASSUME NEW r \in Requests, RefuseRefresh(r)
       PROVE  TypeOK'
  BY <1>12, SessionsAssumption DEF RefuseRefresh, Admits, Goes, store,
         history, TypeOK, RequestInv, Versions, Kinds, Steps, Minting
<1>13. ASSUME NEW r \in Requests, WriteAuthority(r)
       PROVE  TypeOK'
  BY <1>13, SessionsAssumption DEF WriteAuthority, AdmitsWriter, Goes, store, work, history,
         TypeOK, RequestInv, Versions, Kinds, Steps, Minting
<1>14. ASSUME NEW r \in Requests, CreateFamily(r)
       PROVE  TypeOK'
  BY <1>14, SessionsAssumption DEF CreateFamily, Goes, work, history, TypeOK,
         RequestInv, Versions, Kinds, Steps, Minting
<1>15. ASSUME NEW r \in Requests, Mint(r)
       PROVE  TypeOK'
  BY <1>15, SessionsAssumption DEF Mint, Goes, work, history, TypeOK,
         RequestInv, Versions, Kinds, Steps, Minting
<1>16. ASSUME NEW r \in Requests, RefuseMint(r)
       PROVE  TypeOK'
  BY <1>16, SessionsAssumption DEF RefuseMint, Ends, store, history, TypeOK,
         RequestInv, Versions, Kinds, Steps, Minting
<1>17. ASSUME NEW r \in Requests, RegisterSession(r)
       PROVE  TypeOK'
  BY <1>17, SessionsAssumption DEF RegisterSession, Goes, work, history,
         TypeOK, RequestInv, Versions, Kinds, Steps, Minting
<1>18. ASSUME NEW r \in Requests, RefuseSession(r)
       PROVE  TypeOK'
  BY <1>18, SessionsAssumption DEF RefuseSession, Ends, history, TypeOK,
         RequestInv, Versions, Kinds, Steps, Minting
<1>19. ASSUME NEW r \in Requests, Answer(r)
       PROVE  TypeOK'
  BY <1>19, SessionsAssumption DEF Answer, Ends, history, TypeOK, RequestInv,
         Versions, Kinds, Steps, Minting
<1>20. ASSUME NEW r \in Requests, Snapshot(r)
       PROVE  TypeOK'
  BY <1>20, SessionsAssumption DEF Snapshot, Goes, store, history, TypeOK,
         RequestInv, Versions, Kinds, Steps, Minting
<1>21. ASSUME NEW r \in Requests, ReadRecords(r)
       PROVE  TypeOK'
  BY <1>21, SessionsAssumption DEF ReadRecords, Loses, Goes, TypeOK,
         RequestInv, Versions, Kinds, Steps, Minting
<1>22. ASSUME NEW r \in Requests, NEW f \in Families, NextFamily(r, f)
       PROVE  TypeOK'
  BY <1>22, SessionsAssumption DEF NextFamily, Goes, store, history, TypeOK,
         RequestInv, Versions, Kinds, Steps, Minting
<1>23. ASSUME NEW r \in Requests, ReadOwner(r)
       PROVE  TypeOK'
  <2>1. (family[fam[r]] = "live") \in BOOLEAN
    OBVIOUS
  <2>2. owned' \in [Requests -> BOOLEAN]
    BY <1>23, <2>1, Zenon DEF ReadOwner, Live, TypeOK
  <2> QED
    BY <1>23, <2>2 DEF ReadOwner, Goes, store, history, TypeOK, RequestInv, Versions, Kinds, Steps, Minting
<1>24. ASSUME NEW r \in Requests, DeleteFamily(r)
       PROVE  TypeOK'
  BY <1>24, SessionsAssumption DEF DeleteFamily, Goes, work, history, TypeOK,
         RequestInv, Versions, Kinds, Steps, Minting
<1>25. ASSUME NEW r \in Requests, ReadSessions(r)
       PROVE  TypeOK'
  BY <1>25, SessionsAssumption DEF ReadSessions, Goes, store, history, TypeOK,
         RequestInv, Versions, Kinds, Steps, Minting
<1>26. ASSUME NEW r \in Requests, MarkSessions(r)
       PROVE  TypeOK'
  BY <1>26, SessionsAssumption DEF MarkSessions, ForgetFamily, Ends, TypeOK,
         RequestInv, Versions, Kinds, Steps, Minting
<1>27. ASSUME NEW r \in Requests, MarkAndGoOn(r)
       PROVE  TypeOK'
  BY <1>27, SessionsAssumption DEF MarkAndGoOn, ForgetFamily, Goes, TypeOK,
         RequestInv, Versions, Kinds, Steps, Minting
<1>28. ASSUME NEW r \in Requests, DropIndex(r)
       PROVE  TypeOK'
  BY <1>28, SessionsAssumption DEF DropIndex, Loses, Goes, work, TypeOK,
         RequestInv, Versions, Kinds, Steps, Minting
<1>29. ASSUME NEW r \in Requests, Announce(r)
       PROVE  TypeOK'
  BY <1>29, SessionsAssumption DEF Announce, Ends, store, history, TypeOK,
         RequestInv, Versions, Kinds, Steps, Minting
<1>30. ASSUME NEW r \in Requests, CommitRoles(r)
       PROVE  TypeOK'
  BY <1>30, SessionsAssumption DEF CommitRoles, Ends, history, TypeOK,
         RequestInv, Versions, Kinds, Steps, Minting
<1>31. ASSUME NEW r \in Requests, RollbackRoles(r)
       PROVE  TypeOK'
  BY <1>31, SessionsAssumption DEF RollbackRoles, Ends, store, history,
         TypeOK, RequestInv, Versions, Kinds, Steps, Minting
<1>32. ASSUME NEW r \in Requests, Crash(r)
       PROVE  TypeOK'
  BY <1>32, SessionsAssumption DEF Crash, Ends, store, TypeOK, RequestInv,
         Versions, Kinds, Steps, Minting
<1>33. ASSUME NEW S \in SUBSET Families, ListSessions(S)
       PROVE  TypeOK'
  BY <1>33, SessionsAssumption DEF ListSessions, Loses, work, TypeOK,
         RequestInv, Versions, Kinds, Steps, Minting
<1>34. ASSUME NEW f \in Families, FamilyExpires(f)
       PROVE  TypeOK'
  BY <1>34, SessionsAssumption DEF FamilyExpires, work, history, TypeOK,
         RequestInv, Versions, Kinds, Steps, Minting
<1>35. ASSUME NEW s \in Sids, TokenExpires(s)
       PROVE  TypeOK'
  BY <1>35, SessionsAssumption DEF TokenExpires, work, history, TypeOK,
         RequestInv, Versions, Kinds, Steps, Minting
<1> QED
  BY <1>1, <1>2, <1>3, <1>4, <1>5, <1>6, <1>7, <1>8, <1>9, <1>10, <1>11,
         <1>12, <1>13, <1>14, <1>15, <1>16, <1>17, <1>18, <1>19, <1>20, <1>21,
         <1>22, <1>23, <1>24, <1>25, <1>26, <1>27, <1>28, <1>29, <1>30, <1>31,
         <1>32, <1>33, <1>34, <1>35
  DEF Next, Begin, LockStep, MintStep, RevokeStep, Expiry

(* Requests: each step leaves the request with what its next step needs, and
   a family that is gone never comes back. *)
LEMMA RequestStep ==
  ASSUME TypeOK, TypeOK', RequestInv, SidInv, ListInv, Next
  PROVE  RequestInv'
<1>1. ASSUME NEW r \in Requests, BeginEverywhere(r)
      PROVE  RequestInv'
  BY <1>1, SessionsAssumption DEF BeginEverywhere, Begins, store, history,
         TypeOK, RequestInv, SidInv, Known, Minting, Kinds, Steps, Loops
<1>2. ASSUME NEW r \in Requests, BeginRoles(r)
      PROVE  RequestInv'
  BY <1>2, SessionsAssumption DEF BeginRoles, Begins, store, history, TypeOK,
         RequestInv, SidInv, Known, Minting, Kinds, Steps, Loops
<1>3. ASSUME NEW r \in Requests, NEW f \in Families \union {None},
       BeginOthers(r, f)
      PROVE  RequestInv'
  BY <1>3, SessionsAssumption DEF BeginOthers, Begins, store, history, TypeOK,
         RequestInv, SidInv, Known, Minting, Kinds, Steps, Loops
<1>4. ASSUME NEW r \in Requests, NEW f \in Families, BeginRevoke(r, f)
      PROVE  RequestInv'
  BY <1>4, SessionsAssumption DEF BeginRevoke, Begins, store, history, TypeOK,
         RequestInv, SidInv, Known, Minting, Kinds, Steps, Loops
<1>5. ASSUME NEW r \in Requests, NEW f \in Families, RotateExpired(r, f)
      PROVE  RequestInv'
  BY <1>5, SessionsAssumption DEF RotateExpired, Spent, Deletes, Live, Begins,
         history, TypeOK, RequestInv, SidInv, Known, Minting, Kinds, Steps,
         Loops
<1>6. ASSUME NEW r \in Requests, NEW f \in Families, NEW s \in Sids,
       BeginOpen(r, f, s)
      PROVE  RequestInv'
  BY <1>6, SessionsAssumption DEF BeginOpen, FreshFamily, FreshSid, Begins,
         store, history, TypeOK, RequestInv, SidInv, Known, Minting, Kinds,
         Steps, Loops
<1>7. ASSUME NEW r \in Requests, NEW f \in Families, NEW s \in Sids,
       BeginResume(r, f, s)
      PROVE  RequestInv'
  BY <1>7, SessionsAssumption DEF BeginResume, FreshSid, Begins, store,
         history, TypeOK, RequestInv, SidInv, Known, Minting, Kinds, Steps,
         Loops
<1>8. ASSUME NEW r \in Requests, NEW f \in Families, NEW k \in
       0..MaxRotations, RotateReused(r, f, k)
      PROVE  RequestInv'
  BY <1>8, SessionsAssumption DEF RotateReused, Live, Deletes, Begins,
         history, TypeOK, RequestInv, SidInv, Known, Minting, Kinds, Steps,
         Loops
<1>9. ASSUME NEW r \in Requests, NEW f \in Families, NEW k \in
       0..MaxRotations, NEW s \in Sids, Rotate(r, f, k, s)
      PROVE  RequestInv'
  BY <1>9, SessionsAssumption DEF Rotate, Live, FreshSid, Begins, history,
         TypeOK, RequestInv, SidInv, Known, Minting, Kinds, Steps, Loops
<1>10. ASSUME NEW r \in Requests, ReadAuthority(r)
       PROVE  RequestInv'
  BY <1>10, SessionsAssumption DEF ReadAuthority, Admits, Goes, store,
         history, TypeOK, RequestInv, SidInv, Known, Minting, Kinds, Steps,
         Loops
<1>11. ASSUME NEW r \in Requests, RefuseAuthority(r)
       PROVE  RequestInv'
  BY <1>11, SessionsAssumption DEF RefuseAuthority, Admits, Ends, store,
         history, TypeOK, RequestInv, SidInv, Known, Minting, Kinds, Steps,
         Loops
<1>12. ASSUME NEW r \in Requests, RefuseRefresh(r)
       PROVE  RequestInv'
  BY <1>12, SessionsAssumption DEF RefuseRefresh, Admits, Goes, store,
         history, TypeOK, RequestInv, SidInv, Known, Minting, Kinds, Steps,
         Loops
<1>13. ASSUME NEW r \in Requests, WriteAuthority(r)
       PROVE  RequestInv'
  BY <1>13, SessionsAssumption DEF WriteAuthority, AdmitsWriter, Goes, store, work, history,
         TypeOK, RequestInv, SidInv, Known, Minting, Kinds, Steps, Loops
<1>14. ASSUME NEW r \in Requests, CreateFamily(r)
       PROVE  RequestInv'
  BY <1>14, SessionsAssumption DEF CreateFamily, Goes, work, history, TypeOK,
         RequestInv, SidInv, Known, Minting, Kinds, Steps, Loops
<1>15. ASSUME NEW r \in Requests, Mint(r)
       PROVE  RequestInv'
  BY <1>15, SessionsAssumption DEF Mint, Live, Goes, work, history, TypeOK,
         RequestInv, SidInv, Known, Minting, Kinds, Steps, Loops
<1>16. ASSUME NEW r \in Requests, RefuseMint(r)
       PROVE  RequestInv'
  BY <1>16, SessionsAssumption DEF RefuseMint, Live, Ends, store, history,
         TypeOK, RequestInv, SidInv, Known, Minting, Kinds, Steps, Loops
<1>17. ASSUME NEW r \in Requests, RegisterSession(r)
       PROVE  RequestInv'
  BY <1>17, SessionsAssumption DEF RegisterSession, Live, Goes, work, history,
         TypeOK, RequestInv, SidInv, Known, Minting, Kinds, Steps, Loops
<1>18. ASSUME NEW r \in Requests, RefuseSession(r)
       PROVE  RequestInv'
  BY <1>18, SessionsAssumption DEF RefuseSession, Live, Ends, history, TypeOK,
         RequestInv, SidInv, Known, Minting, Kinds, Steps, Loops
<1>19. ASSUME NEW r \in Requests, Answer(r)
       PROVE  RequestInv'
  BY <1>19, SessionsAssumption DEF Answer, Ends, history, TypeOK, RequestInv,
         SidInv, Known, Minting, Kinds, Steps, Loops
<1>20. ASSUME NEW r \in Requests, Snapshot(r)
       PROVE  RequestInv'
  BY <1>20, SessionsAssumption DEF Snapshot, Live, Goes, store, history,
         TypeOK, RequestInv, SidInv, Known, Minting, Kinds, Steps, Loops
<1>21. ASSUME NEW r \in Requests, ReadRecords(r)
       PROVE  RequestInv'
  BY <1>21, SessionsAssumption DEF ReadRecords, Live, Loses, Goes, TypeOK,
         RequestInv, SidInv, Known, Minting, Kinds, Steps, Loops
<1>22. ASSUME NEW r \in Requests, NEW f \in Families, NextFamily(r, f)
       PROVE  RequestInv'
  BY <1>22, SessionsAssumption DEF NextFamily, Goes, store, history, TypeOK,
         RequestInv, SidInv, Known, Minting, Kinds, Steps, Loops
<1>23. ASSUME NEW r \in Requests, ReadOwner(r)
       PROVE  RequestInv'
  BY <1>23, SessionsAssumption DEF ReadOwner, Live, Goes, store, history,
         TypeOK, RequestInv, SidInv, Known, Minting, Kinds, Steps, Loops
<1>24. ASSUME NEW r \in Requests, DeleteFamily(r)
       PROVE  RequestInv'
  BY <1>24, SessionsAssumption DEF DeleteFamily, Goes, work, history, TypeOK,
         RequestInv, SidInv, Known, Minting, Kinds, Steps, Loops
<1>25. ASSUME NEW r \in Requests, ReadSessions(r)
       PROVE  RequestInv'
  BY <1>25, SessionsAssumption DEF ReadSessions, Goes, store, history, TypeOK,
         RequestInv, SidInv, Known, Minting, Kinds, Steps, Loops
<1>26. ASSUME NEW r \in Requests, MarkSessions(r)
       PROVE  RequestInv'
  BY <1>26, SessionsAssumption DEF MarkSessions, ForgetFamily, Loops, Ends,
         TypeOK, RequestInv, SidInv, Known, Minting, Kinds, Steps, Loops
<1>27. ASSUME NEW r \in Requests, MarkAndGoOn(r)
       PROVE  RequestInv'
  BY <1>27, SessionsAssumption DEF MarkAndGoOn, ForgetFamily, Loops, Goes,
         TypeOK, RequestInv, SidInv, Known, Minting, Kinds, Steps, Loops
<1>28. ASSUME NEW r \in Requests, DropIndex(r)
       PROVE  RequestInv'
  BY <1>28, SessionsAssumption DEF DropIndex, Loses, Goes, work, TypeOK,
         RequestInv, SidInv, Known, Minting, Kinds, Steps, Loops
<1>29. ASSUME NEW r \in Requests, Announce(r)
       PROVE  RequestInv'
  BY <1>29, SessionsAssumption DEF Announce, Ends, store, history, TypeOK,
         RequestInv, SidInv, Known, Minting, Kinds, Steps, Loops
<1>30. ASSUME NEW r \in Requests, CommitRoles(r)
       PROVE  RequestInv'
  BY <1>30, SessionsAssumption DEF CommitRoles, Ends, history, TypeOK,
         RequestInv, SidInv, Known, Minting, Kinds, Steps, Loops
<1>31. ASSUME NEW r \in Requests, RollbackRoles(r)
       PROVE  RequestInv'
  BY <1>31, SessionsAssumption DEF RollbackRoles, Ends, store, history,
         TypeOK, RequestInv, SidInv, Known, Minting, Kinds, Steps, Loops
<1>32. ASSUME NEW r \in Requests, Crash(r)
       PROVE  RequestInv'
  BY <1>32, SessionsAssumption DEF Crash, Ends, store, TypeOK, RequestInv,
         SidInv, Known, Minting, Kinds, Steps, Loops
<1>33. ASSUME NEW S \in SUBSET Families, ListSessions(S)
       PROVE  RequestInv'
  BY <1>33, SessionsAssumption DEF ListSessions, Live, Loses, work, TypeOK,
         RequestInv, SidInv, Known, Minting, Kinds, Steps, Loops
<1>34. ASSUME NEW f \in Families, FamilyExpires(f)
       PROVE  RequestInv'
  BY <1>34, SessionsAssumption DEF FamilyExpires, Spent, work, history, Live,
         TypeOK, RequestInv, SidInv, Known, Minting, Kinds, Steps, Loops
<1>35. ASSUME NEW s \in Sids, TokenExpires(s)
       PROVE  RequestInv'
  BY <1>35, SessionsAssumption DEF TokenExpires, work, history, TypeOK,
         RequestInv, SidInv, Known, Minting, Kinds, Steps, Loops
<1> QED
  BY <1>1, <1>2, <1>3, <1>4, <1>5, <1>6, <1>7, <1>8, <1>9, <1>10, <1>11,
         <1>12, <1>13, <1>14, <1>15, <1>16, <1>17, <1>18, <1>19, <1>20, <1>21,
         <1>22, <1>23, <1>24, <1>25, <1>26, <1>27, <1>28, <1>29, <1>30, <1>31,
         <1>32, <1>33, <1>34, <1>35
  DEF Next, Begin, LockStep, MintStep, RevokeStep, Expiry

(* Session ids: a fresh id is in no other request, and the token a request
   signed stays as it signed it until it answers. *)
LEMMA SidStep ==
  ASSUME TypeOK, TypeOK', RequestInv, SidInv, Next
  PROVE  SidInv'
<1>1. ASSUME NEW r \in Requests, BeginEverywhere(r)
      PROVE  SidInv'
  BY <1>1, SessionsAssumption DEF BeginEverywhere, Begins, store, history,
         TypeOK, RequestInv, SidInv, Known, Minting, Loops
<1>2. ASSUME NEW r \in Requests, BeginRoles(r)
      PROVE  SidInv'
  BY <1>2, SessionsAssumption DEF BeginRoles, Begins, store, history, TypeOK,
         RequestInv, SidInv, Known, Minting, Loops
<1>3. ASSUME NEW r \in Requests, NEW f \in Families \union {None},
       BeginOthers(r, f)
      PROVE  SidInv'
  BY <1>3, SessionsAssumption DEF BeginOthers, Begins, store, history, TypeOK,
         RequestInv, SidInv, Known, Minting, Loops
<1>4. ASSUME NEW r \in Requests, NEW f \in Families, BeginRevoke(r, f)
      PROVE  SidInv'
  BY <1>4, SessionsAssumption DEF BeginRevoke, Begins, store, history, TypeOK,
         RequestInv, SidInv, Known, Minting, Loops
<1>5. ASSUME NEW r \in Requests, NEW f \in Families, RotateExpired(r, f)
      PROVE  SidInv'
  BY <1>5, SessionsAssumption DEF RotateExpired, Spent, Deletes, Live, Begins,
         history, TypeOK, RequestInv, SidInv, Known, Minting, Loops
<1>6. ASSUME NEW r \in Requests, NEW f \in Families, NEW s \in Sids,
       BeginOpen(r, f, s)
      PROVE  SidInv'
  BY <1>6, SessionsAssumption DEF BeginOpen, FreshFamily, FreshSid, Begins,
         store, history, TypeOK, RequestInv, SidInv, Known, Minting, Loops
<1>7. ASSUME NEW r \in Requests, NEW f \in Families, NEW s \in Sids,
       BeginResume(r, f, s)
      PROVE  SidInv'
  BY <1>7, SessionsAssumption DEF BeginResume, FreshSid, Begins, store,
         history, TypeOK, RequestInv, SidInv, Known, Minting, Loops
<1>8. ASSUME NEW r \in Requests, NEW f \in Families, NEW k \in
       0..MaxRotations, RotateReused(r, f, k)
      PROVE  SidInv'
  BY <1>8, SessionsAssumption DEF RotateReused, Live, Deletes, Begins,
         history, TypeOK, RequestInv, SidInv, Known, Minting, Loops
<1>9. ASSUME NEW r \in Requests, NEW f \in Families, NEW k \in
       0..MaxRotations, NEW s \in Sids, Rotate(r, f, k, s)
      PROVE  SidInv'
  BY <1>9, SessionsAssumption DEF Rotate, Live, FreshSid, Begins, history,
         TypeOK, RequestInv, SidInv, Known, Minting, Loops
<1>10. ASSUME NEW r \in Requests, ReadAuthority(r)
       PROVE  SidInv'
  BY <1>10, SessionsAssumption DEF ReadAuthority, Admits, Goes, store,
         history, TypeOK, RequestInv, SidInv, Known, Minting, Loops
<1>11. ASSUME NEW r \in Requests, RefuseAuthority(r)
       PROVE  SidInv'
  BY <1>11, SessionsAssumption DEF RefuseAuthority, Admits, Ends, store,
         history, TypeOK, RequestInv, SidInv, Known, Minting, Loops
<1>12. ASSUME NEW r \in Requests, RefuseRefresh(r)
       PROVE  SidInv'
  BY <1>12, SessionsAssumption DEF RefuseRefresh, Admits, Goes, store,
         history, TypeOK, RequestInv, SidInv, Known, Minting, Loops
<1>13. ASSUME NEW r \in Requests, WriteAuthority(r)
       PROVE  SidInv'
  BY <1>13, SessionsAssumption DEF WriteAuthority, AdmitsWriter, Goes, store, work, history,
         TypeOK, RequestInv, SidInv, Known, Minting, Loops
<1>14. ASSUME NEW r \in Requests, CreateFamily(r)
       PROVE  SidInv'
  BY <1>14, SessionsAssumption DEF CreateFamily, Goes, work, history, TypeOK,
         RequestInv, SidInv, Known, Minting, Loops
<1>15. ASSUME NEW r \in Requests, Mint(r)
       PROVE  SidInv'
  BY <1>15, SessionsAssumption DEF Mint, Live, Goes, work, history, TypeOK,
         RequestInv, SidInv, Known, Minting, Loops
<1>16. ASSUME NEW r \in Requests, RefuseMint(r)
       PROVE  SidInv'
  BY <1>16, SessionsAssumption DEF RefuseMint, Live, Ends, store, history,
         TypeOK, RequestInv, SidInv, Known, Minting, Loops
<1>17. ASSUME NEW r \in Requests, RegisterSession(r)
       PROVE  SidInv'
  BY <1>17, SessionsAssumption DEF RegisterSession, Live, Goes, work, history,
         TypeOK, RequestInv, SidInv, Known, Minting, Loops
<1>18. ASSUME NEW r \in Requests, RefuseSession(r)
       PROVE  SidInv'
  BY <1>18, SessionsAssumption DEF RefuseSession, Live, Ends, history, TypeOK,
         RequestInv, SidInv, Known, Minting, Loops
<1>19. ASSUME NEW r \in Requests, Answer(r)
       PROVE  SidInv'
  BY <1>19, SessionsAssumption DEF Answer, Ends, history, TypeOK, RequestInv,
         SidInv, Known, Minting, Loops
<1>20. ASSUME NEW r \in Requests, Snapshot(r)
       PROVE  SidInv'
  BY <1>20, SessionsAssumption DEF Snapshot, Live, Goes, store, history,
         TypeOK, RequestInv, SidInv, Known, Minting, Loops
<1>21. ASSUME NEW r \in Requests, ReadRecords(r)
       PROVE  SidInv'
  BY <1>21, SessionsAssumption DEF ReadRecords, Live, Loses, Goes, TypeOK,
         RequestInv, SidInv, Known, Minting, Loops
<1>22. ASSUME NEW r \in Requests, NEW f \in Families, NextFamily(r, f)
       PROVE  SidInv'
  BY <1>22, SessionsAssumption DEF NextFamily, Goes, store, history, TypeOK,
         RequestInv, SidInv, Known, Minting, Loops
<1>23. ASSUME NEW r \in Requests, ReadOwner(r)
       PROVE  SidInv'
  BY <1>23, SessionsAssumption DEF ReadOwner, Live, Goes, store, history,
         TypeOK, RequestInv, SidInv, Known, Minting, Loops
<1>24. ASSUME NEW r \in Requests, DeleteFamily(r)
       PROVE  SidInv'
  BY <1>24, SessionsAssumption DEF DeleteFamily, Goes, work, history, TypeOK,
         RequestInv, SidInv, Known, Minting, Loops
<1>25. ASSUME NEW r \in Requests, ReadSessions(r)
       PROVE  SidInv'
  BY <1>25, SessionsAssumption DEF ReadSessions, Goes, store, history, TypeOK,
         RequestInv, SidInv, Known, Minting, Loops
<1>26. ASSUME NEW r \in Requests, MarkSessions(r)
       PROVE  SidInv'
  BY <1>26, SessionsAssumption DEF MarkSessions, ForgetFamily, Loops, Ends,
         TypeOK, RequestInv, SidInv, Known, Minting, Loops
<1>27. ASSUME NEW r \in Requests, MarkAndGoOn(r)
       PROVE  SidInv'
  BY <1>27, SessionsAssumption DEF MarkAndGoOn, ForgetFamily, Loops, Goes,
         TypeOK, RequestInv, SidInv, Known, Minting, Loops
<1>28. ASSUME NEW r \in Requests, DropIndex(r)
       PROVE  SidInv'
  BY <1>28, SessionsAssumption DEF DropIndex, Loses, Goes, work, TypeOK,
         RequestInv, SidInv, Known, Minting, Loops
<1>29. ASSUME NEW r \in Requests, Announce(r)
       PROVE  SidInv'
  BY <1>29, SessionsAssumption DEF Announce, Ends, store, history, TypeOK,
         RequestInv, SidInv, Known, Minting, Loops
<1>30. ASSUME NEW r \in Requests, CommitRoles(r)
       PROVE  SidInv'
  BY <1>30, SessionsAssumption DEF CommitRoles, Ends, history, TypeOK,
         RequestInv, SidInv, Known, Minting, Loops
<1>31. ASSUME NEW r \in Requests, RollbackRoles(r)
       PROVE  SidInv'
  BY <1>31, SessionsAssumption DEF RollbackRoles, Ends, store, history,
         TypeOK, RequestInv, SidInv, Known, Minting, Loops
<1>32. ASSUME NEW r \in Requests, Crash(r)
       PROVE  SidInv'
  BY <1>32, SessionsAssumption DEF Crash, Ends, store, TypeOK, RequestInv,
         SidInv, Known, Minting, Loops
<1>33. ASSUME NEW S \in SUBSET Families, ListSessions(S)
       PROVE  SidInv'
  BY <1>33, SessionsAssumption DEF ListSessions, Live, Loses, work, TypeOK,
         RequestInv, SidInv, Known, Minting, Loops
<1>34. ASSUME NEW f \in Families, FamilyExpires(f)
       PROVE  SidInv'
  BY <1>34, SessionsAssumption DEF FamilyExpires, Spent, work, history, Live,
         TypeOK, RequestInv, SidInv, Known, Minting, Loops
<1>35. ASSUME NEW s \in Sids, TokenExpires(s)
       PROVE  SidInv'
  BY <1>35, SessionsAssumption DEF TokenExpires, work, history, TypeOK,
         RequestInv, SidInv, Known, Minting, Loops
<1> QED
  BY <1>1, <1>2, <1>3, <1>4, <1>5, <1>6, <1>7, <1>8, <1>9, <1>10, <1>11,
         <1>12, <1>13, <1>14, <1>15, <1>16, <1>17, <1>18, <1>19, <1>20, <1>21,
         <1>22, <1>23, <1>24, <1>25, <1>26, <1>27, <1>28, <1>29, <1>30, <1>31,
         <1>32, <1>33, <1>34, <1>35
  DEF Next, Begin, LockStep, MintStep, RevokeStep, Expiry

(* Lists: a session is listed while its family lives, and leaves the list only
   by being marked. *)
LEMMA ListStep ==
  ASSUME TypeOK, TypeOK', RequestInv, SidInv, ListInv, Next
  PROVE  ListInv'
<1>1. ASSUME NEW r \in Requests, BeginEverywhere(r)
      PROVE  ListInv'
  BY <1>1, SessionsAssumption DEF BeginEverywhere, Begins, store, history,
         TypeOK, RequestInv, SidInv, ListInv, Known, Minting, Loops
<1>2. ASSUME NEW r \in Requests, BeginRoles(r)
      PROVE  ListInv'
  BY <1>2, SessionsAssumption DEF BeginRoles, Begins, store, history, TypeOK,
         RequestInv, SidInv, ListInv, Known, Minting, Loops
<1>3. ASSUME NEW r \in Requests, NEW f \in Families \union {None},
       BeginOthers(r, f)
      PROVE  ListInv'
  BY <1>3, SessionsAssumption DEF BeginOthers, Begins, store, history, TypeOK,
         RequestInv, SidInv, ListInv, Known, Minting, Loops
<1>4. ASSUME NEW r \in Requests, NEW f \in Families, BeginRevoke(r, f)
      PROVE  ListInv'
  BY <1>4, SessionsAssumption DEF BeginRevoke, Begins, store, history, TypeOK,
         RequestInv, SidInv, ListInv, Known, Minting, Loops
<1>5. ASSUME NEW r \in Requests, NEW f \in Families, RotateExpired(r, f)
      PROVE  ListInv'
  BY <1>5, SessionsAssumption DEF RotateExpired, Spent, Deletes, Live, Begins,
         history, TypeOK, RequestInv, SidInv, ListInv, Known, Minting, Loops
<1>6. ASSUME NEW r \in Requests, NEW f \in Families, NEW s \in Sids,
       BeginOpen(r, f, s)
      PROVE  ListInv'
  BY <1>6, SessionsAssumption DEF BeginOpen, FreshFamily, FreshSid, Begins,
         store, history, TypeOK, RequestInv, SidInv, ListInv, Known, Minting,
         Loops
<1>7. ASSUME NEW r \in Requests, NEW f \in Families, NEW s \in Sids,
       BeginResume(r, f, s)
      PROVE  ListInv'
  BY <1>7, SessionsAssumption DEF BeginResume, FreshSid, Begins, store,
         history, TypeOK, RequestInv, SidInv, ListInv, Known, Minting, Loops
<1>8. ASSUME NEW r \in Requests, NEW f \in Families, NEW k \in
       0..MaxRotations, RotateReused(r, f, k)
      PROVE  ListInv'
  BY <1>8, SessionsAssumption DEF RotateReused, Live, Deletes, Begins,
         history, TypeOK, RequestInv, SidInv, ListInv, Known, Minting, Loops
<1>9. ASSUME NEW r \in Requests, NEW f \in Families, NEW k \in
       0..MaxRotations, NEW s \in Sids, Rotate(r, f, k, s)
      PROVE  ListInv'
  BY <1>9, SessionsAssumption DEF Rotate, Live, FreshSid, Begins, history,
         TypeOK, RequestInv, SidInv, ListInv, Known, Minting, Loops
<1>10. ASSUME NEW r \in Requests, ReadAuthority(r)
       PROVE  ListInv'
  BY <1>10, SessionsAssumption DEF ReadAuthority, Admits, Goes, store,
         history, TypeOK, RequestInv, SidInv, ListInv, Known, Minting, Loops
<1>11. ASSUME NEW r \in Requests, RefuseAuthority(r)
       PROVE  ListInv'
  BY <1>11, SessionsAssumption DEF RefuseAuthority, Admits, Ends, store,
         history, TypeOK, RequestInv, SidInv, ListInv, Known, Minting, Loops
<1>12. ASSUME NEW r \in Requests, RefuseRefresh(r)
       PROVE  ListInv'
  BY <1>12, SessionsAssumption DEF RefuseRefresh, Admits, Goes, store,
         history, TypeOK, RequestInv, SidInv, ListInv, Known, Minting, Loops
<1>13. ASSUME NEW r \in Requests, WriteAuthority(r)
       PROVE  ListInv'
  BY <1>13, SessionsAssumption DEF WriteAuthority, AdmitsWriter, Goes, store, work, history,
         TypeOK, RequestInv, SidInv, ListInv, Known, Minting, Loops
<1>14. ASSUME NEW r \in Requests, CreateFamily(r)
       PROVE  ListInv'
  BY <1>14, SessionsAssumption DEF CreateFamily, Goes, work, history, TypeOK,
         RequestInv, SidInv, ListInv, Known, Minting, Loops
<1>15. ASSUME NEW r \in Requests, Mint(r)
       PROVE  ListInv'
  BY <1>15, SessionsAssumption DEF Mint, Live, Goes, work, history, TypeOK,
         RequestInv, SidInv, ListInv, Known, Minting, Loops
<1>16. ASSUME NEW r \in Requests, RefuseMint(r)
       PROVE  ListInv'
  BY <1>16, SessionsAssumption DEF RefuseMint, Live, Ends, store, history,
         TypeOK, RequestInv, SidInv, ListInv, Known, Minting, Loops
<1>17. ASSUME NEW r \in Requests, RegisterSession(r)
       PROVE  ListInv'
  BY <1>17, SessionsAssumption DEF RegisterSession, Live, Goes, work, history,
         TypeOK, RequestInv, SidInv, ListInv, Known, Minting, Loops
<1>18. ASSUME NEW r \in Requests, RefuseSession(r)
       PROVE  ListInv'
  BY <1>18, SessionsAssumption DEF RefuseSession, Live, Ends, history, TypeOK,
         RequestInv, SidInv, ListInv, Known, Minting, Loops
<1>19. ASSUME NEW r \in Requests, Answer(r)
       PROVE  ListInv'
  BY <1>19, SessionsAssumption DEF Answer, Ends, history, TypeOK, RequestInv,
         SidInv, ListInv, Known, Minting, Loops
<1>20. ASSUME NEW r \in Requests, Snapshot(r)
       PROVE  ListInv'
  BY <1>20, SessionsAssumption DEF Snapshot, Live, Goes, store, history,
         TypeOK, RequestInv, SidInv, ListInv, Known, Minting, Loops
<1>21. ASSUME NEW r \in Requests, ReadRecords(r)
       PROVE  ListInv'
  BY <1>21, SessionsAssumption DEF ReadRecords, Live, Loses, Goes, TypeOK,
         RequestInv, SidInv, ListInv, Known, Minting, Loops
<1>22. ASSUME NEW r \in Requests, NEW f \in Families, NextFamily(r, f)
       PROVE  ListInv'
  BY <1>22, SessionsAssumption DEF NextFamily, Goes, store, history, TypeOK,
         RequestInv, SidInv, ListInv, Known, Minting, Loops
<1>23. ASSUME NEW r \in Requests, ReadOwner(r)
       PROVE  ListInv'
  BY <1>23, SessionsAssumption DEF ReadOwner, Live, Goes, store, history,
         TypeOK, RequestInv, SidInv, ListInv, Known, Minting, Loops
<1>24. ASSUME NEW r \in Requests, DeleteFamily(r)
       PROVE  ListInv'
  BY <1>24, SessionsAssumption DEF DeleteFamily, Goes, work, history, TypeOK,
         RequestInv, SidInv, ListInv, Known, Minting, Loops
<1>25. ASSUME NEW r \in Requests, ReadSessions(r)
       PROVE  ListInv'
  BY <1>25, SessionsAssumption DEF ReadSessions, Goes, store, history, TypeOK,
         RequestInv, SidInv, ListInv, Known, Minting, Loops
<1>26. ASSUME NEW r \in Requests, MarkSessions(r)
       PROVE  ListInv'
  BY <1>26, SessionsAssumption DEF MarkSessions, ForgetFamily, Loops, Ends,
         TypeOK, RequestInv, SidInv, ListInv, Known, Minting, Loops
<1>27. ASSUME NEW r \in Requests, MarkAndGoOn(r)
       PROVE  ListInv'
  BY <1>27, SessionsAssumption DEF MarkAndGoOn, ForgetFamily, Loops, Goes,
         TypeOK, RequestInv, SidInv, ListInv, Known, Minting, Loops
<1>28. ASSUME NEW r \in Requests, DropIndex(r)
       PROVE  ListInv'
  BY <1>28, SessionsAssumption DEF DropIndex, Loses, Goes, work, TypeOK,
         RequestInv, SidInv, ListInv, Known, Minting, Loops
<1>29. ASSUME NEW r \in Requests, Announce(r)
       PROVE  ListInv'
  BY <1>29, SessionsAssumption DEF Announce, Ends, store, history, TypeOK,
         RequestInv, SidInv, ListInv, Known, Minting, Loops
<1>30. ASSUME NEW r \in Requests, CommitRoles(r)
       PROVE  ListInv'
  BY <1>30, SessionsAssumption DEF CommitRoles, Ends, history, TypeOK,
         RequestInv, SidInv, ListInv, Known, Minting, Loops
<1>31. ASSUME NEW r \in Requests, RollbackRoles(r)
       PROVE  ListInv'
  BY <1>31, SessionsAssumption DEF RollbackRoles, Ends, store, history,
         TypeOK, RequestInv, SidInv, ListInv, Known, Minting, Loops
<1>32. ASSUME NEW r \in Requests, Crash(r)
       PROVE  ListInv'
  BY <1>32, SessionsAssumption DEF Crash, Ends, store, TypeOK, RequestInv,
         SidInv, ListInv, Known, Minting, Loops
<1>33. ASSUME NEW S \in SUBSET Families, ListSessions(S)
       PROVE  ListInv'
  BY <1>33, SessionsAssumption DEF ListSessions, Live, Loses, work, TypeOK,
         RequestInv, SidInv, ListInv, Known, Minting, Loops
<1>34. ASSUME NEW f \in Families, FamilyExpires(f)
       PROVE  ListInv'
  BY <1>34, SessionsAssumption DEF FamilyExpires, Spent, work, history, Live,
         TypeOK, RequestInv, SidInv, ListInv, Known, Minting, Loops
<1>35. ASSUME NEW s \in Sids, TokenExpires(s)
       PROVE  ListInv'
  BY <1>35, SessionsAssumption DEF TokenExpires, work, history, TypeOK,
         RequestInv, SidInv, ListInv, Known, Minting, Loops
<1> QED
  BY <1>1, <1>2, <1>3, <1>4, <1>5, <1>6, <1>7, <1>8, <1>9, <1>10, <1>11,
         <1>12, <1>13, <1>14, <1>15, <1>16, <1>17, <1>18, <1>19, <1>20, <1>21,
         <1>22, <1>23, <1>24, <1>25, <1>26, <1>27, <1>28, <1>29, <1>30, <1>31,
         <1>32, <1>33, <1>34, <1>35
  DEF Next, Begin, LockStep, MintStep, RevokeStep, Expiry

(* The lock: it is granted as Postgres grants it, and the roles are written
   by its writer only. *)
LEMMA AuthorityStep ==
  ASSUME TypeOK, TypeOK', RequestInv, LockInv, Next
  PROVE  LockInv'
<1>1. ASSUME NEW r \in Requests, BeginEverywhere(r)
      PROVE  LockInv'
  BY <1>1, SessionsAssumption DEF BeginEverywhere, Begins, store, history,
         TypeOK, RequestInv, LockInv, Reading, Writing, Minting, Loops
<1>2. ASSUME NEW r \in Requests, BeginRoles(r)
      PROVE  LockInv'
  BY <1>2, SessionsAssumption DEF BeginRoles, Begins, store, history, TypeOK,
         RequestInv, LockInv, Reading, Writing, Minting, Loops
<1>3. ASSUME NEW r \in Requests, NEW f \in Families \union {None},
       BeginOthers(r, f)
      PROVE  LockInv'
  BY <1>3, SessionsAssumption DEF BeginOthers, Begins, store, history, TypeOK,
         RequestInv, LockInv, Reading, Writing, Minting, Loops
<1>4. ASSUME NEW r \in Requests, NEW f \in Families, BeginRevoke(r, f)
      PROVE  LockInv'
  BY <1>4, SessionsAssumption DEF BeginRevoke, Begins, store, history, TypeOK,
         RequestInv, LockInv, Reading, Writing, Minting, Loops
<1>5. ASSUME NEW r \in Requests, NEW f \in Families, RotateExpired(r, f)
      PROVE  LockInv'
  BY <1>5, SessionsAssumption DEF RotateExpired, Spent, Deletes, Live, Begins,
         history, TypeOK, RequestInv, LockInv, Reading, Writing, Minting,
         Loops
<1>6. ASSUME NEW r \in Requests, NEW f \in Families, NEW s \in Sids,
       BeginOpen(r, f, s)
      PROVE  LockInv'
  BY <1>6, SessionsAssumption DEF BeginOpen, FreshFamily, FreshSid, Begins,
         store, history, TypeOK, RequestInv, LockInv, Reading, Writing,
         Minting, Loops
<1>7. ASSUME NEW r \in Requests, NEW f \in Families, NEW s \in Sids,
       BeginResume(r, f, s)
      PROVE  LockInv'
  BY <1>7, SessionsAssumption DEF BeginResume, FreshSid, Begins, store,
         history, TypeOK, RequestInv, LockInv, Reading, Writing, Minting,
         Loops
<1>8. ASSUME NEW r \in Requests, NEW f \in Families, NEW k \in
       0..MaxRotations, RotateReused(r, f, k)
      PROVE  LockInv'
  BY <1>8, SessionsAssumption DEF RotateReused, Live, Deletes, Begins,
         history, TypeOK, RequestInv, LockInv, Reading, Writing, Minting,
         Loops
<1>9. ASSUME NEW r \in Requests, NEW f \in Families, NEW k \in
       0..MaxRotations, NEW s \in Sids, Rotate(r, f, k, s)
      PROVE  LockInv'
  BY <1>9, SessionsAssumption DEF Rotate, Live, FreshSid, Begins, history,
         TypeOK, RequestInv, LockInv, Reading, Writing, Minting, Loops
<1>10. ASSUME NEW r \in Requests, ReadAuthority(r)
       PROVE  LockInv'
  BY <1>10, SessionsAssumption DEF ReadAuthority, Admits, Goes, store,
         history, TypeOK, RequestInv, LockInv, Reading, Writing, Minting,
         Loops
<1>11. ASSUME NEW r \in Requests, RefuseAuthority(r)
       PROVE  LockInv'
  BY <1>11, SessionsAssumption DEF RefuseAuthority, Admits, Ends, store,
         history, TypeOK, RequestInv, LockInv, Reading, Writing, Minting,
         Loops
<1>12. ASSUME NEW r \in Requests, RefuseRefresh(r)
       PROVE  LockInv'
  BY <1>12, SessionsAssumption DEF RefuseRefresh, Admits, Goes, store,
         history, TypeOK, RequestInv, LockInv, Reading, Writing, Minting,
         Loops
<1>13. ASSUME NEW r \in Requests, WriteAuthority(r)
       PROVE  LockInv'
  BY <1>13, SessionsAssumption DEF WriteAuthority, AdmitsWriter, Goes, store, work, history,
         TypeOK, RequestInv, LockInv, Reading, Writing, Minting, Loops
<1>14. ASSUME NEW r \in Requests, CreateFamily(r)
       PROVE  LockInv'
  BY <1>14, SessionsAssumption DEF CreateFamily, Goes, work, history, TypeOK,
         RequestInv, LockInv, Reading, Writing, Minting, Loops
<1>15. ASSUME NEW r \in Requests, Mint(r)
       PROVE  LockInv'
  BY <1>15, SessionsAssumption DEF Mint, Live, Goes, work, history, TypeOK,
         RequestInv, LockInv, Reading, Writing, Minting, Loops
<1>16. ASSUME NEW r \in Requests, RefuseMint(r)
       PROVE  LockInv'
  BY <1>16, SessionsAssumption DEF RefuseMint, Live, Ends, store, history,
         TypeOK, RequestInv, LockInv, Reading, Writing, Minting, Loops
<1>17. ASSUME NEW r \in Requests, RegisterSession(r)
       PROVE  LockInv'
  BY <1>17, SessionsAssumption DEF RegisterSession, Live, Goes, work, history,
         TypeOK, RequestInv, LockInv, Reading, Writing, Minting, Loops
<1>18. ASSUME NEW r \in Requests, RefuseSession(r)
       PROVE  LockInv'
  BY <1>18, SessionsAssumption DEF RefuseSession, Live, Ends, history, TypeOK,
         RequestInv, LockInv, Reading, Writing, Minting, Loops
<1>19. ASSUME NEW r \in Requests, Answer(r)
       PROVE  LockInv'
  BY <1>19, SessionsAssumption DEF Answer, Ends, history, TypeOK, RequestInv,
         LockInv, Reading, Writing, Minting, Loops
<1>20. ASSUME NEW r \in Requests, Snapshot(r)
       PROVE  LockInv'
  BY <1>20, SessionsAssumption DEF Snapshot, Live, Goes, store, history,
         TypeOK, RequestInv, LockInv, Reading, Writing, Minting, Loops
<1>21. ASSUME NEW r \in Requests, ReadRecords(r)
       PROVE  LockInv'
  BY <1>21, SessionsAssumption DEF ReadRecords, Live, Loses, Goes, TypeOK,
         RequestInv, LockInv, Reading, Writing, Minting, Loops
<1>22. ASSUME NEW r \in Requests, NEW f \in Families, NextFamily(r, f)
       PROVE  LockInv'
  BY <1>22, SessionsAssumption DEF NextFamily, Goes, store, history, TypeOK,
         RequestInv, LockInv, Reading, Writing, Minting, Loops
<1>23. ASSUME NEW r \in Requests, ReadOwner(r)
       PROVE  LockInv'
  BY <1>23, SessionsAssumption DEF ReadOwner, Live, Goes, store, history,
         TypeOK, RequestInv, LockInv, Reading, Writing, Minting, Loops
<1>24. ASSUME NEW r \in Requests, DeleteFamily(r)
       PROVE  LockInv'
  BY <1>24, SessionsAssumption DEF DeleteFamily, Goes, work, history, TypeOK,
         RequestInv, LockInv, Reading, Writing, Minting, Loops
<1>25. ASSUME NEW r \in Requests, ReadSessions(r)
       PROVE  LockInv'
  BY <1>25, SessionsAssumption DEF ReadSessions, Goes, store, history, TypeOK,
         RequestInv, LockInv, Reading, Writing, Minting, Loops
<1>26. ASSUME NEW r \in Requests, MarkSessions(r)
       PROVE  LockInv'
  BY <1>26, SessionsAssumption DEF MarkSessions, ForgetFamily, Loops, Ends,
         TypeOK, RequestInv, LockInv, Reading, Writing, Minting, Loops
<1>27. ASSUME NEW r \in Requests, MarkAndGoOn(r)
       PROVE  LockInv'
  BY <1>27, SessionsAssumption DEF MarkAndGoOn, ForgetFamily, Loops, Goes,
         TypeOK, RequestInv, LockInv, Reading, Writing, Minting, Loops
<1>28. ASSUME NEW r \in Requests, DropIndex(r)
       PROVE  LockInv'
  BY <1>28, SessionsAssumption DEF DropIndex, Loses, Goes, work, TypeOK,
         RequestInv, LockInv, Reading, Writing, Minting, Loops
<1>29. ASSUME NEW r \in Requests, Announce(r)
       PROVE  LockInv'
  BY <1>29, SessionsAssumption DEF Announce, Ends, store, history, TypeOK,
         RequestInv, LockInv, Reading, Writing, Minting, Loops
<1>30. ASSUME NEW r \in Requests, CommitRoles(r)
       PROVE  LockInv'
  BY <1>30, SessionsAssumption DEF CommitRoles, Ends, history, TypeOK,
         RequestInv, LockInv, Reading, Writing, Minting, Loops
<1>31. ASSUME NEW r \in Requests, RollbackRoles(r)
       PROVE  LockInv'
  BY <1>31, SessionsAssumption DEF RollbackRoles, Ends, store, history,
         TypeOK, RequestInv, LockInv, Reading, Writing, Minting, Loops
<1>32. ASSUME NEW r \in Requests, Crash(r)
       PROVE  LockInv'
  BY <1>32, SessionsAssumption DEF Crash, Ends, store, TypeOK, RequestInv,
         LockInv, Reading, Writing, Minting, Loops
<1>33. ASSUME NEW S \in SUBSET Families, ListSessions(S)
       PROVE  LockInv'
  BY <1>33, SessionsAssumption DEF ListSessions, Live, Loses, work, TypeOK,
         RequestInv, LockInv, Reading, Writing, Minting, Loops
<1>34. ASSUME NEW f \in Families, FamilyExpires(f)
       PROVE  LockInv'
  BY <1>34, SessionsAssumption DEF FamilyExpires, Spent, work, history, Live,
         TypeOK, RequestInv, LockInv, Reading, Writing, Minting, Loops
<1>35. ASSUME NEW s \in Sids, TokenExpires(s)
       PROVE  LockInv'
  BY <1>35, SessionsAssumption DEF TokenExpires, work, history, TypeOK,
         RequestInv, LockInv, Reading, Writing, Minting, Loops
<1> QED
  BY <1>1, <1>2, <1>3, <1>4, <1>5, <1>6, <1>7, <1>8, <1>9, <1>10, <1>11,
         <1>12, <1>13, <1>14, <1>15, <1>16, <1>17, <1>18, <1>19, <1>20, <1>21,
         <1>22, <1>23, <1>24, <1>25, <1>26, <1>27, <1>28, <1>29, <1>30, <1>31,
         <1>32, <1>33, <1>34, <1>35
  DEF Next, Begin, LockStep, MintStep, RevokeStep, Expiry

(* The index: a family leaves it by being ended, or is counted as lost, and
   no family is created under a writer. *)
LEMMA IndexStep ==
  ASSUME TypeOK, TypeOK', RequestInv, LockInv, ListInv, IndexInv, Next
  PROVE  IndexInv'
<1>1. ASSUME NEW r \in Requests, BeginEverywhere(r)
      PROVE  IndexInv'
  BY <1>1, SessionsAssumption DEF BeginEverywhere, Begins, store, history,
         TypeOK, RequestInv, LockInv, IndexInv, Reading, Writing, Remaining,
         Revoking, Known, Minting, Loops
<1>2. ASSUME NEW r \in Requests, BeginRoles(r)
      PROVE  IndexInv'
  BY <1>2, SessionsAssumption DEF BeginRoles, Begins, store, history, TypeOK,
         RequestInv, LockInv, IndexInv, Reading, Writing, Remaining, Revoking,
         Known, Minting, Loops
<1>3. ASSUME NEW r \in Requests, NEW f \in Families \union {None},
       BeginOthers(r, f)
      PROVE  IndexInv'
  BY <1>3, SessionsAssumption DEF BeginOthers, Begins, store, history, TypeOK,
         RequestInv, LockInv, IndexInv, Reading, Writing, Remaining, Revoking,
         Known, Minting, Loops
<1>4. ASSUME NEW r \in Requests, NEW f \in Families, BeginRevoke(r, f)
      PROVE  IndexInv'
  BY <1>4, SessionsAssumption DEF BeginRevoke, Begins, store, history, TypeOK,
         RequestInv, LockInv, IndexInv, Reading, Writing, Remaining, Revoking,
         Known, Minting, Loops
<1>5. ASSUME NEW r \in Requests, NEW f \in Families, RotateExpired(r, f)
      PROVE  IndexInv'
  BY <1>5, SessionsAssumption DEF RotateExpired, Spent, Deletes, Live, Begins,
         history, TypeOK, RequestInv, LockInv, IndexInv, Reading, Writing,
         Remaining, Revoking, Known, Minting, Loops
<1>6. ASSUME NEW r \in Requests, NEW f \in Families, NEW s \in Sids,
       BeginOpen(r, f, s)
      PROVE  IndexInv'
  BY <1>6, SessionsAssumption DEF BeginOpen, FreshFamily, FreshSid, Begins,
         store, history, TypeOK, RequestInv, LockInv, IndexInv, Reading,
         Writing, Remaining, Revoking, Known, Minting, Loops
<1>7. ASSUME NEW r \in Requests, NEW f \in Families, NEW s \in Sids,
       BeginResume(r, f, s)
      PROVE  IndexInv'
  BY <1>7, SessionsAssumption DEF BeginResume, FreshSid, Begins, store,
         history, TypeOK, RequestInv, LockInv, IndexInv, Reading, Writing,
         Remaining, Revoking, Known, Minting, Loops
<1>8. ASSUME NEW r \in Requests, NEW f \in Families, NEW k \in
       0..MaxRotations, RotateReused(r, f, k)
      PROVE  IndexInv'
  BY <1>8, SessionsAssumption DEF RotateReused, Live, Deletes, Begins,
         history, TypeOK, RequestInv, LockInv, IndexInv, Reading, Writing,
         Remaining, Revoking, Known, Minting, Loops
<1>9. ASSUME NEW r \in Requests, NEW f \in Families, NEW k \in
       0..MaxRotations, NEW s \in Sids, Rotate(r, f, k, s)
      PROVE  IndexInv'
  BY <1>9, SessionsAssumption DEF Rotate, Live, FreshSid, Begins, history,
         TypeOK, RequestInv, LockInv, IndexInv, Reading, Writing, Remaining,
         Revoking, Known, Minting, Loops
<1>10. ASSUME NEW r \in Requests, ReadAuthority(r)
       PROVE  IndexInv'
  BY <1>10, SessionsAssumption DEF ReadAuthority, Admits, Goes, store,
         history, TypeOK, RequestInv, LockInv, IndexInv, Reading, Writing,
         Remaining, Revoking, Known, Minting, Loops
<1>11. ASSUME NEW r \in Requests, RefuseAuthority(r)
       PROVE  IndexInv'
  BY <1>11, SessionsAssumption DEF RefuseAuthority, Admits, Ends, store,
         history, TypeOK, RequestInv, LockInv, IndexInv, Reading, Writing,
         Remaining, Revoking, Known, Minting, Loops
<1>12. ASSUME NEW r \in Requests, RefuseRefresh(r)
       PROVE  IndexInv'
  BY <1>12, SessionsAssumption DEF RefuseRefresh, Admits, Goes, store,
         history, TypeOK, RequestInv, LockInv, IndexInv, Reading, Writing,
         Remaining, Revoking, Known, Minting, Loops
<1>13. ASSUME NEW r \in Requests, WriteAuthority(r)
       PROVE  IndexInv'
  BY <1>13, SessionsAssumption DEF WriteAuthority, AdmitsWriter, Goes, store, work, history,
         TypeOK, RequestInv, LockInv, IndexInv, Reading, Writing, Remaining,
         Revoking, Known, Minting, Loops
<1>14. ASSUME NEW r \in Requests, CreateFamily(r)
       PROVE  IndexInv'
  BY <1>14, SessionsAssumption DEF CreateFamily, Goes, work, history, TypeOK,
         RequestInv, LockInv, IndexInv, Reading, Writing, Remaining, Revoking,
         Known, Minting, Loops
<1>15. ASSUME NEW r \in Requests, Mint(r)
       PROVE  IndexInv'
  BY <1>15, SessionsAssumption DEF Mint, Live, Goes, work, history, TypeOK,
         RequestInv, LockInv, IndexInv, Reading, Writing, Remaining, Revoking,
         Known, Minting, Loops
<1>16. ASSUME NEW r \in Requests, RefuseMint(r)
       PROVE  IndexInv'
  BY <1>16, SessionsAssumption DEF RefuseMint, Live, Ends, store, history,
         TypeOK, RequestInv, LockInv, IndexInv, Reading, Writing, Remaining,
         Revoking, Known, Minting, Loops
<1>17. ASSUME NEW r \in Requests, RegisterSession(r)
       PROVE  IndexInv'
  BY <1>17, SessionsAssumption DEF RegisterSession, Live, Goes, work, history,
         TypeOK, RequestInv, LockInv, IndexInv, Reading, Writing, Remaining,
         Revoking, Known, Minting, Loops
<1>18. ASSUME NEW r \in Requests, RefuseSession(r)
       PROVE  IndexInv'
  BY <1>18, SessionsAssumption DEF RefuseSession, Live, Ends, history, TypeOK,
         RequestInv, LockInv, IndexInv, Reading, Writing, Remaining, Revoking,
         Known, Minting, Loops
<1>19. ASSUME NEW r \in Requests, Answer(r)
       PROVE  IndexInv'
  BY <1>19, SessionsAssumption DEF Answer, Ends, history, TypeOK, RequestInv,
         LockInv, IndexInv, Reading, Writing, Remaining, Revoking, Known,
         Minting, Loops
<1>20. ASSUME NEW r \in Requests, Snapshot(r)
       PROVE  IndexInv'
  BY <1>20, SessionsAssumption DEF Snapshot, Live, Goes, store, history,
         TypeOK, RequestInv, LockInv, IndexInv, Reading, Writing, Remaining,
         Revoking, Known, Minting, Loops
<1>21. ASSUME NEW r \in Requests, ReadRecords(r)
       PROVE  IndexInv'
  BY <1>21, SessionsAssumption DEF ReadRecords, Live, Loses, Goes, TypeOK,
         RequestInv, LockInv, IndexInv, Reading, Writing, Remaining, Revoking,
         Known, Minting, Loops
<1>22. ASSUME NEW r \in Requests, NEW f \in Families, NextFamily(r, f)
       PROVE  IndexInv'
  BY <1>22, SessionsAssumption DEF NextFamily, Goes, store, history, TypeOK,
         RequestInv, LockInv, IndexInv, Reading, Writing, Remaining, Revoking,
         Known, Minting, Loops
<1>23. ASSUME NEW r \in Requests, ReadOwner(r)
       PROVE  IndexInv'
  BY <1>23, SessionsAssumption DEF ReadOwner, Live, Goes, store, history,
         TypeOK, RequestInv, LockInv, IndexInv, Reading, Writing, Remaining,
         Revoking, Known, Minting, Loops
<1>24. ASSUME NEW r \in Requests, DeleteFamily(r)
       PROVE  IndexInv'
  BY <1>24, SessionsAssumption DEF DeleteFamily, Goes, work, history, TypeOK,
         RequestInv, LockInv, IndexInv, Reading, Writing, Remaining, Revoking,
         Known, Minting, Loops
<1>25. ASSUME NEW r \in Requests, ReadSessions(r)
       PROVE  IndexInv'
  BY <1>25, SessionsAssumption DEF ReadSessions, Goes, store, history, TypeOK,
         RequestInv, LockInv, IndexInv, Reading, Writing, Remaining, Revoking,
         Known, Minting, Loops
<1>26. ASSUME NEW r \in Requests, MarkSessions(r)
       PROVE  IndexInv'
  BY <1>26, SessionsAssumption DEF MarkSessions, ForgetFamily, Loops, Ends,
         TypeOK, RequestInv, LockInv, IndexInv, Reading, Writing, Remaining,
         Revoking, Known, Minting, Loops
<1>27. ASSUME NEW r \in Requests, MarkAndGoOn(r)
       PROVE  IndexInv'
  BY <1>27, SessionsAssumption DEF MarkAndGoOn, ForgetFamily, Loops, Goes,
         TypeOK, RequestInv, LockInv, IndexInv, Reading, Writing, Remaining,
         Revoking, Known, Minting, Loops
<1>28. ASSUME NEW r \in Requests, DropIndex(r)
       PROVE  IndexInv'
  BY <1>28, SessionsAssumption DEF DropIndex, Loses, Goes, work, TypeOK,
         RequestInv, LockInv, IndexInv, Reading, Writing, Remaining, Revoking,
         Known, Minting, Loops
<1>29. ASSUME NEW r \in Requests, Announce(r)
       PROVE  IndexInv'
  BY <1>29, SessionsAssumption DEF Announce, Ends, store, history, TypeOK,
         RequestInv, LockInv, IndexInv, Reading, Writing, Remaining, Revoking,
         Known, Minting, Loops
<1>30. ASSUME NEW r \in Requests, CommitRoles(r)
       PROVE  IndexInv'
  BY <1>30, SessionsAssumption DEF CommitRoles, Ends, history, TypeOK,
         RequestInv, LockInv, IndexInv, Reading, Writing, Remaining, Revoking,
         Known, Minting, Loops
<1>31. ASSUME NEW r \in Requests, RollbackRoles(r)
       PROVE  IndexInv'
  BY <1>31, SessionsAssumption DEF RollbackRoles, Ends, store, history,
         TypeOK, RequestInv, LockInv, IndexInv, Reading, Writing, Remaining,
         Revoking, Known, Minting, Loops
<1>32. ASSUME NEW r \in Requests, Crash(r)
       PROVE  IndexInv'
  BY <1>32, SessionsAssumption DEF Crash, Ends, store, TypeOK, RequestInv,
         LockInv, IndexInv, Reading, Writing, Remaining, Revoking, Known,
         Minting, Loops
<1>33. ASSUME NEW S \in SUBSET Families, ListSessions(S)
       PROVE  IndexInv'
  BY <1>33, SessionsAssumption DEF ListSessions, Live, Loses, work, TypeOK,
         RequestInv, LockInv, IndexInv, Reading, Writing, Remaining, Revoking,
         Known, Minting, Loops
<1>34. ASSUME NEW f \in Families, FamilyExpires(f)
       PROVE  IndexInv'
  BY <1>34, SessionsAssumption DEF FamilyExpires, Spent, work, history, Live,
         TypeOK, RequestInv, LockInv, IndexInv, Reading, Writing, Remaining,
         Revoking, Known, Minting, Loops
<1>35. ASSUME NEW s \in Sids, TokenExpires(s)
       PROVE  IndexInv'
  BY <1>35, SessionsAssumption DEF TokenExpires, work, history, TypeOK,
         RequestInv, LockInv, IndexInv, Reading, Writing, Remaining, Revoking,
         Known, Minting, Loops
<1> QED
  BY <1>1, <1>2, <1>3, <1>4, <1>5, <1>6, <1>7, <1>8, <1>9, <1>10, <1>11,
         <1>12, <1>13, <1>14, <1>15, <1>16, <1>17, <1>18, <1>19, <1>20, <1>21,
         <1>22, <1>23, <1>24, <1>25, <1>26, <1>27, <1>28, <1>29, <1>30, <1>31,
         <1>32, <1>33, <1>34, <1>35
  DEF Next, Begin, LockStep, MintStep, RevokeStep, Expiry

(* Claims: tokens are signed with the roles of the moment, and when the roles
   change every family is ended or lost. *)
LEMMA StaleStep ==
  ASSUME TypeOK, TypeOK', RequestInv, SidInv, LockInv, IndexInv, StaleInv, Next
  PROVE  StaleInv'
<1>1. ASSUME NEW r \in Requests, BeginEverywhere(r)
      PROVE  StaleInv'
  BY <1>1, SessionsAssumption DEF BeginEverywhere, Begins, store, history,
         TypeOK, RequestInv, SidInv, LockInv, IndexInv, StaleInv, Reading,
         Writing, Remaining, Revoking, Known, Minting, Loops
<1>2. ASSUME NEW r \in Requests, BeginRoles(r)
      PROVE  StaleInv'
  BY <1>2, SessionsAssumption DEF BeginRoles, Begins, store, history, TypeOK,
         RequestInv, SidInv, LockInv, IndexInv, StaleInv, Reading, Writing,
         Remaining, Revoking, Known, Minting, Loops
<1>3. ASSUME NEW r \in Requests, NEW f \in Families \union {None},
       BeginOthers(r, f)
      PROVE  StaleInv'
  BY <1>3, SessionsAssumption DEF BeginOthers, Begins, store, history, TypeOK,
         RequestInv, SidInv, LockInv, IndexInv, StaleInv, Reading, Writing,
         Remaining, Revoking, Known, Minting, Loops
<1>4. ASSUME NEW r \in Requests, NEW f \in Families, BeginRevoke(r, f)
      PROVE  StaleInv'
  BY <1>4, SessionsAssumption DEF BeginRevoke, Begins, store, history, TypeOK,
         RequestInv, SidInv, LockInv, IndexInv, StaleInv, Reading, Writing,
         Remaining, Revoking, Known, Minting, Loops
<1>5. ASSUME NEW r \in Requests, NEW f \in Families, RotateExpired(r, f)
      PROVE  StaleInv'
  BY <1>5, SessionsAssumption DEF RotateExpired, Spent, Deletes, Live, Begins,
         history, TypeOK, RequestInv, SidInv, LockInv, IndexInv, StaleInv,
         Reading, Writing, Remaining, Revoking, Known, Minting, Loops
<1>6. ASSUME NEW r \in Requests, NEW f \in Families, NEW s \in Sids,
       BeginOpen(r, f, s)
      PROVE  StaleInv'
  BY <1>6, SessionsAssumption DEF BeginOpen, FreshFamily, FreshSid, Begins,
         store, history, TypeOK, RequestInv, SidInv, LockInv, IndexInv,
         StaleInv, Reading, Writing, Remaining, Revoking, Known, Minting,
         Loops
<1>7. ASSUME NEW r \in Requests, NEW f \in Families, NEW s \in Sids,
       BeginResume(r, f, s)
      PROVE  StaleInv'
  BY <1>7, SessionsAssumption DEF BeginResume, FreshSid, Begins, store,
         history, TypeOK, RequestInv, SidInv, LockInv, IndexInv, StaleInv,
         Reading, Writing, Remaining, Revoking, Known, Minting, Loops
<1>8. ASSUME NEW r \in Requests, NEW f \in Families, NEW k \in
       0..MaxRotations, RotateReused(r, f, k)
      PROVE  StaleInv'
  BY <1>8, SessionsAssumption DEF RotateReused, Live, Deletes, Begins,
         history, TypeOK, RequestInv, SidInv, LockInv, IndexInv, StaleInv,
         Reading, Writing, Remaining, Revoking, Known, Minting, Loops
<1>9. ASSUME NEW r \in Requests, NEW f \in Families, NEW k \in
       0..MaxRotations, NEW s \in Sids, Rotate(r, f, k, s)
      PROVE  StaleInv'
  BY <1>9, SessionsAssumption DEF Rotate, Live, FreshSid, Begins, history,
         TypeOK, RequestInv, SidInv, LockInv, IndexInv, StaleInv, Reading,
         Writing, Remaining, Revoking, Known, Minting, Loops
<1>10. ASSUME NEW r \in Requests, ReadAuthority(r)
       PROVE  StaleInv'
  BY <1>10, SessionsAssumption DEF ReadAuthority, Admits, Goes, store,
         history, TypeOK, RequestInv, SidInv, LockInv, IndexInv, StaleInv,
         Reading, Writing, Remaining, Revoking, Known, Minting, Loops
<1>11. ASSUME NEW r \in Requests, RefuseAuthority(r)
       PROVE  StaleInv'
  BY <1>11, SessionsAssumption DEF RefuseAuthority, Admits, Ends, store,
         history, TypeOK, RequestInv, SidInv, LockInv, IndexInv, StaleInv,
         Reading, Writing, Remaining, Revoking, Known, Minting, Loops
<1>12. ASSUME NEW r \in Requests, RefuseRefresh(r)
       PROVE  StaleInv'
  BY <1>12, SessionsAssumption DEF RefuseRefresh, Admits, Goes, store,
         history, TypeOK, RequestInv, SidInv, LockInv, IndexInv, StaleInv,
         Reading, Writing, Remaining, Revoking, Known, Minting, Loops
<1>13. ASSUME NEW r \in Requests, WriteAuthority(r)
       PROVE  StaleInv'
  BY <1>13, SessionsAssumption DEF WriteAuthority, AdmitsWriter, Goes, store, work, history,
         TypeOK, RequestInv, SidInv, LockInv, IndexInv, StaleInv, Reading,
         Writing, Remaining, Revoking, Known, Minting, Loops
<1>14. ASSUME NEW r \in Requests, CreateFamily(r)
       PROVE  StaleInv'
  BY <1>14, SessionsAssumption DEF CreateFamily, Goes, work, history, TypeOK,
         RequestInv, SidInv, LockInv, IndexInv, StaleInv, Reading, Writing,
         Remaining, Revoking, Known, Minting, Loops
<1>15. ASSUME NEW r \in Requests, Mint(r)
       PROVE  StaleInv'
  BY <1>15, SessionsAssumption DEF Mint, Live, Goes, work, history, TypeOK,
         RequestInv, SidInv, LockInv, IndexInv, StaleInv, Reading, Writing,
         Remaining, Revoking, Known, Minting, Loops
<1>16. ASSUME NEW r \in Requests, RefuseMint(r)
       PROVE  StaleInv'
  BY <1>16, SessionsAssumption DEF RefuseMint, Live, Ends, store, history,
         TypeOK, RequestInv, SidInv, LockInv, IndexInv, StaleInv, Reading,
         Writing, Remaining, Revoking, Known, Minting, Loops
<1>17. ASSUME NEW r \in Requests, RegisterSession(r)
       PROVE  StaleInv'
  BY <1>17, SessionsAssumption DEF RegisterSession, Live, Goes, work, history,
         TypeOK, RequestInv, SidInv, LockInv, IndexInv, StaleInv, Reading,
         Writing, Remaining, Revoking, Known, Minting, Loops
<1>18. ASSUME NEW r \in Requests, RefuseSession(r)
       PROVE  StaleInv'
  BY <1>18, SessionsAssumption DEF RefuseSession, Live, Ends, history, TypeOK,
         RequestInv, SidInv, LockInv, IndexInv, StaleInv, Reading, Writing,
         Remaining, Revoking, Known, Minting, Loops
<1>19. ASSUME NEW r \in Requests, Answer(r)
       PROVE  StaleInv'
  BY <1>19, SessionsAssumption DEF Answer, Ends, history, TypeOK, RequestInv,
         SidInv, LockInv, IndexInv, StaleInv, Reading, Writing, Remaining,
         Revoking, Known, Minting, Loops
<1>20. ASSUME NEW r \in Requests, Snapshot(r)
       PROVE  StaleInv'
  BY <1>20, SessionsAssumption DEF Snapshot, Live, Goes, store, history,
         TypeOK, RequestInv, SidInv, LockInv, IndexInv, StaleInv, Reading,
         Writing, Remaining, Revoking, Known, Minting, Loops
<1>21. ASSUME NEW r \in Requests, ReadRecords(r)
       PROVE  StaleInv'
  BY <1>21, SessionsAssumption DEF ReadRecords, Live, Loses, Goes, TypeOK,
         RequestInv, SidInv, LockInv, IndexInv, StaleInv, Reading, Writing,
         Remaining, Revoking, Known, Minting, Loops
<1>22. ASSUME NEW r \in Requests, NEW f \in Families, NextFamily(r, f)
       PROVE  StaleInv'
  BY <1>22, SessionsAssumption DEF NextFamily, Goes, store, history, TypeOK,
         RequestInv, SidInv, LockInv, IndexInv, StaleInv, Reading, Writing,
         Remaining, Revoking, Known, Minting, Loops
<1>23. ASSUME NEW r \in Requests, ReadOwner(r)
       PROVE  StaleInv'
  BY <1>23, SessionsAssumption DEF ReadOwner, Live, Goes, store, history,
         TypeOK, RequestInv, SidInv, LockInv, IndexInv, StaleInv, Reading,
         Writing, Remaining, Revoking, Known, Minting, Loops
<1>24. ASSUME NEW r \in Requests, DeleteFamily(r)
       PROVE  StaleInv'
  BY <1>24, SessionsAssumption DEF DeleteFamily, Goes, work, history, TypeOK,
         RequestInv, SidInv, LockInv, IndexInv, StaleInv, Reading, Writing,
         Remaining, Revoking, Known, Minting, Loops
<1>25. ASSUME NEW r \in Requests, ReadSessions(r)
       PROVE  StaleInv'
  BY <1>25, SessionsAssumption DEF ReadSessions, Goes, store, history, TypeOK,
         RequestInv, SidInv, LockInv, IndexInv, StaleInv, Reading, Writing,
         Remaining, Revoking, Known, Minting, Loops
<1>26. ASSUME NEW r \in Requests, MarkSessions(r)
       PROVE  StaleInv'
  BY <1>26, SessionsAssumption DEF MarkSessions, ForgetFamily, Loops, Ends,
         TypeOK, RequestInv, SidInv, LockInv, IndexInv, StaleInv, Reading,
         Writing, Remaining, Revoking, Known, Minting, Loops
<1>27. ASSUME NEW r \in Requests, MarkAndGoOn(r)
       PROVE  StaleInv'
  BY <1>27, SessionsAssumption DEF MarkAndGoOn, ForgetFamily, Loops, Goes,
         TypeOK, RequestInv, SidInv, LockInv, IndexInv, StaleInv, Reading,
         Writing, Remaining, Revoking, Known, Minting, Loops
<1>28. ASSUME NEW r \in Requests, DropIndex(r)
       PROVE  StaleInv'
  BY <1>28, SessionsAssumption DEF DropIndex, Loses, Goes, work, TypeOK,
         RequestInv, SidInv, LockInv, IndexInv, StaleInv, Reading, Writing,
         Remaining, Revoking, Known, Minting, Loops
<1>29. ASSUME NEW r \in Requests, Announce(r)
       PROVE  StaleInv'
  BY <1>29, SessionsAssumption DEF Announce, Ends, store, history, TypeOK,
         RequestInv, SidInv, LockInv, IndexInv, StaleInv, Reading, Writing,
         Remaining, Revoking, Known, Minting, Loops
<1>30. ASSUME NEW r \in Requests, CommitRoles(r)
       PROVE  StaleInv'
  <2>1. ASSUME NEW s \in Sids, token[s] # "none"
        PROVE  family_of[s] \in ended \union stray
    BY <1>30, <2>1 DEF CommitRoles, SidInv, IndexInv, Remaining, Revoking
  <2> QED
    BY <1>30, <2>1 DEF CommitRoles, Ends, StaleInv, TypeOK, history
<1>31. ASSUME NEW r \in Requests, RollbackRoles(r)
       PROVE  StaleInv'
  BY <1>31, SessionsAssumption DEF RollbackRoles, Ends, store, history,
         TypeOK, RequestInv, SidInv, LockInv, IndexInv, StaleInv, Reading,
         Writing, Remaining, Revoking, Known, Minting, Loops
<1>32. ASSUME NEW r \in Requests, Crash(r)
       PROVE  StaleInv'
  BY <1>32, SessionsAssumption DEF Crash, Ends, store, TypeOK, RequestInv,
         SidInv, LockInv, IndexInv, StaleInv, Reading, Writing, Remaining,
         Revoking, Known, Minting, Loops
<1>33. ASSUME NEW S \in SUBSET Families, ListSessions(S)
       PROVE  StaleInv'
  BY <1>33, SessionsAssumption DEF ListSessions, Live, Loses, work, TypeOK,
         RequestInv, SidInv, LockInv, IndexInv, StaleInv, Reading, Writing,
         Remaining, Revoking, Known, Minting, Loops
<1>34. ASSUME NEW f \in Families, FamilyExpires(f)
       PROVE  StaleInv'
  BY <1>34, SessionsAssumption DEF FamilyExpires, Spent, work, history, Live,
         TypeOK, RequestInv, SidInv, LockInv, IndexInv, StaleInv, Reading,
         Writing, Remaining, Revoking, Known, Minting, Loops
<1>35. ASSUME NEW s \in Sids, TokenExpires(s)
       PROVE  StaleInv'
  BY <1>35, SessionsAssumption DEF TokenExpires, work, history, TypeOK,
         RequestInv, SidInv, LockInv, IndexInv, StaleInv, Reading, Writing,
         Remaining, Revoking, Known, Minting, Loops
<1> QED
  BY <1>1, <1>2, <1>3, <1>4, <1>5, <1>6, <1>7, <1>8, <1>9, <1>10, <1>11,
         <1>12, <1>13, <1>14, <1>15, <1>16, <1>17, <1>18, <1>19, <1>20, <1>21,
         <1>22, <1>23, <1>24, <1>25, <1>26, <1>27, <1>28, <1>29, <1>30, <1>31,
         <1>32, <1>33, <1>34, <1>35
  DEF Next, Begin, LockStep, MintStep, RevokeStep, Expiry

(* A request begins as something, stays that on its way, and ends as none. *)
LEMMA IdleStep ==
  ASSUME TypeOK, IdleInv, Next
  PROVE  IdleInv'
<1>1. ASSUME NEW r \in Requests, NEW k \in Kinds, NEW step \in Steps \ {"idle"},
             NEW f, NEW s, Begins(r, k, step, f, s)
      PROVE  IdleInv'
  BY <1>1 DEF Begins, TypeOK, IdleInv
<1>2. ASSUME NEW r \in Requests, NEW step \in Steps \ {"idle"}, Goes(r, step)
      PROVE  IdleInv'
  BY <1>2 DEF Goes, TypeOK, IdleInv
<1>3. ASSUME NEW r \in Requests, Ends(r)
      PROVE  IdleInv'
  BY <1>3 DEF Ends, TypeOK, IdleInv
<1>4. ASSUME NEW r \in Requests, Begin(r)
      PROVE  IdleInv'
  BY <1>1, <1>4 DEF Begin, BeginEverywhere, BeginRoles, BeginOthers, BeginRevoke, RotateExpired,
         BeginOpen, BeginResume, RotateReused, Rotate, Deletes, Kinds, Steps
<1>5. ASSUME NEW r \in Requests, LockStep(r)
      PROVE  IdleInv'
  BY <1>2, <1>3, <1>5 DEF LockStep, ReadAuthority, RefuseAuthority, RefuseRefresh,
         WriteAuthority, Steps
<1>6. ASSUME NEW r \in Requests, MintStep(r)
      PROVE  IdleInv'
  BY <1>2, <1>3, <1>6 DEF MintStep, CreateFamily, Mint, RefuseMint, RegisterSession,
         RefuseSession, Answer, Steps
<1>7. ASSUME NEW r \in Requests, RevokeStep(r)
      PROVE  IdleInv'
  BY <1>2, <1>3, <1>7 DEF RevokeStep, Snapshot, ReadRecords, NextFamily, ReadOwner,
         DeleteFamily, ReadSessions, MarkSessions, MarkAndGoOn, DropIndex, Announce,
         CommitRoles, RollbackRoles, Steps
<1>8. CASE UNCHANGED <<pc, kind>>
  BY <1>8 DEF IdleInv
<1>9. ASSUME NEW r \in Requests, Crash(r)
      PROVE  IdleInv'
  BY <1>3, <1>9 DEF Crash
<1> QED
  BY <1>4, <1>5, <1>6, <1>7, <1>8, <1>9
  DEF Next, Expiry, ListSessions, FamilyExpires, TokenExpires

(* Whose session is whose: a session is signed by the request that minted  *)
(* it, listed and marked with its own family only, and a marked one that   *)
(* is still to be answered is of a family that is over.                    *)
LEMMA OwnStep ==
  ASSUME TypeOK, RequestInv, SidInv, OwnInv, Next
  PROVE  OwnInv'
<1>s. None \notin Sids /\ \A r \in Requests : marks[r] \subseteq Sids /\ sid[r] \in Sids \union {None}
  BY SessionsAssumption DEF TypeOK
<1>1. ASSUME NEW r \in Requests, NEW k \in Kinds, NEW step \in Steps,
             NEW f, NEW s \in Sids \union {None}, Begins(r, k, step, f, s),
             step \in {"authority", "snapshot", "owner", "sessions"},
             s # None => FreshSid(s),
             UNCHANGED <<listed, revoked, token, family_of, ended>>
      PROVE  OwnInv'
  BY <1>s, <1>1 DEF Begins, FreshSid, TypeOK, OwnInv
<1>2. ASSUME NEW r \in Requests, NEW step \in Steps, Goes(r, step),
             pc[r] # "mark", step \notin {"mark", "register", "answer"},
             step \in {"authority", "create", "mint"} =>
               pc[r] \in {"authority", "create", "mint"},
             UNCHANGED <<listed, revoked, token, family_of, ended, sid, fam, marks>>
      PROVE  OwnInv'
  BY <1>2 DEF Goes, TypeOK, OwnInv
<1>3. ASSUME NEW r \in Requests, Ends(r),
             UNCHANGED <<listed, revoked, token, family_of, ended>>
      PROVE  OwnInv'
  BY <1>3 DEF Ends, TypeOK, OwnInv
<1>4. ASSUME NEW r \in Requests, Begin(r)
      PROVE  OwnInv'
  BY <1>1, <1>4 DEF Begin, BeginEverywhere, BeginRoles, BeginOthers, BeginRevoke,
         RotateExpired, BeginOpen, BeginResume, RotateReused, Rotate, Deletes, Kinds, Steps,
         store, history
<1>5. ASSUME NEW r \in Requests, LockStep(r)
      PROVE  OwnInv'
  BY <1>2, <1>3, <1>5 DEF LockStep, ReadAuthority, RefuseAuthority, RefuseRefresh,
         WriteAuthority, Admits, AdmitsWriter, Steps, store, work, history
<1>6. ASSUME NEW r \in Requests, CreateFamily(r) \/ RefuseMint(r)
      PROVE  OwnInv'
  BY <1>2, <1>3, <1>6 DEF CreateFamily, RefuseMint, Steps, store, work, history
<1>7. ASSUME NEW r \in Requests, Mint(r)
      PROVE  OwnInv'
  <2>1. sid[r] \in Sids /\ token[sid[r]] = "none"
    BY <1>s, <1>7 DEF Mint, RequestInv, OwnInv
  <2>2. \A o \in Requests : o # r => sid[o] # sid[r]
    BY <1>s, <2>1 DEF SidInv
  <2> QED
    BY <1>s, <1>7, <2>1, <2>2 DEF Mint, Goes, work, history, TypeOK, OwnInv
<1>8. ASSUME NEW r \in Requests, RegisterSession(r)
      PROVE  OwnInv'
  <2>1. /\ sid[r] \in Sids /\ token[sid[r]] = "signed" /\ family_of[sid[r]] = fam[r]
        /\ sid[r] \notin revoked
    BY <1>8 DEF RegisterSession, RequestInv, SidInv, OwnInv
  <2>2. \A o \in Requests : o # r => sid[o] # sid[r]
    BY <1>s, <2>1 DEF SidInv
  <2> QED
    BY <1>s, <1>8, <2>1, <2>2 DEF RegisterSession, Goes, work, history, TypeOK, OwnInv
<1>9. ASSUME NEW r \in Requests, RefuseSession(r)
      PROVE  OwnInv'
  <2>1. sid[r] \in Sids /\ token[sid[r]] = "signed"
    BY <1>9 DEF RefuseSession, RequestInv, SidInv
  <2>2. \A o \in Requests : o # r => sid[o] # sid[r]
    BY <1>s, <2>1 DEF SidInv
  <2> QED
    BY <1>s, <1>9, <2>1, <2>2 DEF RefuseSession, Ends, history, TypeOK, OwnInv
<1>10. ASSUME NEW r \in Requests, Answer(r)
       PROVE  OwnInv'
  <2>1. sid[r] \in Sids
    BY <1>10 DEF Answer, RequestInv
  <2>2. \A o \in Requests : o # r => sid[o] # sid[r]
    BY <1>s, <2>1 DEF SidInv
  <2> QED
    BY <1>s, <1>10, <2>1, <2>2 DEF Answer, Ends, history, TypeOK, OwnInv
<1>11. ASSUME NEW r \in Requests,
              Snapshot(r) \/ ReadRecords(r) \/ ReadOwner(r) \/ DeleteFamily(r) \/ DropIndex(r)
       PROVE  OwnInv'
  BY <1>2, <1>11 DEF Snapshot, ReadRecords, ReadOwner, DeleteFamily, DropIndex, Steps, store,
         work, history
<1>12. ASSUME NEW r \in Requests, NEW f \in Families, NextFamily(r, f)
       PROVE  OwnInv'
  BY <1>s, <1>12 DEF NextFamily, Goes, store, history, TypeOK, OwnInv
<1>13. ASSUME NEW r \in Requests, ReadSessions(r)
       PROVE  OwnInv'
  <2>1. fam[r] \in Families
    BY <1>13 DEF ReadSessions, RequestInv
  <2> QED
    BY <1>s, <1>13, <2>1 DEF ReadSessions, Goes, store, history, TypeOK, OwnInv
<1>14. ASSUME NEW r \in Requests, ForgetFamily(r), Ends(r) \/
              (Goes(r, "next") /\ marks' = [marks EXCEPT ![r] = {}]
               /\ fam' = [fam EXCEPT ![r] = None] /\ UNCHANGED sid)
       PROVE  OwnInv'
  <2>1. \A s \in marks[r] : token[s] # "none" /\ family_of[s] = fam[r]
    BY DEF OwnInv
  <2>2. \A f \in Families : listed'[f] \subseteq listed[f]
    BY <1>14 DEF ForgetFamily, TypeOK
  <2>3. \A o \in Requests : marks'[o] = (IF o = r THEN {} ELSE marks[o])
    BY <1>14 DEF Ends, TypeOK
  <2>4. ASSUME NEW o \in Requests, o # r
        PROVE  pc'[o] = pc[o] /\ sid'[o] = sid[o] /\ fam'[o] = fam[o]
    BY <1>14, <2>4 DEF Ends, Goes, TypeOK
  <2>5. pc'[r] \in {"idle", "next"}
    BY <1>14 DEF Ends, Goes, TypeOK
  <2>6. /\ revoked' = revoked \union marks[r] /\ ended' = ended \union {fam[r]}
        /\ UNCHANGED <<token, family_of>>
    BY <1>14 DEF ForgetFamily
  <2>7. \A o \in Requests : pc[o] = "answer" => family_of[sid[o]] = fam[o]
    BY DEF SidInv
  <2> QED
    BY <2>1, <2>2, <2>3, <2>4, <2>5, <2>6, <2>7 DEF OwnInv
<1>15. ASSUME NEW r \in Requests, MarkSessions(r) \/ MarkAndGoOn(r)
       PROVE  OwnInv'
  BY <1>14, <1>15 DEF MarkSessions, MarkAndGoOn
<1>16. ASSUME NEW r \in Requests,
              Announce(r) \/ CommitRoles(r) \/ RollbackRoles(r) \/ Crash(r)
       PROVE  OwnInv'
  BY <1>3, <1>16 DEF Announce, CommitRoles, RollbackRoles, Crash, store, history
<1>17. ASSUME NEW s \in Sids, TokenExpires(s)
       PROVE  OwnInv'
  BY <1>s, <1>17 DEF TokenExpires, work, history, TypeOK, OwnInv
<1>18. CASE UNCHANGED <<pc, work, listed, revoked, token, family_of, ended>>
  BY <1>18 DEF work, OwnInv
<1> QED
  BY <1>4, <1>5, <1>6, <1>7, <1>8, <1>9, <1>10, <1>11, <1>12, <1>13, <1>15, <1>16, <1>17, <1>18
  DEF Next, MintStep, RevokeStep, Expiry, ListSessions, FamilyExpires, history

LEMMA InitInv == Init => Inv
  BY SessionsAssumption
  DEF Init, Inv, TypeOK, RequestInv, SidInv, ListInv, OwnInv, IdleInv, LockInv, IndexInv,
      StaleInv, Versions, Kinds, Steps, Minting, Known, Loops, Reading, Writing, Remaining,
      Revoking

LEMMA StutterInv == Inv /\ UNCHANGED vars => Inv'
  BY DEF vars, store, work, history, Inv, TypeOK, RequestInv, SidInv, ListInv,
         OwnInv, IdleInv, LockInv, IndexInv, StaleInv, Known, Loops, Reading, Writing, Remaining

(* Inv is inductive.                                                       *)
THEOREM Invariance == Spec => []Inv
<1>1. Inv /\ [Next]_vars => Inv'
  <2> SUFFICES ASSUME Inv, Next  PROVE Inv'
    BY StutterInv
  <2>1. TypeOK'
    BY TypeStep DEF Inv
  <2> QED
    BY <2>1, RequestStep, SidStep, ListStep, OwnStep, IdleStep, AuthorityStep, IndexStep, StaleStep
    DEF Inv
<1> QED
  BY <1>1, InitInv, PTL DEF Spec

(* Every variable has its type in every reachable state.                   *)
THEOREM TypeCorrect == Spec => []TypeOK
<1>1. Inv => TypeOK
  BY DEF Inv
<1> QED
  BY <1>1, Invariance, PTL

(* No access token of a family that was revoked to the end is accepted:    *)
(* REGISTER_SESSION_SCRIPT lists no session on a family that is gone, and  *)
(* #forgetFamily marks what it found listed.                               *)
THEOREM RevokedIsMute == Spec => []RevokedFamilyIsMute
<1>1. Inv => RevokedFamilyIsMute
  BY DEF Inv, ListInv, RevokedFamilyIsMute, Usable
<1> QED
  BY <1>1, Invariance, PTL

(* No access token outlives the roles it carries, but on a family that the *)
(* index had lost: the shared and the exclusive lock keep minting and role *)
(* changes apart, and the revocation is over before the commit.            *)
THEOREM StaleIsRefused == Spec => []StaleClaimsAreRefused
<1>1. Inv => StaleClaimsAreRefused
  <2> SUFFICES ASSUME Inv, NEW s \in Sids, Usable(s), claims[s] # role
               PROVE  family_of[s] \in stray
    BY DEF StaleClaimsAreRefused
  <2>1. family_of[s] \in ended \union stray
    BY DEF Inv, StaleInv, Usable
  <2>2. family_of[s] \notin ended
    BY DEF Inv, ListInv, Usable
  <2> QED
    BY <2>1, <2>2
<1> QED
  BY <1>1, Invariance, PTL

(* A revocation of everything ends what lived when it read the index, but  *)
(* for the families that the index had lost.                               *)
THEOREM EverythingEnds == Spec => []EverywhereEndsTheRest
<1>1. Inv => EverywhereEndsTheRest
  <2> SUFFICES ASSUME Inv, NEW r \in Requests, Everywhere(r),
                      NEW f \in had[r], Live(f)
               PROVE  f \in stray
    BY DEF EverywhereEndsTheRest
  <2>1. kind[r] \in {"everywhere", "roles"} /\ todo[r] = {}
    BY DEF Inv, RequestInv, IndexInv, Everywhere, Loops
  <2>2. f \in ended \union stray
    BY <2>1 DEF Inv, IndexInv, Everywhere, Remaining, Revoking
  <2> QED
    BY <2>2 DEF Inv, ListInv, Live
<1> QED
  BY <1>1, Invariance, PTL

(* A request under way waits, if it waits, for one that is past the lock,  *)
(* and that one can go on.                                                 *)
THEOREM SomebodyGoesOn == Spec => []NobodyBlocksForEver
<1>1. ASSUME Inv, NEW r \in Requests, pc[r] \notin {"idle", "authority"}
      PROVE  CanGoOn(r)
  <2>1. pc[r] \in Steps /\ todo[r] \subseteq Families
    BY <1>1 DEF Inv, TypeOK
  <2>2. pc[r] = "announce" => kind[r] \in {"everywhere", "roles"}
    BY <1>1 DEF Inv, RequestInv
  <2> QED
    BY <1>1, <2>1, <2>2 DEF CanGoOn, Steps
<1>2. ASSUME Inv, NEW o \in Requests, Writing(o) \/ Reading(o)
      PROVE  pc[o] \notin {"idle", "authority"}
  <2>1. pc[o] = "idle" => kind[o] = "none"
    BY <1>2 DEF Inv, IdleInv
  <2> QED
    BY <1>2, <2>1 DEF Writing, Reading
<1>3. ASSUME Inv, NEW r \in Requests, pc[r] # "idle"
      PROVE  \E o \in Requests : CanGoOn(o)
  <2>1. CASE pc[r] # "authority"
    BY <1>1, <1>3, <2>1
  <2>2. CASE pc[r] = "authority" /\ \E o \in Requests : Writing(o) \/ Reading(o)
    BY <1>1, <1>2, <1>3, <2>2
  <2>3. CASE pc[r] = "authority" /\ \A o \in Requests : ~Writing(o) /\ ~Reading(o)
    BY <2>3 DEF CanGoOn, Admits, AdmitsWriter
  <2> QED
    BY <2>1, <2>2, <2>3
<1>4. Inv => NobodyBlocksForEver
  BY <1>3 DEF NobodyBlocksForEver
<1> QED
  BY <1>4, Invariance, PTL

-----------------------------------------------------------------------------
(* AccessTokens.                                                           *)

(* What a step that touches nothing of the tokens, their marks and the     *)
(* roles can change of the abstract state.                                 *)
LEMMA SameTokens ==
  ASSUME UNCHANGED <<role, revoked, token, family_of, claims, ended, stray>>
  PROVE  UNCHANGED Tokens!vars
  BY DEF Tokens!vars, Access, Out

(* ForgetFamily is Revoke: those of its tokens that are accepted are on    *)
(* the list that was read, or marked since; and that list has no others.   *)
LEMMA ForgetRevokes ==
  ASSUME TypeOK, RequestInv, ListInv, OwnInv, NEW r \in Requests, ForgetFamily(r)
  PROVE  Tokens!Revoke(fam[r])
<1>1. /\ revoked' = revoked \union marks[r] /\ ended' = ended \union {fam[r]}
      /\ UNCHANGED <<role, token, family_of, claims, stray>>
  BY DEF ForgetFamily
<1>2. \A s \in Sids : token[s] = "issued" /\ family_of[s] = fam[r] => s \in marks[r] \union revoked
  BY DEF ForgetFamily, ListInv
<1>3. \A s \in marks[r] : family_of[s] = fam[r]
  BY DEF OwnInv
<1>4. \A s \in Sids :
        Access(s)' = IF Access(s) = "accepted" /\ (IF Out(s) THEN family_of[s] ELSE None) = fam[r]
                     THEN "refused" ELSE Access(s)
  BY <1>1, <1>2, <1>3 DEF Access, Out
<1>5. \A s \in Sids : Out(s)' = Out(s)
  BY <1>1 DEF Out
<1> QED
  BY <1>1, <1>4, <1>5 DEF Tokens!Revoke

(* A step of Sessions is one of AccessTokens, or none.                     *)
LEMMA TokensStep == Inv /\ [Next]_vars => [Tokens!Next]_(Tokens!vars)
<1> SUFFICES ASSUME Inv, [Next]_vars
             PROVE  [Tokens!Next]_(Tokens!vars)
  OBVIOUS
<1>t. TypeOK /\ RequestInv /\ SidInv /\ ListInv /\ OwnInv /\ LockInv /\ IndexInv
  BY DEF Inv
<1>1. ASSUME NEW r \in Requests, Answer(r)
      PROVE  Tokens!Next
  <2>1. kind[r] \in Minting /\ fam[r] \in Families /\ sid[r] \in Sids
    BY <1>t, <1>1 DEF Answer, RequestInv
  <2>2. PICK s \in Sids, f \in Families : s = sid[r] /\ f = fam[r]
    BY <2>1
  <2>3. token[s] = "signed" /\ family_of[s] = f /\ claims[s] = role
    BY <1>t, <1>1, <2>2 DEF Answer, SidInv, LockInv, Reading
  <2>4. s \in revoked <=> f \in ended
    BY <1>t, <1>1, <2>2 DEF Answer, ListInv, OwnInv
  <2>5. /\ token' = [token EXCEPT ![s] = "issued"]
        /\ UNCHANGED <<role, revoked, family_of, claims, ended, stray>>
    BY <1>1, <2>2 DEF Answer, history
  <2>6. \A t \in Sids : t # s => Access(t)' = Access(t) /\ Out(t)' = Out(t)
    BY <2>5 DEF Access, Out
  <2>7. token'[s] = "issued"
    BY <1>t, <2>5 DEF TypeOK
  <2>8. Access(s) = "none" /\ Access(s)' = (IF f \in ended THEN "refused" ELSE "accepted")
    BY <2>3, <2>4, <2>5, <2>7 DEF Access
  <2>9. ~Out(s) /\ Out(s)'
    BY <2>3, <2>7 DEF Out
  <2>10. Tokens!Issue(s, f)
    BY <2>3, <2>5, <2>6, <2>8, <2>9 DEF Tokens!Issue
  <2> QED
    BY <2>10 DEF Tokens!Next
<1>2. ASSUME NEW s \in Sids, TokenExpires(s)
      PROVE  [Tokens!Next]_(Tokens!vars)
  <2>1. /\ token[s] = "issued" /\ token' = [token EXCEPT ![s] = "expired"]
        /\ UNCHANGED <<role, revoked, family_of, claims, ended, stray>>
    BY <1>2 DEF TokenExpires, history
  <2>2. token'[s] = "expired"
    BY <1>t, <2>1 DEF TypeOK
  <2>3. \A t \in Sids : Out(t)' = Out(t) /\ (t # s => Access(t)' = Access(t))
    BY <2>1, <2>2 DEF Access, Out
  <2>4. Access(s)' = "refused"
    BY <2>2 DEF Access
  <2>5. CASE s \in revoked
    <3>1. Access(s) = "refused"
      BY <2>1, <2>5 DEF Access
    <3> QED
      BY <2>1, <2>3, <2>4, <3>1 DEF Tokens!vars
  <2>6. CASE s \notin revoked
    <3>1. Access(s) = "accepted"
      BY <2>1, <2>6 DEF Access
    <3>2. Tokens!Expire(s)
      BY <2>1, <2>3, <2>4, <3>1 DEF Tokens!Expire
    <3> QED
      BY <3>2 DEF Tokens!Next
  <2> QED
    BY <2>5, <2>6
<1>3. ASSUME NEW r \in Requests, MarkSessions(r) \/ MarkAndGoOn(r)
      PROVE  Tokens!Next
  <2>1. ForgetFamily(r)
    BY <1>3 DEF MarkSessions, MarkAndGoOn
  <2>2. fam[r] \in Families
    BY <1>t, <2>1 DEF ForgetFamily, RequestInv
  <2>3. Tokens!Revoke(fam[r])
    BY <1>t, <2>1, ForgetRevokes
  <2> QED
    BY <2>2, <2>3 DEF Tokens!Next
<1>4. ASSUME NEW r \in Requests, CommitRoles(r)
      PROVE  Tokens!Next
  <2>1. /\ role' = role + 1
        /\ UNCHANGED <<revoked, token, family_of, claims, ended, stray>>
    BY <1>4 DEF CommitRoles, history
  <2>2. ASSUME NEW s \in Sids, Access(s) = "accepted"
        PROVE  Out(s) /\ family_of[s] \in stray
    <3>1. token[s] = "issued" /\ s \notin revoked
      BY <2>2 DEF Access
    <3>2. family_of[s] \in ended \union stray
      BY <1>t, <1>4, <3>1 DEF CommitRoles, SidInv, IndexInv, Remaining, Revoking
    <3>3. family_of[s] \notin ended
      BY <1>t, <3>1 DEF ListInv
    <3> QED
      BY <3>1, <3>2, <3>3 DEF Out
  <2>3. \A s \in Sids : Access(s)' = Access(s) /\ Out(s)' = Out(s)
    BY <2>1 DEF Access, Out
  <2>4. Tokens!ChangeRoles
    BY <2>1, <2>2, <2>3 DEF Tokens!ChangeRoles
  <2> QED
    BY <2>4 DEF Tokens!Next
<1>5. ASSUME NEW S \in SUBSET Families, Loses(S),
             UNCHANGED <<role, revoked, token, family_of, claims, ended>>
      PROVE  Tokens!Next
  <2>1. \A s \in Sids : Access(s)' = Access(s) /\ Out(s)' = Out(s)
    BY <1>5 DEF Access, Out
  <2>2. S \ ended \in SUBSET Families /\ (S \ ended) \intersect ended = {}
    OBVIOUS
  <2>3. Tokens!Lose(S \ ended)
    BY <1>5, <2>1, <2>2 DEF Loses, Tokens!Lose
  <2> QED
    BY <2>2, <2>3 DEF Tokens!Next
<1>6. ASSUME NEW r \in Requests, ReadRecords(r) \/ DropIndex(r)
      PROVE  Tokens!Next
  <2>1. index \subseteq Families
    BY <1>t DEF TypeOK
  <2> QED
    BY <1>5, <1>6, <2>1 DEF ReadRecords, DropIndex
<1>7. ASSUME NEW S \in SUBSET Families, ListSessions(S)
      PROVE  Tokens!Next
  BY <1>5, <1>7 DEF ListSessions
<1>8. ASSUME NEW r \in Requests, Mint(r)
      PROVE  UNCHANGED Tokens!vars
  <2>1. sid[r] \in Sids /\ token[sid[r]] = "none"
    BY <1>t, <1>8, SessionsAssumption DEF Mint, RequestInv, OwnInv
  <2>2. token'[sid[r]] = "signed" /\ UNCHANGED <<role, revoked, ended, stray>>
    BY <1>t, <1>8, <2>1 DEF Mint, TypeOK, history
  <2>3. \A s \in Sids : s # sid[r] => token'[s] = token[s] /\ family_of'[s] = family_of[s]
                                      /\ claims'[s] = claims[s]
    BY <1>t, <1>8 DEF Mint, TypeOK
  <2>4. ASSUME NEW s \in Sids
        PROVE  /\ Access(s)' = Access(s) /\ Out(s)' = Out(s)
               /\ Out(s) => family_of'[s] = family_of[s] /\ claims'[s] = claims[s]
    BY <2>1, <2>2, <2>3 DEF Access, Out
  <2> QED
    BY <2>2, <2>4 DEF Tokens!vars
<1>9. ASSUME NEW r \in Requests, RefuseSession(r)
      PROVE  UNCHANGED Tokens!vars
  <2>1. token[sid[r]] = "signed" /\ revoked' = revoked \union {sid[r]}
    BY <1>t, <1>9 DEF RefuseSession, SidInv
  <2>2. UNCHANGED <<role, token, family_of, claims, ended, stray>>
    BY <1>9 DEF RefuseSession, history
  <2>3. \A s \in Sids : Access(s)' = Access(s) /\ Out(s)' = Out(s)
    BY <2>1, <2>2 DEF Access, Out
  <2> QED
    BY <2>2, <2>3 DEF Tokens!vars
<1>10. ASSUME NEW r \in Requests, Begin(r) \/ LockStep(r) \/ Crash(r)
       PROVE  UNCHANGED Tokens!vars
  BY <1>10, SameTokens DEF Begin, BeginEverywhere, BeginRoles, BeginOthers, BeginRevoke,
         RotateExpired, BeginOpen, BeginResume, RotateReused, Rotate, Deletes, LockStep,
         ReadAuthority, RefuseAuthority, RefuseRefresh, WriteAuthority, Crash, store, history
<1>11. ASSUME NEW r \in Requests,
              CreateFamily(r) \/ RefuseMint(r) \/ RegisterSession(r)
       PROVE  UNCHANGED Tokens!vars
  BY <1>11, SameTokens DEF CreateFamily, RefuseMint, RegisterSession, store, history
<1>12. ASSUME NEW r \in Requests,
              \/ Snapshot(r) \/ (\E f \in Families : NextFamily(r, f)) \/ ReadOwner(r)
              \/ DeleteFamily(r) \/ ReadSessions(r) \/ Announce(r) \/ RollbackRoles(r)
       PROVE  UNCHANGED Tokens!vars
  BY <1>12, SameTokens DEF Snapshot, NextFamily, ReadOwner, DeleteFamily, ReadSessions,
         Announce, RollbackRoles, store, history
<1>13. ASSUME NEW f \in Families, FamilyExpires(f)
       PROVE  UNCHANGED Tokens!vars
  BY <1>13, SameTokens DEF FamilyExpires, history
<1>14. CASE UNCHANGED vars
  BY <1>14, SameTokens DEF vars, store, history
<1> QED
  BY <1>1, <1>2, <1>3, <1>4, <1>6, <1>7, <1>8, <1>9, <1>10, <1>11, <1>12, <1>13, <1>14
  DEF Next, MintStep, RevokeStep, Expiry

(* Sessions implements AccessTokens: whatever commands of whichever        *)
(* requests come between each other, a revocation refuses the tokens of    *)
(* its family and no others, what is issued afterwards on that family is   *)
(* refused, and the roles change under nobody who is still let in.         *)
THEOREM SessionsImplementTokens == Spec => ImplementsAccessTokens
<1>1. Init => Tokens!Init
  <2> SUFFICES ASSUME Init
               PROVE  Tokens!Init
    OBVIOUS
  <2>1. \A s \in Sids : Access(s) = "none" /\ ~Out(s)
    BY DEF Init, Access, Out
  <2> QED
    BY <2>1 DEF Init, Tokens!Init
<1> QED
  BY <1>1, TokensStep, Invariance, PTL DEF Spec, ImplementsAccessTokens, Tokens!Spec
=============================================================================
