----------------------------- MODULE ReadProofs -----------------------------
(***************************************************************************)
(* What a reader gets, from the cache and page by page.                    *)
(*                                                                         *)
(* The cache for every number of clients, workers, views, sessions and     *)
(* changes: the prefix index and the values stay in step as far as the     *)
(* order of the calls and the lock of the user can keep them.              *)
(*                                                                         *)
(* The walk through a list for every set of items and boards, every size   *)
(* of a page and every number of changes: what stays in its place is shown *)
(* and shown once, because what was read is always an initial part of what *)
(* there is behind the cursor, as far as it has not moved.                 *)
(***************************************************************************)
EXTENDS Cache, Listing, FiniteSetTheorems, WellFoundedInduction, TLAPS

-----------------------------------------------------------------------------
(* The cache *)

\* Every step keeps the types, and never are there more events to take than changes.
LEMMA TypeInv ==
    ASSUME TypeOK, pending <= rows, [Next]_vars
    PROVE  TypeOK' /\ pending' <= rows'
<1> USE CacheAssumption DEF TypeOK, Keys, Views, Processes, Versions, Steps, At, Cached, Idle
<1>1. ASSUME Change
      PROVE  TypeOK' /\ pending' <= rows'
  BY <1>1 DEF Change
<1>2. ASSUME NEW k \in Keys, Expire(k)
      PROVE  TypeOK' /\ pending' <= rows'
  BY <1>2 DEF Expire, Drop
<1>3. ASSUME NEW k \in Keys, OnEvict(k)
      PROVE  TypeOK' /\ pending' <= rows'
  BY <1>3 DEF OnEvict, Drop
<1>4. ASSUME NEW c \in Clients, DeleteByUser(c)
      PROVE  TypeOK' /\ pending' <= rows'
  BY <1>4 DEF DeleteByUser, withUserLock, Calls
<1>5. ASSUME NEW c \in Clients, ExistsByUser(c)
      PROVE  TypeOK' /\ pending' <= rows'
  BY <1>5 DEF ExistsByUser, withUserLock, Calls
<1>6. ASSUME NEW c \in Clients, NEW v \in Views, GetMisses(c, v)
      PROVE  TypeOK' /\ pending' <= rows'
  BY <1>6 DEF GetMisses, Calls
<1>7. ASSUME NEW c \in Clients, NEW v \in Views, UnindexMissed(c, v)
      PROVE  TypeOK' /\ pending' <= rows'
  BY <1>7 DEF UnindexMissed, removeKeyFromIndexes, Goto
<1>8. ASSUME NEW c \in Clients, NEW v \in Views, Lead(c, v)
      PROVE  TypeOK' /\ pending' <= rows'
  BY <1>8 DEF Lead, Goto
<1>9. ASSUME NEW c \in Clients, NEW v \in Views, Wait(c, v)
      PROVE  TypeOK' /\ pending' <= rows'
  BY <1>9 DEF Wait, Goto
<1>10. ASSUME NEW c \in Clients, NEW v \in Views, GetAgain(c, v)
      PROVE  TypeOK' /\ pending' <= rows'
  BY <1>10 DEF GetAgain, Landed, Goto
<1>11. ASSUME NEW c \in Clients, NEW v \in Views, UnindexAgain(c, v)
      PROVE  TypeOK' /\ pending' <= rows'
  BY <1>11 DEF UnindexAgain, removeKeyFromIndexes, Goto
<1>12. ASSUME NEW c \in Clients, NEW v \in Views, Load(c, v)
      PROVE  TypeOK' /\ pending' <= rows'
  BY <1>12 DEF Load
<1>13. ASSUME NEW c \in Clients, NEW v \in Views, LoadFails(c, v)
      PROVE  TypeOK' /\ pending' <= rows'
  BY <1>13 DEF LoadFails, Landed
<1>14. ASSUME NEW c \in Clients, NEW k \in Keys, Set(c, k)
      PROVE  TypeOK' /\ pending' <= rows'
  BY <1>14 DEF Set, Goto
<1>15. ASSUME NEW c \in Clients, NEW v \in Views, IndexView(c, v)
      PROVE  TypeOK' /\ pending' <= rows'
  BY <1>15 DEF IndexView, addKeyToIndexes, Landed
<1>16. ASSUME NEW c \in Clients, NEW t \in Tokens, Save(c, t)
      PROVE  TypeOK' /\ pending' <= rows'
  BY <1>16 DEF Save, withUserLock, Calls
<1>17. ASSUME NEW c \in Clients, NEW t \in Tokens, SaveRejected(c, t)
      PROVE  TypeOK' /\ pending' <= rows'
  BY <1>17 DEF SaveRejected, Returns
<1>18. ASSUME NEW c \in Clients, NEW t \in Tokens, IndexSession(c, t)
      PROVE  TypeOK' /\ pending' <= rows'
  BY <1>18 DEF IndexSession, addKeyToIndexes, Returns
<1>19. ASSUME NEW c \in Clients, NEW t \in Tokens, ExistsNot(c, t)
      PROVE  TypeOK' /\ pending' <= rows'
  BY <1>19 DEF ExistsNot, withUserLock, Calls
<1>20. ASSUME NEW c \in Clients, NEW t \in Tokens, DeleteSession(c, t)
      PROVE  TypeOK' /\ pending' <= rows'
  BY <1>20 DEF DeleteSession, withUserLock, Calls
<1>21. ASSUME NEW p \in Processes, NEW k \in Keys, Delete(p, k)
      PROVE  TypeOK' /\ pending' <= rows'
  BY <1>21 DEF Delete, Drop
<1>22. ASSUME NEW c \in Clients, NEW t \in Tokens, UnindexSession(c, t)
      PROVE  TypeOK' /\ pending' <= rows'
  BY <1>22 DEF UnindexSession, removeKeyFromIndexes, Returns, Goto
<1>23. ASSUME NEW c \in Clients, NEW t \in Tokens, ScanSession(c, t)
      PROVE  TypeOK' /\ pending' <= rows'
  BY <1>23 DEF ScanSession, removeKeyFromIndexes, Returns
<1>24. ASSUME NEW w \in Workers, Handle(w)
      PROVE  TypeOK' /\ pending' <= rows'
  BY <1>24 DEF Handle, KeysOfEvent, Calls
<1>25. ASSUME NEW w \in Workers, NEW v \in Views, Unindex(w, v)
      PROVE  TypeOK' /\ pending' <= rows'
  BY <1>25 DEF Unindex, removeKeyFromIndexes, Returns, Goto
<1>26. CASE UNCHANGED vars
  BY <1>26 DEF vars
<1>27. QED
  BY <1>1, <1>2, <1>3, <1>4, <1>5, <1>6, <1>7, <1>8, <1>9, <1>10, <1>11, <1>12, <1>13, <1>14,
     <1>15, <1>16, <1>17, <1>18, <1>19, <1>20, <1>21, <1>22, <1>23, <1>24, <1>25, <1>26
     DEF Next, ReadView, UseSession, DropViews, Processes, Views, Keys

\* A call gets keys to delete, or to look for, only with the step that does so, and
\* has none left when it ends.
LEMMA RestInv ==
    ASSUME TypeOK, RestIsDeleted, [Next]_vars
    PROVE  RestIsDeleted'
<1> USE CacheAssumption
       DEF TypeOK, Keys, Views, Processes, Versions, Steps, At, Cached, Idle, RestIsDeleted,
           Deleting
<1>1. ASSUME Change
      PROVE  RestIsDeleted'
  BY <1>1 DEF Change
<1>2. ASSUME NEW k \in Keys, Expire(k)
      PROVE  RestIsDeleted'
  BY <1>2 DEF Expire, Drop
<1>3. ASSUME NEW k \in Keys, OnEvict(k)
      PROVE  RestIsDeleted'
  BY <1>3 DEF OnEvict, Drop
<1>4. ASSUME NEW c \in Clients, DeleteByUser(c)
      PROVE  RestIsDeleted'
  BY <1>4 DEF DeleteByUser, withUserLock, Calls
<1>5. ASSUME NEW c \in Clients, ExistsByUser(c)
      PROVE  RestIsDeleted'
  BY <1>5 DEF ExistsByUser, withUserLock, Calls
<1>6. ASSUME NEW c \in Clients, NEW v \in Views, GetMisses(c, v)
      PROVE  RestIsDeleted'
  BY <1>6 DEF GetMisses, Calls
<1>7. ASSUME NEW c \in Clients, NEW v \in Views, UnindexMissed(c, v)
      PROVE  RestIsDeleted'
  BY <1>7 DEF UnindexMissed, removeKeyFromIndexes, Goto
<1>8. ASSUME NEW c \in Clients, NEW v \in Views, Lead(c, v)
      PROVE  RestIsDeleted'
  BY <1>8 DEF Lead, Goto
<1>9. ASSUME NEW c \in Clients, NEW v \in Views, Wait(c, v)
      PROVE  RestIsDeleted'
  BY <1>9 DEF Wait, Goto
<1>10. ASSUME NEW c \in Clients, NEW v \in Views, GetAgain(c, v)
      PROVE  RestIsDeleted'
  BY <1>10 DEF GetAgain, Landed, Goto
<1>11. ASSUME NEW c \in Clients, NEW v \in Views, UnindexAgain(c, v)
      PROVE  RestIsDeleted'
  BY <1>11 DEF UnindexAgain, removeKeyFromIndexes, Goto
<1>12. ASSUME NEW c \in Clients, NEW v \in Views, Load(c, v)
      PROVE  RestIsDeleted'
  BY <1>12 DEF Load
<1>13. ASSUME NEW c \in Clients, NEW v \in Views, LoadFails(c, v)
      PROVE  RestIsDeleted'
  BY <1>13 DEF LoadFails, Landed
<1>14. ASSUME NEW c \in Clients, NEW k \in Keys, Set(c, k)
      PROVE  RestIsDeleted'
  BY <1>14 DEF Set, Goto
<1>15. ASSUME NEW c \in Clients, NEW v \in Views, IndexView(c, v)
      PROVE  RestIsDeleted'
  BY <1>15 DEF IndexView, addKeyToIndexes, Landed
<1>16. ASSUME NEW c \in Clients, NEW t \in Tokens, Save(c, t)
      PROVE  RestIsDeleted'
  BY <1>16 DEF Save, withUserLock, Calls
<1>17. ASSUME NEW c \in Clients, NEW t \in Tokens, SaveRejected(c, t)
      PROVE  RestIsDeleted'
  BY <1>17 DEF SaveRejected, Returns
<1>18. ASSUME NEW c \in Clients, NEW t \in Tokens, IndexSession(c, t)
      PROVE  RestIsDeleted'
  BY <1>18 DEF IndexSession, addKeyToIndexes, Returns
<1>19. ASSUME NEW c \in Clients, NEW t \in Tokens, ExistsNot(c, t)
      PROVE  RestIsDeleted'
  BY <1>19 DEF ExistsNot, withUserLock, Calls
<1>20. ASSUME NEW c \in Clients, NEW t \in Tokens, DeleteSession(c, t)
      PROVE  RestIsDeleted'
  BY <1>20 DEF DeleteSession, withUserLock, Calls
<1>21. ASSUME NEW p \in Processes, NEW k \in Keys, Delete(p, k)
      PROVE  RestIsDeleted'
  BY <1>21 DEF Delete, Drop
<1>22. ASSUME NEW c \in Clients, NEW t \in Tokens, UnindexSession(c, t)
      PROVE  RestIsDeleted'
  BY <1>22 DEF UnindexSession, removeKeyFromIndexes, Returns, Goto
<1>23. ASSUME NEW c \in Clients, NEW t \in Tokens, ScanSession(c, t)
      PROVE  RestIsDeleted'
  BY <1>23 DEF ScanSession, removeKeyFromIndexes, Returns
<1>24. ASSUME NEW w \in Workers, Handle(w)
      PROVE  RestIsDeleted'
  BY <1>24 DEF Handle, KeysOfEvent, Calls
<1>25. ASSUME NEW w \in Workers, NEW v \in Views, Unindex(w, v)
      PROVE  RestIsDeleted'
  BY <1>25 DEF Unindex, removeKeyFromIndexes, Returns, Goto
<1>26. CASE UNCHANGED vars
  BY <1>26 DEF vars
<1>27. QED
  BY <1>1, <1>2, <1>3, <1>4, <1>5, <1>6, <1>7, <1>8, <1>9, <1>10, <1>11, <1>12, <1>13, <1>14,
     <1>15, <1>16, <1>17, <1>18, <1>19, <1>20, <1>21, <1>22, <1>23, <1>24, <1>25, <1>26
     DEF Next, ReadView, UseSession, DropViews, Processes, Views, Keys

\* Only who leads takes the steps of a load, and the flight ends with them.
LEMMA LeaderInv ==
    ASSUME TypeOK, OneLeader, [Next]_vars
    PROVE  OneLeader'
<1> USE CacheAssumption
       DEF TypeOK, Keys, Views, Processes, Versions, Steps, At, Cached, Idle, OneLeader, Loading
<1>1. ASSUME Change
      PROVE  OneLeader'
  BY <1>1 DEF Change
<1>2. ASSUME NEW k \in Keys, Expire(k)
      PROVE  OneLeader'
  BY <1>2 DEF Expire, Drop
<1>3. ASSUME NEW k \in Keys, OnEvict(k)
      PROVE  OneLeader'
  BY <1>3 DEF OnEvict, Drop
<1>4. ASSUME NEW c \in Clients, DeleteByUser(c)
      PROVE  OneLeader'
  BY <1>4 DEF DeleteByUser, withUserLock, Calls
<1>5. ASSUME NEW c \in Clients, ExistsByUser(c)
      PROVE  OneLeader'
  BY <1>5 DEF ExistsByUser, withUserLock, Calls
<1>6. ASSUME NEW c \in Clients, NEW v \in Views, GetMisses(c, v)
      PROVE  OneLeader'
  BY <1>6 DEF GetMisses, Calls
<1>7. ASSUME NEW c \in Clients, NEW v \in Views, UnindexMissed(c, v)
      PROVE  OneLeader'
  BY <1>7 DEF UnindexMissed, removeKeyFromIndexes, Goto
<1>8. ASSUME NEW c \in Clients, NEW v \in Views, Lead(c, v)
      PROVE  OneLeader'
  BY <1>8 DEF Lead, Goto
<1>9. ASSUME NEW c \in Clients, NEW v \in Views, Wait(c, v)
      PROVE  OneLeader'
  BY <1>9 DEF Wait, Goto
<1>10. ASSUME NEW c \in Clients, NEW v \in Views, GetAgain(c, v)
      PROVE  OneLeader'
  BY <1>10 DEF GetAgain, Landed, Goto
<1>11. ASSUME NEW c \in Clients, NEW v \in Views, UnindexAgain(c, v)
      PROVE  OneLeader'
  BY <1>11 DEF UnindexAgain, removeKeyFromIndexes, Goto
<1>12. ASSUME NEW c \in Clients, NEW v \in Views, Load(c, v)
      PROVE  OneLeader'
  BY <1>12 DEF Load
<1>13. ASSUME NEW c \in Clients, NEW v \in Views, LoadFails(c, v)
      PROVE  OneLeader'
  BY <1>13 DEF LoadFails, Landed
<1>14. ASSUME NEW c \in Clients, NEW k \in Keys, Set(c, k)
      PROVE  OneLeader'
  BY <1>14 DEF Set, Goto
<1>15. ASSUME NEW c \in Clients, NEW v \in Views, IndexView(c, v)
      PROVE  OneLeader'
  BY <1>15 DEF IndexView, addKeyToIndexes, Landed
<1>16. ASSUME NEW c \in Clients, NEW t \in Tokens, Save(c, t)
      PROVE  OneLeader'
  BY <1>16 DEF Save, withUserLock, Calls
<1>17. ASSUME NEW c \in Clients, NEW t \in Tokens, SaveRejected(c, t)
      PROVE  OneLeader'
  BY <1>17 DEF SaveRejected, Returns
<1>18. ASSUME NEW c \in Clients, NEW t \in Tokens, IndexSession(c, t)
      PROVE  OneLeader'
  BY <1>18 DEF IndexSession, addKeyToIndexes, Returns
<1>19. ASSUME NEW c \in Clients, NEW t \in Tokens, ExistsNot(c, t)
      PROVE  OneLeader'
  BY <1>19 DEF ExistsNot, withUserLock, Calls
<1>20. ASSUME NEW c \in Clients, NEW t \in Tokens, DeleteSession(c, t)
      PROVE  OneLeader'
  BY <1>20 DEF DeleteSession, withUserLock, Calls
<1>21. ASSUME NEW p \in Processes, NEW k \in Keys, Delete(p, k)
      PROVE  OneLeader'
  BY <1>21 DEF Delete, Drop
<1>22. ASSUME NEW c \in Clients, NEW t \in Tokens, UnindexSession(c, t)
      PROVE  OneLeader'
  BY <1>22 DEF UnindexSession, removeKeyFromIndexes, Returns, Goto
<1>23. ASSUME NEW c \in Clients, NEW t \in Tokens, ScanSession(c, t)
      PROVE  OneLeader'
  BY <1>23 DEF ScanSession, removeKeyFromIndexes, Returns
<1>24. ASSUME NEW w \in Workers, Handle(w)
      PROVE  OneLeader'
  BY <1>24 DEF Handle, KeysOfEvent, Calls
<1>25. ASSUME NEW w \in Workers, NEW v \in Views, Unindex(w, v)
      PROVE  OneLeader'
  BY <1>25 DEF Unindex, removeKeyFromIndexes, Returns, Goto
<1>26. CASE UNCHANGED vars
  BY <1>26 DEF vars
<1>27. QED
  BY <1>1, <1>2, <1>3, <1>4, <1>5, <1>6, <1>7, <1>8, <1>9, <1>10, <1>11, <1>12, <1>13, <1>14,
     <1>15, <1>16, <1>17, <1>18, <1>19, <1>20, <1>21, <1>22, <1>23, <1>24, <1>25, <1>26
     DEF Next, ReadView, UseSession, DropViews, Processes, Views, Keys

\* A call about a session takes the lock of the user first and gives it back last.
LEMMA LockInv ==
    ASSUME TypeOK, LockHeld, [Next]_vars
    PROVE  LockHeld'
<1> USE CacheAssumption
       DEF TypeOK, Keys, Views, Processes, Versions, Steps, At, Cached, Idle, LockHeld
<1>1. ASSUME Change
      PROVE  LockHeld'
  BY <1>1 DEF Change
<1>2. ASSUME NEW k \in Keys, Expire(k)
      PROVE  LockHeld'
  BY <1>2 DEF Expire, Drop
<1>3. ASSUME NEW k \in Keys, OnEvict(k)
      PROVE  LockHeld'
  BY <1>3 DEF OnEvict, Drop
<1>4. ASSUME NEW c \in Clients, DeleteByUser(c)
      PROVE  LockHeld'
  BY <1>4 DEF DeleteByUser, withUserLock, Calls
<1>5. ASSUME NEW c \in Clients, ExistsByUser(c)
      PROVE  LockHeld'
  BY <1>5 DEF ExistsByUser, withUserLock, Calls
<1>6. ASSUME NEW c \in Clients, NEW v \in Views, GetMisses(c, v)
      PROVE  LockHeld'
  BY <1>6 DEF GetMisses, Calls
<1>7. ASSUME NEW c \in Clients, NEW v \in Views, UnindexMissed(c, v)
      PROVE  LockHeld'
  BY <1>7 DEF UnindexMissed, removeKeyFromIndexes, Goto
<1>8. ASSUME NEW c \in Clients, NEW v \in Views, Lead(c, v)
      PROVE  LockHeld'
  BY <1>8 DEF Lead, Goto
<1>9. ASSUME NEW c \in Clients, NEW v \in Views, Wait(c, v)
      PROVE  LockHeld'
  BY <1>9 DEF Wait, Goto
<1>10. ASSUME NEW c \in Clients, NEW v \in Views, GetAgain(c, v)
      PROVE  LockHeld'
  BY <1>10 DEF GetAgain, Landed, Goto
<1>11. ASSUME NEW c \in Clients, NEW v \in Views, UnindexAgain(c, v)
      PROVE  LockHeld'
  BY <1>11 DEF UnindexAgain, removeKeyFromIndexes, Goto
<1>12. ASSUME NEW c \in Clients, NEW v \in Views, Load(c, v)
      PROVE  LockHeld'
  BY <1>12 DEF Load
<1>13. ASSUME NEW c \in Clients, NEW v \in Views, LoadFails(c, v)
      PROVE  LockHeld'
  BY <1>13 DEF LoadFails, Landed
<1>14. ASSUME NEW c \in Clients, NEW k \in Keys, Set(c, k)
      PROVE  LockHeld'
  BY <1>14 DEF Set, Goto
<1>15. ASSUME NEW c \in Clients, NEW v \in Views, IndexView(c, v)
      PROVE  LockHeld'
  BY <1>15 DEF IndexView, addKeyToIndexes, Landed
<1>16. ASSUME NEW c \in Clients, NEW t \in Tokens, Save(c, t)
      PROVE  LockHeld'
  BY <1>16 DEF Save, withUserLock, Calls
<1>17. ASSUME NEW c \in Clients, NEW t \in Tokens, SaveRejected(c, t)
      PROVE  LockHeld'
  BY <1>17 DEF SaveRejected, Returns
<1>18. ASSUME NEW c \in Clients, NEW t \in Tokens, IndexSession(c, t)
      PROVE  LockHeld'
  BY <1>18 DEF IndexSession, addKeyToIndexes, Returns
<1>19. ASSUME NEW c \in Clients, NEW t \in Tokens, ExistsNot(c, t)
      PROVE  LockHeld'
  BY <1>19 DEF ExistsNot, withUserLock, Calls
<1>20. ASSUME NEW c \in Clients, NEW t \in Tokens, DeleteSession(c, t)
      PROVE  LockHeld'
  BY <1>20 DEF DeleteSession, withUserLock, Calls
<1>21. ASSUME NEW p \in Processes, NEW k \in Keys, Delete(p, k)
      PROVE  LockHeld'
  BY <1>21 DEF Delete, Drop
<1>22. ASSUME NEW c \in Clients, NEW t \in Tokens, UnindexSession(c, t)
      PROVE  LockHeld'
  BY <1>22 DEF UnindexSession, removeKeyFromIndexes, Returns, Goto
<1>23. ASSUME NEW c \in Clients, NEW t \in Tokens, ScanSession(c, t)
      PROVE  LockHeld'
  BY <1>23 DEF ScanSession, removeKeyFromIndexes, Returns
<1>24. ASSUME NEW w \in Workers, Handle(w)
      PROVE  LockHeld'
  BY <1>24 DEF Handle, KeysOfEvent, Calls
<1>25. ASSUME NEW w \in Workers, NEW v \in Views, Unindex(w, v)
      PROVE  LockHeld'
  BY <1>25 DEF Unindex, removeKeyFromIndexes, Returns, Goto
<1>26. CASE UNCHANGED vars
  BY <1>26 DEF vars
<1>27. QED
  BY <1>1, <1>2, <1>3, <1>4, <1>5, <1>6, <1>7, <1>8, <1>9, <1>10, <1>11, <1>12, <1>13, <1>14,
     <1>15, <1>16, <1>17, <1>18, <1>19, <1>20, <1>21, <1>22, <1>23, <1>24, <1>25, <1>26
     DEF Next, ReadView, UseSession, DropViews, Processes, Views, Keys

\* Under that lock a session is stored before it is in the index and dropped before
\* it is taken out; what is cached while the key is being taken out is no session.
LEMMA SessionsInv ==
    ASSUME TypeOK, OneLeader, LockHeld, SessionsIndexed, [Next]_vars
    PROVE  SessionsIndexed'
<1> USE CacheAssumption
       DEF TypeOK, Keys, Views, Processes, Versions, Steps, At, Cached, Idle, OneLeader, LockHeld,
           SessionsIndexed, Loading
<1>1. ASSUME Change
      PROVE  SessionsIndexed'
  BY <1>1 DEF Change
<1>2. ASSUME NEW k \in Keys, Expire(k)
      PROVE  SessionsIndexed'
  BY <1>2 DEF Expire, Drop
<1>3. ASSUME NEW k \in Keys, OnEvict(k)
      PROVE  SessionsIndexed'
  BY <1>3 DEF OnEvict, Drop
<1>4. ASSUME NEW c \in Clients, DeleteByUser(c)
      PROVE  SessionsIndexed'
  BY <1>4 DEF DeleteByUser, withUserLock, Calls
<1>5. ASSUME NEW c \in Clients, ExistsByUser(c)
      PROVE  SessionsIndexed'
  BY <1>5 DEF ExistsByUser, withUserLock, Calls
<1>6. ASSUME NEW c \in Clients, NEW v \in Views, GetMisses(c, v)
      PROVE  SessionsIndexed'
  BY <1>6 DEF GetMisses, Calls
<1>7. ASSUME NEW c \in Clients, NEW v \in Views, UnindexMissed(c, v)
      PROVE  SessionsIndexed'
  BY <1>7 DEF UnindexMissed, removeKeyFromIndexes, Goto
<1>8. ASSUME NEW c \in Clients, NEW v \in Views, Lead(c, v)
      PROVE  SessionsIndexed'
  BY <1>8 DEF Lead, Goto
<1>9. ASSUME NEW c \in Clients, NEW v \in Views, Wait(c, v)
      PROVE  SessionsIndexed'
  BY <1>9 DEF Wait, Goto
<1>10. ASSUME NEW c \in Clients, NEW v \in Views, GetAgain(c, v)
      PROVE  SessionsIndexed'
  BY <1>10 DEF GetAgain, Landed, Goto
<1>11. ASSUME NEW c \in Clients, NEW v \in Views, UnindexAgain(c, v)
      PROVE  SessionsIndexed'
  BY <1>11 DEF UnindexAgain, removeKeyFromIndexes, Goto
<1>12. ASSUME NEW c \in Clients, NEW v \in Views, Load(c, v)
      PROVE  SessionsIndexed'
  BY <1>12 DEF Load
<1>13. ASSUME NEW c \in Clients, NEW v \in Views, LoadFails(c, v)
      PROVE  SessionsIndexed'
  BY <1>13 DEF LoadFails, Landed
<1>14. ASSUME NEW c \in Clients, NEW k \in Keys, Set(c, k)
      PROVE  SessionsIndexed'
  BY <1>14 DEF Set, Goto
<1>15. ASSUME NEW c \in Clients, NEW v \in Views, IndexView(c, v)
      PROVE  SessionsIndexed'
  BY <1>15 DEF IndexView, addKeyToIndexes, Landed
<1>16. ASSUME NEW c \in Clients, NEW t \in Tokens, Save(c, t)
      PROVE  SessionsIndexed'
  BY <1>16 DEF Save, withUserLock, Calls
<1>17. ASSUME NEW c \in Clients, NEW t \in Tokens, SaveRejected(c, t)
      PROVE  SessionsIndexed'
  BY <1>17 DEF SaveRejected, Returns
<1>18. ASSUME NEW c \in Clients, NEW t \in Tokens, IndexSession(c, t)
      PROVE  SessionsIndexed'
  BY <1>18 DEF IndexSession, addKeyToIndexes, Returns
<1>19. ASSUME NEW c \in Clients, NEW t \in Tokens, ExistsNot(c, t)
      PROVE  SessionsIndexed'
  BY <1>19 DEF ExistsNot, withUserLock, Calls
<1>20. ASSUME NEW c \in Clients, NEW t \in Tokens, DeleteSession(c, t)
      PROVE  SessionsIndexed'
  BY <1>20 DEF DeleteSession, withUserLock, Calls
<1>21. ASSUME NEW p \in Processes, NEW k \in Keys, Delete(p, k)
      PROVE  SessionsIndexed'
  BY <1>21 DEF Delete, Drop
<1>22. ASSUME NEW c \in Clients, NEW t \in Tokens, UnindexSession(c, t)
      PROVE  SessionsIndexed'
  BY <1>22 DEF UnindexSession, removeKeyFromIndexes, Returns, Goto
<1>23. ASSUME NEW c \in Clients, NEW t \in Tokens, ScanSession(c, t)
      PROVE  SessionsIndexed'
  BY <1>23 DEF ScanSession, removeKeyFromIndexes, Returns
<1>24. ASSUME NEW w \in Workers, Handle(w)
      PROVE  SessionsIndexed'
  BY <1>24 DEF Handle, KeysOfEvent, Calls
<1>25. ASSUME NEW w \in Workers, NEW v \in Views, Unindex(w, v)
      PROVE  SessionsIndexed'
  BY <1>25 DEF Unindex, removeKeyFromIndexes, Returns, Goto
<1>26. CASE UNCHANGED vars
  BY <1>26 DEF vars
<1>27. QED
  BY <1>1, <1>2, <1>3, <1>4, <1>5, <1>6, <1>7, <1>8, <1>9, <1>10, <1>11, <1>12, <1>13, <1>14,
     <1>15, <1>16, <1>17, <1>18, <1>19, <1>20, <1>21, <1>22, <1>23, <1>24, <1>25, <1>26
     DEF Next, ReadView, UseSession, DropViews, Processes, Views, Keys

\* A page that is stored leaves the index only in the hands of a lookup or of an event,
\* which raced records.
LEMMA PagesInv ==
    ASSUME TypeOK, OneLeader, PagesIndexed, [Next]_vars
    PROVE  PagesIndexed'
<1> USE CacheAssumption
       DEF TypeOK, Keys, Views, Processes, Versions, Steps, At, Cached, Idle, OneLeader,
           PagesIndexed, Loading
<1>1. ASSUME Change
      PROVE  PagesIndexed'
  BY <1>1 DEF Change
<1>2. ASSUME NEW k \in Keys, Expire(k)
      PROVE  PagesIndexed'
  BY <1>2 DEF Expire, Drop
<1>3. ASSUME NEW k \in Keys, OnEvict(k)
      PROVE  PagesIndexed'
  BY <1>3 DEF OnEvict, Drop
<1>4. ASSUME NEW c \in Clients, DeleteByUser(c)
      PROVE  PagesIndexed'
  BY <1>4 DEF DeleteByUser, withUserLock, Calls
<1>5. ASSUME NEW c \in Clients, ExistsByUser(c)
      PROVE  PagesIndexed'
  BY <1>5 DEF ExistsByUser, withUserLock, Calls
<1>6. ASSUME NEW c \in Clients, NEW v \in Views, GetMisses(c, v)
      PROVE  PagesIndexed'
  BY <1>6 DEF GetMisses, Calls
<1>7. ASSUME NEW c \in Clients, NEW v \in Views, UnindexMissed(c, v)
      PROVE  PagesIndexed'
  BY <1>7 DEF UnindexMissed, removeKeyFromIndexes, Goto
<1>8. ASSUME NEW c \in Clients, NEW v \in Views, Lead(c, v)
      PROVE  PagesIndexed'
  BY <1>8 DEF Lead, Goto
<1>9. ASSUME NEW c \in Clients, NEW v \in Views, Wait(c, v)
      PROVE  PagesIndexed'
  BY <1>9 DEF Wait, Goto
<1>10. ASSUME NEW c \in Clients, NEW v \in Views, GetAgain(c, v)
      PROVE  PagesIndexed'
  BY <1>10 DEF GetAgain, Landed, Goto
<1>11. ASSUME NEW c \in Clients, NEW v \in Views, UnindexAgain(c, v)
      PROVE  PagesIndexed'
  BY <1>11 DEF UnindexAgain, removeKeyFromIndexes, Goto
<1>12. ASSUME NEW c \in Clients, NEW v \in Views, Load(c, v)
      PROVE  PagesIndexed'
  BY <1>12 DEF Load
<1>13. ASSUME NEW c \in Clients, NEW v \in Views, LoadFails(c, v)
      PROVE  PagesIndexed'
  BY <1>13 DEF LoadFails, Landed
<1>14. ASSUME NEW c \in Clients, NEW k \in Keys, Set(c, k)
      PROVE  PagesIndexed'
  BY <1>14 DEF Set, Goto
<1>15. ASSUME NEW c \in Clients, NEW v \in Views, IndexView(c, v)
      PROVE  PagesIndexed'
  BY <1>15 DEF IndexView, addKeyToIndexes, Landed
<1>16. ASSUME NEW c \in Clients, NEW t \in Tokens, Save(c, t)
      PROVE  PagesIndexed'
  BY <1>16 DEF Save, withUserLock, Calls
<1>17. ASSUME NEW c \in Clients, NEW t \in Tokens, SaveRejected(c, t)
      PROVE  PagesIndexed'
  BY <1>17 DEF SaveRejected, Returns
<1>18. ASSUME NEW c \in Clients, NEW t \in Tokens, IndexSession(c, t)
      PROVE  PagesIndexed'
  BY <1>18 DEF IndexSession, addKeyToIndexes, Returns
<1>19. ASSUME NEW c \in Clients, NEW t \in Tokens, ExistsNot(c, t)
      PROVE  PagesIndexed'
  BY <1>19 DEF ExistsNot, withUserLock, Calls
<1>20. ASSUME NEW c \in Clients, NEW t \in Tokens, DeleteSession(c, t)
      PROVE  PagesIndexed'
  BY <1>20 DEF DeleteSession, withUserLock, Calls
<1>21. ASSUME NEW p \in Processes, NEW k \in Keys, Delete(p, k)
      PROVE  PagesIndexed'
  BY <1>21 DEF Delete, Drop
<1>22. ASSUME NEW c \in Clients, NEW t \in Tokens, UnindexSession(c, t)
      PROVE  PagesIndexed'
  BY <1>22 DEF UnindexSession, removeKeyFromIndexes, Returns, Goto
<1>23. ASSUME NEW c \in Clients, NEW t \in Tokens, ScanSession(c, t)
      PROVE  PagesIndexed'
  BY <1>23 DEF ScanSession, removeKeyFromIndexes, Returns
<1>24. ASSUME NEW w \in Workers, Handle(w)
      PROVE  PagesIndexed'
  BY <1>24 DEF Handle, KeysOfEvent, Calls
<1>25. ASSUME NEW w \in Workers, NEW v \in Views, Unindex(w, v)
      PROVE  PagesIndexed'
  BY <1>25 DEF Unindex, removeKeyFromIndexes, Returns, Goto
<1>26. CASE UNCHANGED vars
  BY <1>26 DEF vars
<1>27. QED
  BY <1>1, <1>2, <1>3, <1>4, <1>5, <1>6, <1>7, <1>8, <1>9, <1>10, <1>11, <1>12, <1>13, <1>14,
     <1>15, <1>16, <1>17, <1>18, <1>19, <1>20, <1>21, <1>22, <1>23, <1>24, <1>25, <1>26
     DEF Next, ReadView, UseSession, DropViews, Processes, Views, Keys

\* An event that is taken passes by no page of the index and no detail; what it drops
\* stays its own until it is dropped.
LEMMA StaleInv ==
    ASSUME TypeOK, OneLeader, RestIsDeleted, PagesIndexed, StaleOnlyByRace, [Next]_vars
    PROVE  StaleOnlyByRace'
<1> USE CacheAssumption
       DEF TypeOK, Keys, Views, Processes, Versions, Steps, At, Cached, Idle, OneLeader,
           RestIsDeleted, PagesIndexed, StaleOnlyByRace, OutOfDate, Loading, Deleting
<1>1. ASSUME Change
      PROVE  StaleOnlyByRace'
  BY <1>1 DEF Change
<1>2. ASSUME NEW k \in Keys, Expire(k)
      PROVE  StaleOnlyByRace'
  BY <1>2 DEF Expire, Drop
<1>3. ASSUME NEW k \in Keys, OnEvict(k)
      PROVE  StaleOnlyByRace'
  BY <1>3 DEF OnEvict, Drop
<1>4. ASSUME NEW c \in Clients, DeleteByUser(c)
      PROVE  StaleOnlyByRace'
  BY <1>4 DEF DeleteByUser, withUserLock, Calls
<1>5. ASSUME NEW c \in Clients, ExistsByUser(c)
      PROVE  StaleOnlyByRace'
  BY <1>5 DEF ExistsByUser, withUserLock, Calls
<1>6. ASSUME NEW c \in Clients, NEW v \in Views, GetMisses(c, v)
      PROVE  StaleOnlyByRace'
  BY <1>6 DEF GetMisses, Calls
<1>7. ASSUME NEW c \in Clients, NEW v \in Views, UnindexMissed(c, v)
      PROVE  StaleOnlyByRace'
  BY <1>7 DEF UnindexMissed, removeKeyFromIndexes, Goto
<1>8. ASSUME NEW c \in Clients, NEW v \in Views, Lead(c, v)
      PROVE  StaleOnlyByRace'
  BY <1>8 DEF Lead, Goto
<1>9. ASSUME NEW c \in Clients, NEW v \in Views, Wait(c, v)
      PROVE  StaleOnlyByRace'
  BY <1>9 DEF Wait, Goto
<1>10. ASSUME NEW c \in Clients, NEW v \in Views, GetAgain(c, v)
      PROVE  StaleOnlyByRace'
  BY <1>10 DEF GetAgain, Landed, Goto
<1>11. ASSUME NEW c \in Clients, NEW v \in Views, UnindexAgain(c, v)
      PROVE  StaleOnlyByRace'
  BY <1>11 DEF UnindexAgain, removeKeyFromIndexes, Goto
<1>12. ASSUME NEW c \in Clients, NEW v \in Views, Load(c, v)
      PROVE  StaleOnlyByRace'
  BY <1>12 DEF Load
<1>13. ASSUME NEW c \in Clients, NEW v \in Views, LoadFails(c, v)
      PROVE  StaleOnlyByRace'
  BY <1>13 DEF LoadFails, Landed
<1>14. ASSUME NEW c \in Clients, NEW k \in Keys, Set(c, k)
      PROVE  StaleOnlyByRace'
  BY <1>14 DEF Set, Goto
<1>15. ASSUME NEW c \in Clients, NEW v \in Views, IndexView(c, v)
      PROVE  StaleOnlyByRace'
  BY <1>15 DEF IndexView, addKeyToIndexes, Landed
<1>16. ASSUME NEW c \in Clients, NEW t \in Tokens, Save(c, t)
      PROVE  StaleOnlyByRace'
  BY <1>16 DEF Save, withUserLock, Calls
<1>17. ASSUME NEW c \in Clients, NEW t \in Tokens, SaveRejected(c, t)
      PROVE  StaleOnlyByRace'
  BY <1>17 DEF SaveRejected, Returns
<1>18. ASSUME NEW c \in Clients, NEW t \in Tokens, IndexSession(c, t)
      PROVE  StaleOnlyByRace'
  BY <1>18 DEF IndexSession, addKeyToIndexes, Returns
<1>19. ASSUME NEW c \in Clients, NEW t \in Tokens, ExistsNot(c, t)
      PROVE  StaleOnlyByRace'
  BY <1>19 DEF ExistsNot, withUserLock, Calls
<1>20. ASSUME NEW c \in Clients, NEW t \in Tokens, DeleteSession(c, t)
      PROVE  StaleOnlyByRace'
  BY <1>20 DEF DeleteSession, withUserLock, Calls
<1>21. ASSUME NEW p \in Processes, NEW k \in Keys, Delete(p, k)
      PROVE  StaleOnlyByRace'
  BY <1>21 DEF Delete, Drop
<1>22. ASSUME NEW c \in Clients, NEW t \in Tokens, UnindexSession(c, t)
      PROVE  StaleOnlyByRace'
  BY <1>22 DEF UnindexSession, removeKeyFromIndexes, Returns, Goto
<1>23. ASSUME NEW c \in Clients, NEW t \in Tokens, ScanSession(c, t)
      PROVE  StaleOnlyByRace'
  BY <1>23 DEF ScanSession, removeKeyFromIndexes, Returns
<1>24. ASSUME NEW w \in Workers, Handle(w)
      PROVE  StaleOnlyByRace'
  BY <1>24 DEF Handle, KeysOfEvent, Calls
<1>25. ASSUME NEW w \in Workers, NEW v \in Views, Unindex(w, v)
      PROVE  StaleOnlyByRace'
  BY <1>25 DEF Unindex, removeKeyFromIndexes, Returns, Goto
<1>26. CASE UNCHANGED vars
  BY <1>26 DEF vars
<1>27. QED
  BY <1>1, <1>2, <1>3, <1>4, <1>5, <1>6, <1>7, <1>8, <1>9, <1>10, <1>11, <1>12, <1>13, <1>14,
     <1>15, <1>16, <1>17, <1>18, <1>19, <1>20, <1>21, <1>22, <1>23, <1>24, <1>25, <1>26
     DEF Next, ReadView, UseSession, DropViews, Processes, Views, Keys

\* The cache starts empty.
LEMMA InitInv == Init => IInv
<1> SUFFICES ASSUME Init PROVE IInv
  OBVIOUS
<1> USE CacheAssumption DEF Init, Keys, Views, Processes, Versions, Steps, At, Cached, Idle
<1>1. TypeOK /\ pending <= rows
  BY DEF TypeOK
<1>2. OneLeader /\ LockHeld /\ RestIsDeleted
  BY DEF OneLeader, LockHeld, RestIsDeleted
<1>3. SessionsIndexed /\ PagesIndexed /\ StaleOnlyByRace
  BY DEF SessionsIndexed, PagesIndexed, StaleOnlyByRace, OutOfDate
<1>4. QED
  BY <1>1, <1>2, <1>3 DEF IInv

\* Every step preserves the invariant.
LEMMA NextInv == IInv /\ [Next]_vars => IInv'
  BY TypeInv, RestInv, LeaderInv, LockInv, SessionsInv, PagesInv, StaleInv DEF IInv

\* IInv holds in every state of every behaviour.
THEOREM Invariance == Spec => []IInv
<1>1. QED
  BY InitInv, NextInv, PTL DEF Spec

\* Values, index, calls, flights and lock keep their types (cache.go).
THEOREM TypeCorrect == Spec => []TypeOK
<1>1. IInv => TypeOK
  BY DEF IInv
<1>2. QED
  BY <1>1, Invariance, PTL

\* However logins, lookups, expiry and evictions interleave, whoever takes the lock to end
\* the sessions of a user finds them all (CacheSessionRepository DeleteByUser).
THEOREM SessionsAreFound == Spec => []SessionsFound
<1>1. IInv => SessionsFound
  <2>1. SUFFICES ASSUME IInv, lock = None, NEW t \in Tokens, Cached(t)
                 PROVE  t \in index
    BY DEF SessionsFound
  <2>2. ASSUME NEW p \in Processes
        PROVE  ~At(p, "index", t)
    <3>1. p # None
      BY CacheAssumption DEF Processes
    <3>2. QED
      BY <2>1, <3>1 DEF IInv, LockHeld, At
  <2>3. QED
    BY <2>1, <2>2 DEF IInv, SessionsIndexed
<1>2. QED
  BY <1>1, Invariance, PTL

\* A view is older than the rows only in the windows the code leaves open
\* (GetOrSetWithTTL, CacheInvalidationHandler).
THEOREM StaleByRaceOnly == Spec => []StaleOnlyByRace
<1>1. IInv => StaleOnlyByRace
  BY DEF IInv
<1>2. QED
  BY <1>1, Invariance, PTL

-----------------------------------------------------------------------------
(* The walk through a list: sets of entries in the order of their places *)

\* A set of numbers that is not empty has a least one.
LEMMA LeastNumber ==
    ASSUME NEW T, T \subseteq Nat, T # {}
    PROVE  \E n \in T : \A m \in T : n <= m
<1> DEFINE R == {ss \in Nat \X Nat : ss[1] < ss[2]}
<1>1. IsWellFoundedOn(R, Nat)
  BY NatLessThanWellFounded DEF OpToRel
<1>2. \A m, n \in Nat : m < n => <<m, n>> \in R
  OBVIOUS
<1> HIDE DEF R
<1>3. PICK n \in T : \A m \in T : ~(<<m, n>> \in R)
  BY <1>1, WFMin
<1>4. \A m \in T : ~(m < n)
  BY <1>2, <1>3
<1>5. QED
  BY <1>4

\* In a strict order a finite set that is not empty has an element that nothing precedes.
LEMMA Minimal ==
    ASSUME NEW S, IsFiniteSet(S), S # {}, NEW R,
           \A x \in S : <<x, x>> \notin R,
           \A x, y, z \in S : <<x, y>> \in R /\ <<y, z>> \in R => <<x, z>> \in R
    PROVE  \E m \in S : \A y \in S : <<y, m>> \notin R
<1> DEFINE B(x) == {y \in S : <<y, x>> \in R}
           T == {Cardinality(B(x)) : x \in S}
<1>1. ASSUME NEW x \in S
      PROVE  IsFiniteSet(B(x)) /\ Cardinality(B(x)) \in Nat
  <2>1. B(x) \in SUBSET S
    OBVIOUS
  <2>2. IsFiniteSet(B(x))
    BY <2>1, FS_Subset, Zenon
  <2>3. QED
    BY <2>2, FS_CardinalityType, Zenon
<1>2. T \subseteq Nat /\ T # {}
  <2>1. \A x \in S : Cardinality(B(x)) \in Nat
    BY <1>1, Zenon
  <2> HIDE DEF B
  <2>2. QED
    BY <2>1
<1>3. PICK n \in T : \A k \in T : n <= k
  <2> HIDE DEF B, T
  <2>1. QED
    BY <1>2, LeastNumber, Zenon
<1>4. PICK m \in S : n = Cardinality(B(m))
  BY <1>3, Zenon
<1>5. ASSUME NEW y \in S, <<y, m>> \in R
      PROVE  FALSE
  <2>1. B(y) \in SUBSET B(m)
    BY <1>5
  <2>2. y \in B(m) /\ y \notin B(y)
    BY <1>5
  <2>3. IsFiniteSet(B(m))
    BY <1>1, Zenon
  <2>4. /\ Cardinality(B(y)) <= Cardinality(B(m))
        /\ Cardinality(B(m)) = Cardinality(B(y)) => B(m) = B(y)
    BY <2>1, <2>3, FS_Subset, Zenon
  <2>5. Cardinality(B(m)) # Cardinality(B(y))
    BY <2>2, <2>4, Zenon
  <2>6. Cardinality(B(y)) \in T
    BY Zenon
  <2>7. Cardinality(B(m)) <= Cardinality(B(y))
    BY <1>3, <1>4, <2>6, Zenon
  <2>8. Cardinality(B(m)) \in Nat /\ Cardinality(B(y)) \in Nat
    BY <1>1, Zenon
  <2>9. QED
    <3> DEFINE a == Cardinality(B(m))
               b == Cardinality(B(y))
    <3>1. a \in Nat /\ b \in Nat /\ a # b /\ a <= b /\ b <= a
      BY <2>4, <2>5, <2>7, <2>8, Zenon
    <3> HIDE DEF a, b
    <3>2. QED
      BY <3>1
<1>6. QED
  BY <1>5, Zenon

\* Places are in a strict total order, and none is the start.
LEMMA PlaceOrder ==
    /\ \A p \in Places : p # Start /\ ~Precedes(p, p)
    /\ \A p, q \in Places : p = q \/ Precedes(p, q) \/ Precedes(q, p)
    /\ \A p, q, r \in Places : Precedes(p, q) /\ Precedes(q, r) => Precedes(p, r)
<1>1. \A p \in Places : /\ p[1] \in Int /\ p[2] \in Int
                       /\ p = <<p[1], p[2]>> /\ p # Start
  BY ListingAssumption DEF Places, Start
<1>2. \A p, q \in Places : p = q <=> p[1] = q[1] /\ p[2] = q[2]
  BY <1>1, Zenon
<1>3. \A p \in Places : ~Precedes(p, p)
  BY <1>1 DEF Precedes
<1>4. \A p, q \in Places : p = q \/ Precedes(p, q) \/ Precedes(q, p)
  BY <1>1, <1>2 DEF Precedes
<1>5. \A p, q, r \in Places : Precedes(p, q) /\ Precedes(q, r) => Precedes(p, r)
  BY <1>1 DEF Precedes
<1>6. QED
  BY <1>1, <1>3, <1>4, <1>5, Zenon

\* Of two entries one precedes the other; and what follows from the order of their places.
LEMMA EntryOrder ==
    /\ \A x \in Entries : x.at \in Places /\ x.id \in Items /\ ~Precedes(x.at, x.at)
    /\ \A x, y \in Entries : x = y \/ Precedes(x.at, y.at) \/ Precedes(y.at, x.at)
    /\ \A x, y \in Entries : Precedes(x.at, y.at) => ~Precedes(y.at, x.at)
    /\ \A x, y, z \in Entries : Precedes(x.at, y.at) /\ Precedes(y.at, z.at) => Precedes(x.at, z.at)
<1>1. \A x \in Entries : x.at \in Places /\ x.id \in Items
  BY DEF Entries
<1>2. \A x, y \in Entries : x.at = y.at => x = y
  BY DEF Entries
<1>3. QED
  BY <1>1, <1>2, PlaceOrder, Zenon

\* A finite set of entries that is not empty has one that nothing precedes, and one that
\* precedes nothing.
LEMMA Ends ==
    ASSUME NEW S, S \subseteq Entries, IsFiniteSet(S), S # {}
    PROVE  /\ \E m \in S : \A y \in S : ~Precedes(y.at, m.at)
           /\ \E m \in S : \A y \in S : ~Precedes(m.at, y.at)
<1>1. \E m \in S : \A y \in S : ~Precedes(y.at, m.at)
  <2> DEFINE R == {ss \in S \X S : Precedes(ss[1].at, ss[2].at)}
  <2>1. \A x, y \in S : <<x, y>> \in R <=> Precedes(x.at, y.at)
    OBVIOUS
  <2> HIDE DEF R
  <2>2. \A x \in S : <<x, x>> \notin R
    BY <2>1, EntryOrder, Zenon
  <2>3. \A x, y, z \in S : <<x, y>> \in R /\ <<y, z>> \in R => <<x, z>> \in R
    <3>1. \A x \in S : x \in Entries
      OBVIOUS
    <3>2. QED
      BY <2>1, <3>1, EntryOrder, Zenon
  <2>4. \E m \in S : \A y \in S : <<y, m>> \notin R
    BY <2>2, <2>3, Minimal, Zenon
  <2>5. QED
    BY <2>1, <2>4, Zenon
<1>2. \E m \in S : \A y \in S : ~Precedes(m.at, y.at)
  <2> DEFINE R == {ss \in S \X S : Precedes(ss[2].at, ss[1].at)}
  <2>1. \A x, y \in S : <<x, y>> \in R <=> Precedes(y.at, x.at)
    OBVIOUS
  <2> HIDE DEF R
  <2>2. \A x \in S : <<x, x>> \notin R
    BY <2>1, EntryOrder, Zenon
  <2>3. \A x, y, z \in S : <<x, y>> \in R /\ <<y, z>> \in R => <<x, z>> \in R
    <3>1. \A x \in S : x \in Entries
      OBVIOUS
    <3>2. QED
      BY <2>1, <3>1, EntryOrder, Zenon
  <2>4. \E m \in S : \A y \in S : <<y, m>> \notin R
    BY <2>2, <2>3, Minimal, Zenon
  <2>5. QED
    BY <2>1, <2>4, Zenon
<1>3. QED
  BY <1>1, <1>2

\* The last entry is one of the set, and none comes after it.
LEMMA LastIs ==
    ASSUME NEW S, S \subseteq Entries, IsFiniteSet(S), S # {}
    PROVE  LastOf(S) \in S /\ \A y \in S : y = LastOf(S) \/ Precedes(y.at, LastOf(S).at)
<1>1. LastOf(S) \in S /\ \A y \in S : ~Precedes(LastOf(S).at, y.at)
  BY Ends, Zenon DEF LastOf
<1>2. QED
  BY <1>1, EntryOrder, Zenon

\* The first n entries: all that precede one of them are among them; there are n of them or
\* they are all there are; and the others come after them.
LEMMA FirstIs ==
    ASSUME NEW S, S \subseteq Entries, IsFiniteSet(S), NEW n \in Nat
    PROVE  /\ FirstOf(S, n) \subseteq S
           /\ IsFiniteSet(FirstOf(S, n))
           /\ \A x \in S \ FirstOf(S, n) : Beyond(x, FirstOf(S, n), n)
           /\ Cardinality(S) <= n => FirstOf(S, n) = S
           /\ S # {} /\ n > 0 => FirstOf(S, n) # {}
<1> DEFINE B(x) == {y \in S : Precedes(y.at, x.at)}
           F == FirstOf(S, n)
<1>1. F = {x \in S : Cardinality(B(x)) < n}
  BY DEF FirstOf
<1>2. ASSUME NEW x \in S
      PROVE  IsFiniteSet(B(x)) /\ Cardinality(B(x)) \in Nat /\ x \notin B(x)
  <2>1. B(x) \in SUBSET S
    OBVIOUS
  <2>2. IsFiniteSet(B(x))
    BY <2>1, FS_Subset, Zenon
  <2>3. x \notin B(x)
    BY EntryOrder, Zenon
  <2>4. QED
    BY <2>2, <2>3, FS_CardinalityType, Zenon
<1>3. F \in SUBSET S
  BY <1>1, Zenon
<1>4. IsFiniteSet(F) /\ Cardinality(F) \in Nat
  BY <1>3, FS_Subset, FS_CardinalityType, Zenon
<1>5. ASSUME NEW x \in F, NEW y \in S, Precedes(y.at, x.at)
      PROVE  y \in F
  <2>1. x \in S /\ Cardinality(B(x)) < n
    BY <1>1, Zenon
  <2>2. B(y) \in SUBSET B(x)
    <3>1. \A z \in B(y) : z \in S /\ Precedes(z.at, x.at)
      BY <1>3, <1>5, EntryOrder
    <3>2. QED
      BY <3>1
  <2>3. IsFiniteSet(B(x))
    BY <1>2, <2>1, Zenon
  <2>4. Cardinality(B(y)) <= Cardinality(B(x))
    BY <2>2, <2>3, FS_Subset, Zenon
  <2>5. Cardinality(B(y)) \in Nat /\ Cardinality(B(x)) \in Nat
    BY <1>2, <2>1, Zenon
  <2>6. Cardinality(B(y)) < n
    <3> DEFINE a == Cardinality(B(x))
               b == Cardinality(B(y))
    <3>1. a \in Nat /\ b \in Nat /\ b <= a /\ a < n
      BY <2>1, <2>4, <2>5, Zenon
    <3> HIDE DEF a, b
    <3>2. b < n
      BY <3>1
    <3>3. QED
      BY <3>2 DEF b
  <2>7. QED
    BY <1>1, <2>6, Zenon
<1>6. ASSUME NEW x \in S \ F, NEW y \in F
      PROVE  Precedes(y.at, x.at)
  <2>1. ~Precedes(x.at, y.at)
    BY <1>5, <1>6, Zenon
  <2>2. x # y /\ x \in Entries /\ y \in Entries
    BY <1>3
  <2>3. QED
    BY <2>1, <2>2, EntryOrder, Zenon
<1>7. ASSUME NEW x \in S \ F
      PROVE  Cardinality(F) >= n
  <2> DEFINE G == S \ F
  <2>1. G \in SUBSET S /\ G # {}
    BY <1>7
  <2>2. IsFiniteSet(G) /\ G \subseteq Entries
    BY <2>1, FS_Subset, Zenon
  <2>3. PICK m \in G : \A y \in G : ~Precedes(y.at, m.at)
    <3> HIDE DEF G
    <3>1. QED
      BY <2>1, <2>2, Ends, Zenon
  <2>4. B(m) \in SUBSET F
    BY <2>3
  <2>5. Cardinality(B(m)) <= Cardinality(F)
    BY <1>4, <2>4, FS_Subset, Zenon
  <2>6. m \in S /\ ~(Cardinality(B(m)) < n)
    BY <1>1, <2>3, Zenon
  <2>7. Cardinality(B(m)) \in Nat
    BY <1>2, <2>6, Zenon
  <2>8. QED
    <3> DEFINE a == Cardinality(B(m))
               b == Cardinality(F)
    <3>1. a \in Nat /\ b \in Nat /\ a <= b /\ ~(a < n)
      BY <1>4, <2>5, <2>6, <2>7, Zenon
    <3> HIDE DEF a, b
    <3>2. b >= n
      BY <3>1
    <3>3. QED
      BY <3>2 DEF b
<1>8. ASSUME Cardinality(S) <= n
      PROVE  F = S
  <2>1. ASSUME NEW x \in S
        PROVE  Cardinality(B(x)) < n
    <3>1. B(x) \in SUBSET S /\ B(x) # S
      BY <1>2
    <3>2. Cardinality(B(x)) <= Cardinality(S) /\ Cardinality(S) # Cardinality(B(x))
      BY <3>1, FS_Subset, Zenon
    <3>3. Cardinality(S) \in Nat /\ Cardinality(B(x)) \in Nat
      BY <1>2, FS_CardinalityType, Zenon
    <3>4. QED
      <4> DEFINE a == Cardinality(B(x))
                 b == Cardinality(S)
      <4>1. a \in Nat /\ b \in Nat /\ a <= b /\ b # a /\ b <= n
        BY <1>8, <3>2, <3>3, Zenon
      <4> HIDE DEF a, b
      <4>2. a < n
        BY <4>1
      <4>3. QED
        BY <4>2 DEF a
  <2>2. QED
    BY <1>1, <2>1, Zenon
<1>9. ASSUME S # {}, n > 0
      PROVE  F # {}
  <2>1. PICK m \in S : \A y \in S : ~Precedes(y.at, m.at)
    BY <1>9, Ends, Zenon
  <2>2. B(m) = {}
    BY <2>1, Zenon
  <2>3. Cardinality(B(m)) = 0
    BY <2>2, FS_EmptySet, Zenon
  <2>4. Cardinality(B(m)) < n
    <3> DEFINE a == Cardinality(B(m))
    <3>1. a = 0
      BY <2>3, Zenon
    <3> HIDE DEF a
    <3>2. a < n
      BY <1>9, <3>1
    <3>3. QED
      BY <3>2 DEF a
  <2>5. QED
    BY <1>1, <2>4, Zenon
<1>10. QED
  <2> HIDE DEF B
  <2>1. \A x \in S \ F : Beyond(x, F, n)
    BY <1>6, <1>7, Zenon DEF Beyond
  <2>2. QED
    BY <1>3, <1>4, <1>8, <1>9, <2>1, Zenon

-----------------------------------------------------------------------------
(* The walk through a list: what was read *)

\* The place of an item ends with its id, and its entry is one.
LEMMA PositionIs ==
    ASSUME WalkTypeOK
    PROVE  \A i \in Items : /\ Position(i) \in Places /\ Position(i)[2] = i
                            /\ Entry(i) \in Entries /\ Entry(i).id = i /\ Entry(i).at = Position(i)
<1>1. ASSUME NEW i \in Items
      PROVE  Position(i) \in Places /\ Position(i)[2] = i
  <2>1. rank[i] \in Int
    BY ListingAssumption DEF WalkTypeOK, Unranked
  <2>2. QED
    BY <2>1 DEF Position, Places
<1>2. QED
  BY <1>1 DEF Entry, Entries

\* Of the items of a source those are fetched that come first, where they are.
LEMMA InOrderIs ==
    ASSUME WalkTypeOK, NEW source, source \subseteq Items
    PROVE  /\ InOrder(source) \subseteq Entries /\ IsFiniteSet(InOrder(source))
           /\ \A x \in InOrder(source) : x.id \in source /\ x = Entry(x.id)
           /\ \A i \in source : \/ Entry(i) \in InOrder(source)
                                \/ Beyond(Entry(i), InOrder(source), FetchSize)
<1> DEFINE S == {Entry(i) : i \in source}
           f == [i \in source |-> Entry(i)]
<1>1. \A x \in S : x \in Entries /\ x.id \in source /\ x = Entry(x.id)
  BY PositionIs
<1>2. IsFiniteSet(S)
  <2>1. IsFiniteSet(source)
    BY ListingAssumption, FS_Subset, Zenon
  <2>2. f \in Surjection(source, S)
    BY DEF Surjection
  <2>3. QED
    BY <2>1, <2>2, FS_Surjection, Zenon
<1>3. InOrder(source) = FirstOf(S, FetchSize)
  BY DEF InOrder
<1>4. FetchSize \in Nat
  BY ListingAssumption DEF FetchSize
<1>5. \A i \in source : Entry(i) \in S
  OBVIOUS
<1> HIDE DEF S, f
<1>6. S \subseteq Entries
  BY <1>1
<1>7. /\ FirstOf(S, FetchSize) \subseteq S /\ IsFiniteSet(FirstOf(S, FetchSize))
      /\ \A x \in S \ FirstOf(S, FetchSize) : Beyond(x, FirstOf(S, FetchSize), FetchSize)
  BY <1>2, <1>4, <1>6, FirstIs, Zenon
<1>8. QED
  BY <1>1, <1>3, <1>5, <1>7, Zenon

\* Of a source what comes after the cursor is fetched, or is beyond what is fetched; so
\* when nothing is fetched, there is nothing.
LEMMA FetchedIs ==
    ASSUME WalkTypeOK, NEW source, source \subseteq Items
    PROVE  /\ Fetched(source) \subseteq Entries /\ IsFiniteSet(Fetched(source))
           /\ \A x \in Fetched(source) : /\ x.id \in source /\ x = Entry(x.id)
                                         /\ AfterCursor(from, x.at)
           /\ \A i \in source : AfterCursor(from, Position(i)) =>
                  \/ Entry(i) \in Fetched(source)
                  \/ /\ Beyond(Entry(i), Fetched(source), FetchSize)
                     /\ Fetched(source) # {}
<1> DEFINE T == {i \in source : AfterCursor(from, Position(i))}
<1>1. T \subseteq Items /\ Fetched(source) = InOrder(T)
  BY DEF Fetched
<1>2. \A i \in T : i \in source /\ i \in Items /\ AfterCursor(from, Position(i))
  OBVIOUS
<1>3. \A i \in source : AfterCursor(from, Position(i)) => i \in T
  OBVIOUS
<1> HIDE DEF T
<1>4. /\ InOrder(T) \subseteq Entries /\ IsFiniteSet(InOrder(T))
      /\ \A x \in InOrder(T) : x.id \in T /\ x = Entry(x.id)
      /\ \A i \in T : Entry(i) \in InOrder(T) \/ Beyond(Entry(i), InOrder(T), FetchSize)
  BY <1>1, InOrderIs, Zenon
<1>5. \A x \in InOrder(T) : x.id \in source /\ AfterCursor(from, x.at)
  BY <1>2, <1>4, PositionIs, Zenon
<1>6. ~(Cardinality({}) >= FetchSize)
  <2>1. Cardinality({}) = 0
    BY FS_EmptySet, Zenon
  <2>2. QED
    BY <2>1, ListingAssumption DEF FetchSize
<1>7. \A x : Beyond(x, InOrder(T), FetchSize) => InOrder(T) # {}
  BY <1>6, Zenon DEF Beyond
<1>8. QED
  BY <1>1, <1>3, <1>4, <1>5, <1>7, Zenon

\* What is listed is settled where it is.
LEMMA ListedSettled ==
    ASSUME WalkTypeOK
    PROVE  /\ Listed \subseteq Items
           /\ \A i \in Listed : Settled(Position(i)) /\ Settled(Entry(i).at)
<1>1. Listed \subseteq Items
  BY DEF Listed, SelectPosts, SelectDraftPostsByAuthorID, SelectByRecipientUserID,
         SelectVisibleComments, SelectBoardList, SelectBoardListIncludingHidden, SelectDead,
         SelectList, Published, WalkTypeOK, Chosen
<1>2. ASSUME NEW i \in Listed
      PROVE  Settled(Position(i)) /\ Settled(Entry(i).at)
  <2>1. i \in Items
    BY <1>1
  <2>2. Position(i)[2] = i /\ Entry(i).at = Position(i) /\ Position(i)[1] \in Int
    BY <2>1, PositionIs, ListingAssumption DEF Places
  <2>3. kind = "reports" => status[i] # "draft"
    BY DEF Listed, SelectList, Chosen
  <2>4. QED
    BY <2>2, <2>3 DEF Settled
<1>3. QED
  BY <1>1, <1>2

\* While nothing changes, everything stays in its place.
LEMMA WorldSame ==
    ASSUME UNCHANGED world
    PROVE  /\ \A i \in Items : Position(i)' = Position(i) /\ Entry(i)' = Entry(i)
           /\ \A p : Settled(p)' <=> Settled(p)
           /\ Listed' = Listed
<1>1. \A i : Position(i)' = Position(i)
  BY DEF world, Position
<1>2. \A i : Entry(i)' = Entry(i)
  BY <1>1 DEF Entry
<1>3. \A p : Settled(p)' <=> Settled(p)
  BY <1>1 DEF Settled, world
<1>4. Listed' = Listed
  BY DEF world, Listed, SelectPosts, SelectDraftPostsByAuthorID, SelectByRecipientUserID,
         SelectVisibleComments, SelectBoardList, SelectBoardListIncludingHidden, SelectDead,
         SelectList, ListFeed, Published
<1>5. QED
  BY <1>1, <1>2, <1>3, <1>4, Zenon

\* A hidden board is not found.
LEMMA CheckBoardInv ==
    ASSUME WalkInv, kind \notin Chosen, CheckBoard
    PROVE  WalkInv'
<1> USE DEF CheckBoard
<1>1. UNCHANGED world
  OBVIOUS
<1>2. WalkTypeOK'
  BY <1>1 DEF WalkInv, WalkTypeOK, world
<1>3. kind' \notin Chosen /\ kind' \notin Scored /\ found = {}
  BY <1>1 DEF WalkInv, CursorInStep, world, Chosen, Scored
<1>4. ReadInStep'
  BY <1>1, <1>3, WorldSame DEF WalkInv, ReadInStep, WalkTypeOK, Entries, AfterCursor, Precedes
<1>5. CursorInStep'
  BY <1>1, <1>3, WorldSame DEF WalkInv, CursorInStep, Precedes, world
<1>6. ShownBehind'
  BY <1>1, WorldSame DEF WalkInv, ShownBehind, AfterCursor, Precedes
<1>7. SteadyInStep'
  BY <1>1, <1>3, WorldSame DEF WalkInv, SteadyInStep, world
<1>8. SteadyAhead'
  BY <1>1, <1>3, WorldSame DEF WalkInv, WalkTypeOK, SteadyAhead, AfterCursor, Precedes, Beyond
<1>9. QED
  BY <1>2, <1>4, <1>5, <1>6, <1>7, <1>8 DEF WalkInv

\* A page of one query: what is listed after the cursor.
LEMMA LoadCursorListPageInv ==
    ASSUME WalkInv, kind \notin Chosen, kind # "reports", LoadCursorListPage(Listed)
    PROVE  WalkInv'
<1> USE DEF LoadCursorListPage
<1> DEFINE F == Fetched(Listed)
<1>1. UNCHANGED world /\ WalkTypeOK
  BY DEF WalkInv
<1>2. /\ F \subseteq Entries /\ IsFiniteSet(F)
      /\ \A x \in F : x.id \in Listed /\ x = Entry(x.id) /\ AfterCursor(from, x.at)
      /\ \A i \in Listed : AfterCursor(from, Position(i)) =>
            Entry(i) \in F \/ Beyond(Entry(i), F, FetchSize)
  BY <1>1, FetchedIs, ListedSettled, Zenon
<1>3. found' = F /\ step = "fetch" /\ step' = "page"
  OBVIOUS
<1> HIDE DEF F
<1>4. WalkTypeOK'
  BY <1>1, <1>2, <1>3 DEF WalkTypeOK, world
<1>5. kind' \notin Chosen /\ kind' \notin Scored /\ found = {} /\ from = cursor
  BY <1>1, <1>3 DEF WalkInv, CursorInStep, world, Chosen, Scored
<1>6. ReadInStep'
  <2>1. \A x \in F : Settled(x.at)
    BY <1>1, <1>2, ListedSettled, Zenon
  <2>2. \A x \in F : x.id \in Items
    BY <1>2 DEF Entries
  <2>3. \A x \in batch : x.id \in Items
    BY <1>1 DEF WalkTypeOK, Entries
  <2>4. \A x \in found' \cup batch' : Settled(x.at)' /\ (x.id \notin moved' => x = Entry(x.id)')
    BY <1>1, <1>2, <1>3, <2>1, <2>2, <2>3, WorldSame DEF WalkInv, ReadInStep
  <2>5. \A x \in found' : AfterCursor(cursor', x.at)
    BY <1>2, <1>3, <1>5
  <2>6. QED
    BY <1>3, <2>4, <2>5 DEF ReadInStep, AfterCursor, Precedes
<1>7. CursorInStep'
  BY <1>1, <1>3, WorldSame DEF WalkInv, CursorInStep, Precedes, world
<1>8. ShownBehind'
  BY <1>1, <1>3, WorldSame DEF WalkInv, ShownBehind, AfterCursor, Precedes
<1>9. SteadyInStep'
  BY <1>1, <1>3, <1>5, WorldSame DEF WalkInv, SteadyInStep, world
<1>10. SteadyAhead'
  <2>1. SUFFICES ASSUME ~strayed, NEW i \in steady, shown[i] <= 0
                 PROVE  Entry(i) \in F \/ Beyond(Entry(i), F, FetchSize)
    BY <1>1, <1>3, WorldSame DEF WalkInv, WalkTypeOK, SteadyAhead, Beyond, Precedes
  <2>2. i \in Listed /\ i \in Items
    BY <1>1 DEF WalkInv, SteadyInStep, WalkTypeOK
  <2>3. AfterCursor(from, Position(i))
    BY <1>1, <1>3, <1>5, <2>1, <2>2 DEF WalkInv, WalkTypeOK, SteadyAhead
  <2>4. QED
    BY <1>2, <2>2, <2>3
<1>11. QED
  BY <1>4, <1>6, <1>7, <1>8, <1>9, <1>10 DEF WalkInv

\* A page for administrators: what is listed after the item the page before ended with,
\* where that is now; so, when it is where it was, all after the cursor.
LEMMA LoadAdminPageInv ==
    ASSUME WalkInv, kind \notin Chosen, LoadAdminPage(Listed)
    PROVE  WalkInv'
<1> USE DEF LoadAdminPage
<1> DEFINE Q == Following(Listed)
           F == InOrder(Following(Listed))
<1>1. UNCHANGED world /\ WalkTypeOK
  BY DEF WalkInv
<1>2. Listed \subseteq Items /\ Q \subseteq Items
  BY <1>1, ListedSettled DEF Following
<1>3. /\ F \subseteq Entries /\ IsFiniteSet(F)
      /\ \A x \in F : x.id \in Q /\ x = Entry(x.id)
      /\ \A i \in Q : Entry(i) \in F \/ Beyond(Entry(i), F, FetchSize)
  BY <1>1, <1>2, InOrderIs, Zenon
<1>4. found' = F /\ step = "fetch" /\ step' = "page"
  OBVIOUS
<1>5. kind' \notin Chosen /\ kind' \notin Scored /\ found = {} /\ from = cursor
  BY <1>1, <1>4 DEF WalkInv, CursorInStep, world, Chosen, Scored
<1>6. \A i \in Q : i \in Listed /\ i \in Items /\ AfterCursor(cursor, Position(i))
  <2>1. SUFFICES ASSUME NEW i \in Q, from # Start
                 PROVE  Precedes(from, Position(i))
    BY <1>2, <1>5 DEF Following, AfterCursor
  <2>2. PICK j \in LastShown(Listed) : Precedes(Position(j), Position(i))
    BY <2>1 DEF Following
  <2>3. j \in Items /\ j = from[2] /\ i \in Items
    BY <1>2, <2>2 DEF LastShown
  <2>4. from \in Places /\ Position(j) \in Places /\ Position(i) \in Places /\ Position(j)[2] = j
    BY <1>1, <2>1, <2>3, PositionIs DEF WalkTypeOK
  <2>5. Position(j)[1] <= from[1]
    BY <1>1, <1>5, <2>1, <2>3 DEF WalkInv, CursorInStep, Settled, world
  <2>6. from = Position(j) \/ Precedes(from, Position(j))
    BY <2>3, <2>4, <2>5 DEF Places, Precedes
  <2>7. QED
    BY <2>2, <2>4, <2>6, PlaceOrder, Zenon
<1>7. ASSUME NEW i \in Listed, ~strayed', AfterCursor(from, Position(i))
      PROVE  i \in Q
  BY <1>7 DEF Following, AfterCursor
<1> HIDE DEF F, Q
<1>8. WalkTypeOK'
  BY <1>1, <1>3, <1>4 DEF WalkTypeOK, world
<1>9. ReadInStep'
  <2>1. \A x \in F : Settled(x.at) /\ AfterCursor(cursor, x.at) /\ x.id \in Items
    BY <1>1, <1>3, <1>6, ListedSettled, PositionIs, Zenon
  <2>2. \A x \in batch : x.id \in Items
    BY <1>1 DEF WalkTypeOK, Entries
  <2>3. \A x \in found' \cup batch' : Settled(x.at)' /\ (x.id \notin moved' => x = Entry(x.id)')
    BY <1>1, <1>3, <1>4, <2>1, <2>2, WorldSame DEF WalkInv, ReadInStep
  <2>4. \A x \in found' : AfterCursor(cursor', x.at)
    BY <1>4, <1>5, <2>1
  <2>5. QED
    BY <1>4, <2>3, <2>4 DEF ReadInStep, AfterCursor, Precedes
<1>10. CursorInStep'
  BY <1>1, <1>4, WorldSame DEF WalkInv, CursorInStep, Precedes, world
<1>11. ShownBehind'
  BY <1>1, <1>4, WorldSame DEF WalkInv, ShownBehind, AfterCursor, Precedes
<1>12. SteadyInStep'
  BY <1>1, <1>4, <1>5, WorldSame DEF WalkInv, SteadyInStep, world
<1>13. SteadyAhead'
  <2>1. SUFFICES ASSUME ~strayed', NEW i \in steady, shown[i] <= 0
                 PROVE  Entry(i) \in F \/ Beyond(Entry(i), F, FetchSize)
    BY <1>1, <1>4, WorldSame DEF WalkInv, WalkTypeOK, SteadyAhead, Beyond, Precedes
  <2>2. i \in Listed /\ i \in Items /\ ~strayed
    BY <1>1, <2>1 DEF WalkInv, SteadyInStep, WalkTypeOK
  <2>3. AfterCursor(from, Position(i))
    BY <1>1, <1>4, <1>5, <2>1, <2>2 DEF WalkInv, WalkTypeOK, SteadyAhead
  <2>4. QED
    BY <1>3, <1>7, <2>1, <2>2, <2>3
<1>14. QED
  BY <1>8, <1>9, <1>10, <1>11, <1>12, <1>13 DEF WalkInv

\* The matches a load reads first have what is steady among them.
LEMMA LoadMatchSetInv ==
    ASSUME WalkInv, kind \in Scored, LoadMatchSet
    PROVE  WalkInv'
<1> USE DEF LoadMatchSet
<1>1. UNCHANGED world /\ WalkTypeOK /\ kind \in Chosen
  BY DEF WalkInv, Chosen, Scored
<1>2. WalkTypeOK'
  BY <1>1 DEF WalkTypeOK, world
<1>3. \A x \in found \cup batch : x.id \in Items
  BY <1>1 DEF WalkTypeOK, Entries
<1>4. ReadInStep'
  BY <1>1, <1>3, WorldSame DEF WalkInv, ReadInStep, AfterCursor, Precedes
<1>5. CursorInStep'
  BY <1>1, WorldSame DEF WalkInv, CursorInStep, Precedes, world
<1>6. ShownBehind'
  BY <1>1, WorldSame DEF WalkInv, ShownBehind, AfterCursor, Precedes
<1>7. SteadyInStep'
  <2>1. Listed \subseteq matches
    BY <1>1 DEF Listed, Chosen
  <2>2. QED
    BY <1>1, <2>1, WorldSame DEF WalkInv, SteadyInStep, world
<1>8. SteadyAhead'
  BY <1>1, WorldSame DEF WalkInv, WalkTypeOK, SteadyAhead, AfterCursor, Precedes, Beyond
<1>9. QED
  BY <1>2, <1>4, <1>5, <1>6, <1>7, <1>8 DEF WalkInv

\* A batch: of a source that has all that is steady, what comes after the position the
\* batch before ended with.
LEMMA FetchBatchInv ==
    ASSUME WalkInv, kind \in Chosen, NEW source, source \subseteq Items,
           step = "fetch" => steady \subseteq source, FetchBatch(source)
    PROVE  WalkInv'
<1> USE DEF FetchBatch
<1> DEFINE F == Fetched(source)
<1>1. UNCHANGED world /\ WalkTypeOK
  BY DEF WalkInv
<1>2. /\ F \subseteq Entries /\ IsFiniteSet(F)
      /\ \A x \in F : x.id \in source /\ x = Entry(x.id) /\ AfterCursor(from, x.at)
      /\ \A i \in source : AfterCursor(from, Position(i)) =>
            Entry(i) \in F \/ (Beyond(Entry(i), F, FetchSize) /\ F # {})
  BY <1>1, FetchedIs, Zenon
<1>3. /\ batch' = F /\ alive' = {x.id : x \in F} /\ step = "fetch"
      /\ step' = IF F = {} THEN "page" ELSE IF kind = "ranked" THEN "select" ELSE "boards"
  OBVIOUS
<1> HIDE DEF F
<1>4. step' \in {"page", "select", "boards"} /\ (step' = "page" <=> F = {})
  BY <1>3
<1>5. \A x \in F : x.id \in Items /\ x.id \in alive'
  BY <1>2, <1>3 DEF Entries
<1>6. WalkTypeOK'
  <2>1. alive' \subseteq Items
    BY <1>3, <1>5
  <2>2. QED
    BY <1>1, <1>2, <1>3, <1>4, <2>1 DEF WalkTypeOK, world
<1>7. ReadInStep'
  <2>1. \A x \in F : Settled(x.at)
    <3>1. ASSUME NEW i \in Items
          PROVE  Settled(Entry(i).at)
      <4>1. Entry(i).at = Position(i) /\ Position(i)[2] = i /\ Position(i)[1] \in Int
        BY <1>1, PositionIs DEF Places
      <4>2. kind # "reports"
        BY DEF Chosen
      <4>3. QED
        BY <4>1, <4>2 DEF Settled
    <3>2. QED
      BY <1>2, <1>5, <3>1, Zenon
  <2>2. \A x \in found : x.id \in Items
    BY <1>1 DEF WalkTypeOK, Entries
  <2>3. \A x \in found' \cup batch' : Settled(x.at)' /\ (x.id \notin moved' => x = Entry(x.id)')
    BY <1>1, <1>2, <1>3, <1>5, <2>1, <2>2, WorldSame DEF WalkInv, ReadInStep
  <2>4. \A x \in found' : AfterCursor(cursor', x.at)
    BY DEF WalkInv, ReadInStep
  <2>5. step' \in {"select", "boards"} =>
            /\ batch' # {} /\ \A x \in batch' : AfterCursor(from', x.at)
    BY <1>2, <1>3, <1>4
  <2>6. \A x \in found' : ~AfterCursor(from', x.at)
    BY <1>3 DEF WalkInv, ReadInStep
  <2>7. QED
    BY <2>3, <2>4, <2>5, <2>6 DEF ReadInStep, AfterCursor, Precedes
<1>8. CursorInStep'
  BY <1>1, WorldSame DEF WalkInv, CursorInStep, Precedes, world
<1>9. ShownBehind'
  BY <1>1, <1>3, WorldSame DEF WalkInv, ShownBehind, AfterCursor, Precedes
<1>10. SteadyInStep'
  BY <1>1, <1>3, <1>5, WorldSame DEF WalkInv, SteadyInStep, world
<1>11. SteadyAhead'
  <2>1. SUFFICES ASSUME ~strayed, NEW i \in steady, shown[i] <= 0, Entry(i) \notin found
                 PROVE  F # {} /\ (Entry(i) \in F \/ Beyond(Entry(i), F, FetchSize))
    BY <1>1, <1>3, <1>4, WorldSame DEF WalkInv, WalkTypeOK, SteadyAhead, Beyond, Precedes
  <2>2. i \in source /\ i \in Items
    BY <1>1, <1>3 DEF WalkTypeOK
  <2>3. AfterCursor(from, Position(i))
    BY <1>1, <1>3, <2>1, <2>2 DEF WalkInv, WalkTypeOK, SteadyAhead
  <2>4. QED
    BY <1>2, <2>2, <2>3
<1>12. QED
  BY <1>6, <1>7, <1>8, <1>9, <1>10, <1>11 DEF WalkInv

\* The rows of a batch of the ranking: what is steady is published.
LEMMA SelectPostsByIDsInv ==
    ASSUME WalkInv, kind = "ranked", SelectPostsByIDs
    PROVE  WalkInv'
<1> USE DEF SelectPostsByIDs
<1>1. UNCHANGED world /\ WalkTypeOK /\ kind \in Chosen
  BY DEF WalkInv, Chosen
<1>2. WalkTypeOK'
  BY <1>1 DEF WalkTypeOK, world
<1>3. \A x \in found \cup batch : x.id \in Items
  BY <1>1 DEF WalkTypeOK, Entries
<1>4. ReadInStep'
  BY <1>1, <1>3, WorldSame DEF WalkInv, ReadInStep, AfterCursor, Precedes
<1>5. CursorInStep'
  BY <1>1, WorldSame DEF WalkInv, CursorInStep, Precedes, world
<1>6. ShownBehind'
  BY <1>1, WorldSame DEF WalkInv, ShownBehind, AfterCursor, Precedes
<1>7. SteadyInStep'
  <2>1. Listed \subseteq Published
    BY <1>1 DEF Listed, Chosen
  <2>2. QED
    BY <1>1, <2>1, WorldSame DEF WalkInv, SteadyInStep, world
<1>8. SteadyAhead'
  BY <1>1, WorldSame DEF WalkInv, WalkTypeOK, SteadyAhead, AfterCursor, Precedes, Beyond
<1>9. QED
  BY <1>2, <1>4, <1>5, <1>6, <1>7, <1>8 DEF WalkInv

\* A lookup of the boards of a batch leaves out nothing that is steady, and keeps what the
\* load has found before.
LEMMA BoardsLookedUp ==
    ASSUME WalkInv, kind \in Chosen
    PROVE  LET seen == resolveBoardVisibility
           IN  /\ DOMAIN seen \subseteq Boards /\ seen \in [DOMAIN seen -> BOOLEAN]
               /\ \A i \in alive : board[i] \in DOMAIN seen
               /\ \A i \in steady : board[i] \in DOMAIN seen => seen[board[i]]
<1> DEFINE D == DOMAIN visible \cup {board[i] : i \in alive}
           seen == resolveBoardVisibility
<1>1. WalkTypeOK
  BY DEF WalkInv
<1>2. /\ seen = [b \in D |-> IF b \in DOMAIN visible THEN visible[b] ELSE b \notin hidden]
      /\ DOMAIN seen = D
  BY DEF resolveBoardVisibility
<1>3. D \subseteq Boards
  BY <1>1 DEF WalkTypeOK
<1>4. \A b \in DOMAIN visible : visible[b] \in BOOLEAN
  BY <1>1 DEF WalkTypeOK
<1>5. \A i \in alive : board[i] \in D
  OBVIOUS
<1>6. \A i \in steady : board[i] \notin hidden /\ (board[i] \in DOMAIN visible => visible[board[i]])
  <2>1. steady \subseteq Listed
    BY DEF WalkInv, SteadyInStep
  <2>2. \A i \in Listed : board[i] \notin hidden
    BY DEF Listed, Chosen
  <2>3. QED
    BY <2>1, <2>2 DEF WalkInv, SteadyInStep
<1> HIDE DEF D, seen
<1>7. seen \in [D -> BOOLEAN]
  BY <1>2, <1>4
<1>8. \A i \in steady : board[i] \in DOMAIN seen => seen[board[i]]
  BY <1>2, <1>6
<1>9. QED
  BY <1>2, <1>3, <1>5, <1>7, <1>8, Zenon DEF seen

\* What is left of a batch joins the page; the next batch starts where this one ended, so
\* what is steady and not on the page is still to come, or the page is full before it.
LEMMA KeepVisibleInv ==
    ASSUME WalkInv, kind \in Chosen, NEW again \in {"fetch", "match"},
           kind \in Scored => again = "match" \/ kind = "ranked", KeepVisible(again)
    PROVE  WalkInv'
<1> DEFINE seen == resolveBoardVisibility
           kept == Kept(seen)
           all  == FirstOf(found \cup kept, FetchSize)
           last == LastOf(batch)
<1>1. /\ UNCHANGED world /\ WalkTypeOK /\ step = "boards"
      /\ UNCHANGED <<cursor, wanted, batch, alive, shown, strayed, steady, moved>>
      /\ visible' = seen /\ found' = all /\ from' = last.at
      /\ Enough(all) => step' = "page"
      /\ ~Enough(all) => step' = again
  BY DEF WalkInv, KeepVisible
<1>2. /\ found \subseteq Entries /\ IsFiniteSet(found)
      /\ batch \subseteq Entries /\ IsFiniteSet(batch) /\ batch # {}
  BY <1>1 DEF WalkInv, WalkTypeOK, ReadInStep
<1>3. last \in batch /\ \A y \in batch : y = last \/ Precedes(y.at, last.at)
  BY <1>2, LastIs, Zenon
<1>4. /\ DOMAIN seen \subseteq Boards /\ seen \in [DOMAIN seen -> BOOLEAN]
      /\ \A i \in alive : board[i] \in DOMAIN seen
      /\ \A i \in steady : board[i] \in DOMAIN seen => seen[board[i]]
  BY BoardsLookedUp, Zenon
<1>5. kept \subseteq batch /\ \A x \in batch : x.id \in steady => x \in kept
  <2>1. \A x \in batch : x.id \in steady => x.id \in alive
    BY <1>1 DEF WalkInv, SteadyInStep
  <2>2. kind = "ranked" => steady \subseteq wanted
    BY <1>1 DEF WalkInv, SteadyInStep, Scored
  <2>3. QED
    BY <1>4, <2>1, <2>2 DEF Kept
<1>6. FetchSize \in Nat
  BY ListingAssumption DEF FetchSize
<1>7. /\ all \subseteq found \cup kept /\ IsFiniteSet(all)
      /\ \A x \in (found \cup kept) \ all : Beyond(x, all, FetchSize)
  <2>1. kept \in SUBSET batch
    BY <1>5
  <2>2. IsFiniteSet(kept)
    BY <1>2, <2>1, FS_Subset, Zenon
  <2>3. IsFiniteSet(found \cup kept)
    BY <1>2, <2>2, FS_Union, Zenon
  <2>4. found \cup kept \subseteq Entries
    BY <1>2, <1>5
  <2>5. QED
    BY <1>6, <2>3, <2>4, FirstIs, Zenon
<1> HIDE DEF seen, kept, all, last
<1>8. all \subseteq found \cup batch /\ all \subseteq Entries
  BY <1>2, <1>5, <1>7
<1>9. step' \in {"page", "fetch", "match"}
  BY <1>1
<1>10. /\ from \in Places \cup {Start} /\ cursor \in Places \cup {Start}
       /\ last.at \in Places /\ last.at # Start
  BY <1>1, <1>2, <1>3, EntryOrder, PlaceOrder DEF WalkTypeOK
<1>11. /\ \A x \in batch : from = Start \/ Precedes(from, x.at)
       /\ \A x \in found : from # Start /\ ~Precedes(from, x.at)
       /\ \A x \in found : cursor = Start \/ Precedes(cursor, x.at)
       /\ from = Start => cursor = Start
       /\ cursor # Start => ~Precedes(from, cursor)
  BY <1>1 DEF WalkInv, ReadInStep, CursorInStep, AfterCursor
<1>12. \A x \in found \cup batch : x.at \in Places /\ x \in Entries
  BY <1>2, EntryOrder, Zenon
<1>13. WalkTypeOK'
  BY <1>1, <1>2, <1>4, <1>7, <1>8, <1>9, <1>10 DEF WalkTypeOK, world
<1>14. ReadInStep'
  <2>1. \A x \in found \cup batch : x.id \in Items
    BY <1>2 DEF Entries
  <2>2. \A x \in found' \cup batch' : Settled(x.at)' /\ (x.id \notin moved' => x = Entry(x.id)')
    BY <1>1, <1>8, <2>1, WorldSame DEF WalkInv, ReadInStep
  <2>3. \A x \in batch : cursor = Start \/ Precedes(cursor, x.at)
    <3>1. SUFFICES ASSUME NEW x \in batch, cursor # Start
                   PROVE  Precedes(cursor, x.at)
      OBVIOUS
    <3>2. from \in Places /\ cursor \in Places /\ x.at \in Places /\ Precedes(from, x.at)
      BY <1>10, <1>11, <1>12, <3>1
    <3>3. from = cursor \/ Precedes(cursor, from)
      BY <1>11, <3>1, <3>2, PlaceOrder, Zenon
    <3>4. QED
      BY <3>2, <3>3, PlaceOrder, Zenon
  <2>4. \A x \in found' : AfterCursor(cursor', x.at)
    BY <1>1, <1>8, <1>11, <2>3 DEF AfterCursor
  <2>5. \A x \in found' : ~AfterCursor(from', x.at)
    <3>1. SUFFICES ASSUME NEW x \in found \cup batch
                   PROVE  ~Precedes(last.at, x.at)
      BY <1>1, <1>8, <1>10 DEF AfterCursor
    <3>2. CASE x \in batch
      BY <1>3, <1>12, <3>2, EntryOrder, Zenon
    <3>3. CASE x \in found
      <4>1. /\ from \in Places /\ x.at \in Places
            /\ ~Precedes(from, x.at) /\ Precedes(from, last.at)
        BY <1>3, <1>10, <1>11, <1>12, <3>3
      <4>2. QED
        BY <1>10, <4>1, PlaceOrder, Zenon
    <3>4. QED
      BY <3>2, <3>3
  <2>6. QED
    BY <1>9, <2>2, <2>4, <2>5 DEF ReadInStep, AfterCursor, Precedes
<1>15. CursorInStep'
  <2>1. from' # Start /\ kind' \in Chosen
    BY <1>1, <1>10 DEF world, Chosen
  <2>2. ASSUME cursor # Start
        PROVE  Settled(cursor) /\ ~Precedes(last.at, cursor)
    <3>1. /\ from \in Places /\ cursor \in Places
          /\ ~Precedes(from, cursor) /\ Precedes(from, last.at)
      BY <1>3, <1>10, <1>11, <2>2
    <3>2. ~Precedes(last.at, cursor)
      BY <1>10, <3>1, PlaceOrder, Zenon
    <3>3. QED
      BY <2>2, <3>2 DEF WalkInv, CursorInStep
  <2>3. QED
    BY <1>1, <2>1, <2>2, WorldSame DEF CursorInStep, Precedes
<1>16. ShownBehind'
  BY <1>1, <1>9, WorldSame DEF WalkInv, ShownBehind, AfterCursor, Precedes
<1>17. SteadyInStep'
  <2>1. kind \in Scored /\ step' \in {"fetch", "select", "boards"} => steady \subseteq wanted
    BY <1>1 DEF WalkInv, SteadyInStep
  <2>2. QED
    BY <1>1, <1>4, <1>9, <2>1, WorldSame DEF WalkInv, SteadyInStep, world
<1>18. ASSUME NEW i \in steady, ~strayed, shown[i] <= 0
       PROVE  \/ Entry(i) \in all
              \/ step' # "page" /\ Precedes(last.at, Position(i))
              \/ step' = "page" /\ Beyond(Entry(i), all, FetchSize)
  <2>1. i \in Items /\ Entry(i).at = Position(i) /\ Entry(i).id = i /\ Entry(i) \in Entries
    BY <1>1, PositionIs DEF WalkTypeOK
  <2>2. CASE Entry(i) \in found \cup kept
    <3>1. Entry(i) \in all \/ Beyond(Entry(i), all, FetchSize)
      BY <1>7, <2>2, Zenon
    <3>2. Beyond(Entry(i), all, FetchSize) => step' = "page"
      BY <1>1, Zenon DEF Beyond, Enough
    <3>3. QED
      BY <3>1, <3>2
  <2>3. CASE Entry(i) \in batch
    BY <1>5, <1>18, <2>1, <2>2, <2>3
  <2>4. CASE Beyond(Entry(i), batch, FetchSize)
    <3>1. Cardinality(batch) >= FetchSize /\ \A y \in batch : Precedes(y.at, Position(i))
      BY <2>1, <2>4, Zenon DEF Beyond
    <3>2. CASE ~Enough(all)
      BY <1>1, <1>3, <1>9, <3>1, <3>2
    <3>3. CASE Enough(all)
      <4>1. Cardinality(all) >= FetchSize
        <5> DEFINE a == Cardinality(all)
                   b == Cardinality(batch)
        <5>1. a \in Nat /\ b \in Nat /\ b >= FetchSize /\ (a >= FetchSize \/ b < FetchSize)
          BY <1>2, <1>7, <3>1, <3>3, FS_CardinalityType, Zenon DEF Enough
        <5> HIDE DEF a, b
        <5>2. a >= FetchSize
          BY <1>6, <5>1
        <5>3. QED
          BY <5>2 DEF a
      <4>2. ASSUME NEW y \in found
            PROVE  Precedes(y.at, Position(i))
        <5>1. /\ from \in Places /\ y.at \in Places /\ Position(i) \in Places
              /\ Precedes(from, last.at) /\ ~Precedes(from, y.at) /\ Precedes(last.at, Position(i))
          BY <1>1, <1>3, <1>10, <1>11, <1>12, <2>1, <3>1, PositionIs
        <5>2. y.at = from \/ Precedes(y.at, from)
          BY <5>1, PlaceOrder, Zenon
        <5>3. Precedes(from, Position(i))
          BY <1>10, <5>1, PlaceOrder, Zenon
        <5>4. QED
          BY <5>1, <5>2, <5>3, PlaceOrder, Zenon
      <4>3. \A y \in all : Precedes(y.at, Position(i))
        BY <1>8, <3>1, <4>2
      <4>4. Beyond(Entry(i), all, FetchSize)
        BY <2>1, <4>1, <4>3, Zenon DEF Beyond
      <4>5. QED
        BY <1>1, <3>3, <4>4
    <3>4. QED
      BY <3>2, <3>3
  <2>5. QED
    <3>1. shown[i] \in Nat
      BY <1>1, <2>1 DEF WalkTypeOK
    <3>2. Entry(i) \in found \/ Entry(i) \in batch \/ Beyond(Entry(i), batch, FetchSize)
      BY <1>1, <1>18, <3>1 DEF WalkInv, SteadyAhead
    <3>3. QED
      BY <2>2, <2>3, <2>4, <3>2
<1>19. SteadyAhead'
  <2>1. \A i \in steady : i \in Items /\ shown[i] \in Nat
    BY <1>1 DEF WalkTypeOK
  <2>2. QED
    BY <1>1, <1>9, <1>10, <1>18, <2>1, WorldSame DEF SteadyAhead, AfterCursor, Beyond, Precedes
<1>20. QED
  BY <1>13, <1>14, <1>15, <1>16, <1>17, <1>19 DEF WalkInv

\* Nothing, one entry, or more.
LEMMA CountOf ==
    ASSUME NEW S, IsFiniteSet(S)
    PROVE  /\ Cardinality(S) \in Nat
           /\ S = {} => Cardinality(S) = 0
           /\ S # {} => Cardinality(S) > 0
           /\ \A x : S = {x} => Cardinality(S) = 1
<1> DEFINE n == Cardinality(S)
<1>1. n \in Nat /\ (n = 0 <=> S = {}) /\ \A x : S = {x} => n = 1
  BY FS_CardinalityType, FS_EmptySet, FS_Singleton, Zenon
<1> HIDE DEF n
<1>2. n \in Nat /\ (S = {} => n = 0) /\ (S # {} => n > 0) /\ \A x : S = {x} => n = 1
  BY <1>1
<1>3. QED
  BY <1>2 DEF n

\* A page is shown: what is left over comes after its last entry, where the next one starts.
LEMMA ShowPageInv ==
    ASSUME WalkInv, NEW again \in {"check", "match", "fetch"},
           kind \in Scored => again = "match", ShowPage(again)
    PROVE  WalkInv'
<1> DEFINE last == LastOf(Page)
           C(i) == {x \in Page : x.id = i}
<1>1. /\ UNCHANGED world /\ WalkTypeOK /\ step = "page"
      /\ UNCHANGED <<strayed, steady, moved>>
      /\ wanted' = {} /\ batch' = {} /\ alive' = {} /\ visible' = <<>> /\ found' = {}
      /\ shown' = [i \in Items |-> shown[i] + Cardinality(C(i))]
      /\ HasMore => step' = again /\ cursor' = last.at /\ from' = last.at
      /\ ~HasMore => step' = "over" /\ cursor' = cursor /\ from' = cursor
  BY DEF WalkInv, ShowPage, NextCursor
<1>2. found \subseteq Entries /\ IsFiniteSet(found)
  BY <1>1 DEF WalkTypeOK
<1>3. Limit \in Nat /\ Limit > 0 /\ FetchSize = Limit + 1
  BY ListingAssumption DEF FetchSize
<1>4. /\ Page \subseteq found /\ IsFiniteSet(Page)
      /\ \A x \in found \ Page : Beyond(x, Page, Limit) /\ HasMore
      /\ HasMore => Page # {}
  <2>1. /\ Page \subseteq found /\ IsFiniteSet(Page)
        /\ \A x \in found \ Page : Beyond(x, Page, Limit)
        /\ Cardinality(found) <= Limit => Page = found
        /\ found # {} => Page # {}
    BY <1>2, <1>3, FirstIs, Zenon DEF Page
  <2> DEFINE n == Cardinality(found)
  <2>2. n \in Nat /\ (found = {} => n = 0) /\ (n <= Limit => Page = found) /\ (HasMore <=> n > Limit)
    BY <1>2, <2>1, CountOf, Zenon DEF HasMore
  <2> HIDE DEF n
  <2>3. (HasMore => found # {}) /\ (~HasMore => Page = found)
    BY <1>3, <2>2
  <2>4. QED
    BY <2>1, <2>3, Zenon
<1>5. HasMore => /\ last \in Page /\ last \in found
                 /\ last.at \in Places /\ last.at # Start
                 /\ \A y \in Page : y = last \/ Precedes(y.at, last.at)
  <2>1. Page \subseteq Entries
    BY <1>2, <1>4
  <2>2. HasMore => last \in Page /\ \A y \in Page : y = last \/ Precedes(y.at, last.at)
    BY <1>4, <2>1, LastIs, Zenon
  <2>3. QED
    BY <1>4, <2>1, <2>2, EntryOrder, PlaceOrder
<1>6. /\ \A x \in found : /\ x.at \in Places /\ x.id \in Items /\ x \in Entries
                          /\ Settled(x.at) /\ (x.id \notin moved => x = Entry(x.id))
                          /\ cursor = Start \/ Precedes(cursor, x.at)
      /\ cursor \in Places \cup {Start}
  BY <1>1, <1>2, EntryOrder DEF WalkInv, WalkTypeOK, ReadInStep, AfterCursor
<1>7. \A i : C(i) \in SUBSET Page
  OBVIOUS
<1>8. \A i : IsFiniteSet(C(i)) /\ Cardinality(C(i)) \in Nat
  BY <1>4, <1>7, FS_Subset, CountOf, Zenon
<1>9. \A i \in Items : shown[i] \in Nat
  BY <1>1 DEF WalkTypeOK
<1>10. \A i \in Items : shown'[i] = shown[i] + Cardinality(C(i))
  BY <1>1, Zenon
<1>11. \A i \in Items : /\ Position(i) \in Places /\ Position(i)[2] = i
                        /\ Entry(i).id = i /\ Entry(i).at = Position(i)
  BY <1>1, PositionIs, Zenon
<1> HIDE DEF last
<1>12. WalkTypeOK'
  <2>1. shown' \in [Items -> Nat]
    <3>1. ASSUME NEW i \in Items
          PROVE  shown[i] + Cardinality(C(i)) \in Nat
      <4> DEFINE n == Cardinality(C(i))
      <4>1. shown[i] \in Nat /\ n \in Nat
        BY <1>8, <1>9, Zenon
      <4> HIDE DEF n
      <4>2. shown[i] + n \in Nat
        BY <4>1
      <4>3. QED
        BY <4>2 DEF n
    <3> HIDE DEF C
    <3>2. QED
      BY <1>1, <3>1
  <2>2. {cursor', from'} \subseteq Places \cup {Start}
    BY <1>1, <1>5, <1>6, Zenon
  <2>3. step' \in {"check", "match", "fetch", "over"}
    BY <1>1, Zenon
  <2>4. DOMAIN visible' = {}
    BY <1>1
  <2>5. IsFiniteSet({})
    BY FS_EmptySet, Zenon
  <2> HIDE DEF C
  <2>6. QED
    BY <1>1, <2>1, <2>2, <2>3, <2>4, <2>5 DEF WalkTypeOK, world
<1>13. ReadInStep'
  <2>1. step' \notin {"select", "boards"}
    BY <1>1, Zenon
  <2>2. QED
    BY <1>1, <2>1 DEF ReadInStep, AfterCursor, Precedes
<1>14. CursorInStep'
  <2>1. CASE HasMore
    <3>1. Settled(last.at) /\ ~Precedes(last.at, last.at)
      BY <1>5, <1>6, <2>1, PlaceOrder, Zenon
    <3> HIDE DEF C
    <3>2. QED
      BY <1>1, <1>5, <2>1, <3>1, WorldSame DEF CursorInStep, Precedes
  <2>2. CASE ~HasMore
    <3>1. cursor # Start => Settled(cursor) /\ ~Precedes(cursor, cursor)
      BY <1>6, PlaceOrder DEF WalkInv, CursorInStep
    <3> HIDE DEF C
    <3>2. QED
      BY <1>1, <2>2, <3>1, WorldSame DEF CursorInStep, Precedes
  <2>3. QED
    BY <2>1, <2>2
<1>15. ASSUME NEW i \in Items \ moved, shown'[i] > 0
       PROVE  /\ shown'[i] = 1
              /\ HasMore => Settled(Position(i)) /\ ~Precedes(last.at, Position(i))
  <2>1. \A x \in C(i) : x = Entry(i) /\ x \in found /\ x \in Page
    BY <1>4, <1>6
  <2>2. CASE shown[i] > 0
    <3>1. shown[i] = 1 /\ Settled(Position(i)) /\ ~AfterCursor(cursor, Position(i))
      BY <1>1, <2>2 DEF WalkInv, ShownBehind
    <3>2. cursor \in Places /\ ~Precedes(cursor, Position(i))
      BY <1>6, <3>1 DEF AfterCursor
    <3>3. C(i) = {}
      BY <1>6, <1>11, <2>1, <3>1, <3>2 DEF AfterCursor
    <3>4. Cardinality(C(i)) = 0
      BY <3>3, FS_EmptySet, Zenon
    <3>5. shown'[i] = 1
      BY <1>10, <3>1, <3>4
    <3>6. ASSUME HasMore
          PROVE  ~Precedes(last.at, Position(i))
      <4>1. Precedes(cursor, last.at) /\ last.at \in Places /\ Position(i) \in Places
        BY <1>5, <1>6, <1>11, <3>1, <3>6 DEF AfterCursor
      <4>2. QED
        BY <3>2, <4>1, PlaceOrder, Zenon
    <3>7. QED
      BY <3>1, <3>5, <3>6
  <2>3. CASE ~(shown[i] > 0)
    <3>1. shown[i] = 0
      BY <1>9, <2>3
    <3>2. C(i) # {}
      <4>1. C(i) = {} => Cardinality(C(i)) = 0
        BY <1>8, CountOf, Zenon
      <4>2. QED
        BY <1>10, <1>15, <3>1, <4>1
    <3>3. C(i) = {Entry(i)}
      BY <2>1, <3>2
    <3>4. Cardinality(C(i)) = 1
      BY <1>8, <3>3, CountOf, Zenon
    <3>5. shown'[i] = 1
      BY <1>10, <3>1, <3>4
    <3>6. Entry(i) \in Page /\ Entry(i) \in found
      BY <2>1, <3>3
    <3>7. Settled(Position(i))
      BY <1>6, <1>11, <3>6
    <3>8. HasMore => ~Precedes(last.at, Position(i))
      <4>1. Position(i) \in Places
        BY <1>11
      <4>2. HasMore => Position(i) = last.at \/ Precedes(Position(i), last.at)
        BY <1>5, <1>11, <3>6, Zenon
      <4>3. QED
        BY <1>5, <4>1, <4>2, PlaceOrder, Zenon
    <3>9. QED
      BY <3>5, <3>7, <3>8
  <2>4. QED
    BY <2>2, <2>3
<1>16. ShownBehind'
  <2> HIDE DEF C
  <2>1. CASE HasMore
    BY <1>1, <1>5, <1>15, <2>1, WorldSame DEF ShownBehind, AfterCursor, Precedes
  <2>2. CASE ~HasMore
    BY <1>1, <1>15, <2>2 DEF ShownBehind, AfterCursor, Precedes
  <2>3. QED
    BY <2>1, <2>2
<1>17. SteadyInStep'
  <2>1. step' \notin {"select", "boards"} /\ (kind \in Scored => step' # "fetch")
    BY <1>1, Zenon
  <2>2. DOMAIN visible' = {}
    BY <1>1
  <2> HIDE DEF C
  <2>3. QED
    BY <1>1, <2>1, <2>2, WorldSame DEF WalkInv, SteadyInStep, world
<1>18. ASSUME NEW i \in steady, ~strayed
       PROVE  \/ shown'[i] > 0
              \/ HasMore /\ Precedes(last.at, Position(i))
  <2>1. i \in Items
    BY <1>1 DEF WalkTypeOK
  <2> DEFINE n == Cardinality(C(i))
  <2>2. n \in Nat /\ shown[i] \in Nat /\ shown'[i] = shown[i] + n
    BY <1>8, <1>9, <1>10, <2>1, Zenon
  <2>3. CASE shown[i] > 0
    <3> HIDE DEF n
    <3>1. QED
      BY <2>3, <2>2
  <2>4. CASE Entry(i) \in Page
    <3>1. Entry(i) \in C(i)
      BY <1>11, <2>1, <2>4
    <3>2. n > 0
      BY <1>8, <3>1, CountOf, Zenon
    <3> HIDE DEF n
    <3>3. QED
      BY <2>2, <3>2
  <2>5. CASE Entry(i) \in found \ Page
    BY <1>4, <1>5, <1>11, <2>1, <2>5 DEF Beyond
  <2>6. CASE Beyond(Entry(i), found, FetchSize)
    <3>1. Cardinality(found) >= FetchSize /\ \A y \in found : Precedes(y.at, Position(i))
      BY <1>11, <2>1, <2>6, Zenon DEF Beyond
    <3>2. HasMore
      <4> DEFINE k == Cardinality(found)
      <4>1. k \in Nat /\ k >= FetchSize /\ (HasMore <=> k > Limit)
        BY <1>2, <3>1, CountOf, Zenon DEF HasMore
      <4> HIDE DEF k
      <4>2. QED
        BY <1>3, <4>1
    <3>3. QED
      BY <1>5, <3>1, <3>2
  <2>7. QED
    <3>1. shown[i] > 0 \/ Entry(i) \in found \/ Beyond(Entry(i), found, FetchSize)
      BY <1>1, <1>18 DEF WalkInv, SteadyAhead
    <3>2. QED
      BY <2>3, <2>4, <2>5, <2>6, <3>1
<1>19. SteadyAhead'
  <2>1. \A i \in steady : i \in Items
    BY <1>1 DEF WalkTypeOK
  <2> HIDE DEF C
  <2>2. HasMore => step' \in {"check", "match", "fetch"}
    BY <1>1
  <2>3. QED
    BY <1>1, <1>18, <2>1, <2>2, WorldSame DEF SteadyAhead, AfterCursor, Beyond, Precedes
<1>20. QED
  BY <1>12, <1>13, <1>14, <1>16, <1>17, <1>19 DEF WalkInv

-----------------------------------------------------------------------------
(* The walk through a list: what changes meanwhile *)

\* A change under which settled places stay settled, and items that have not moved stay in
\* theirs, disturbs nothing.
LEMMA ChangeKeeps ==
    ASSUME WalkInv, WalkTypeOK', Changing,
           \A p \in Places : Settled(p) => Settled(p)',
           \A i \in Items \ moved' : Settled(Position(i)) => Position(i)' = Position(i),
           moved \subseteq moved', steady' \subseteq steady, steady' \subseteq Listed' \ moved'
    PROVE  WalkInv'
<1>1. /\ UNCHANGED <<kind, board, step, cursor, from, wanted, batch, alive, visible, found>>
      /\ UNCHANGED <<shown, strayed>> /\ step # "over" /\ WalkTypeOK
  BY DEF Changing, load, WalkInv
<1>2. \A x \in found \cup batch : x.id \in Items /\ x.at \in Places
  BY <1>1 DEF WalkTypeOK, Entries
<1>3. \A i \in Items : Entry(i).at = Position(i)
  BY <1>1, PositionIs, Zenon
<1>4. \A i \in Items \ moved' : Settled(Position(i)) => Entry(i)' = Entry(i)
  BY DEF Entry
<1>5. ReadInStep'
  <2>1. \A x \in found \cup batch : Settled(x.at)' /\ (x.id \notin moved' => x = Entry(x.id)')
    <3>1. ASSUME NEW x \in found \cup batch
          PROVE  Settled(x.at)' /\ (x.id \notin moved' => x = Entry(x.id)')
      <4>1. Settled(x.at) /\ (x.id \notin moved => x = Entry(x.id))
        BY DEF WalkInv, ReadInStep
      <4>2. Settled(x.at)'
        BY <1>2, <4>1
      <4>3. ASSUME x.id \notin moved'
            PROVE  x = Entry(x.id)'
        <5>1. x.id \in Items \ moved' /\ x = Entry(x.id)
          BY <1>2, <4>1, <4>3
        <5>2. Settled(Position(x.id))
          BY <1>3, <4>1, <5>1, Zenon
        <5>3. QED
          BY <1>4, <5>1, <5>2, Zenon
      <4>4. QED
        BY <4>2, <4>3
    <3>2. QED
      BY <3>1
  <2>2. QED
    BY <1>1, <2>1 DEF WalkInv, ReadInStep, AfterCursor, Precedes
<1>6. CursorInStep'
  <2>1. cursor # Start => cursor \in Places
    BY <1>1 DEF WalkTypeOK
  <2>2. cursor # Start => Settled(cursor)' /\ ~Precedes(from, cursor)
    BY <1>1, <2>1 DEF WalkInv, CursorInStep
  <2>3. QED
    BY <1>1, <2>2 DEF WalkInv, CursorInStep, Precedes
<1>7. ShownBehind'
  <2>1. ASSUME NEW i \in Items \ moved', shown[i] > 0
        PROVE  shown[i] = 1 /\ Settled(Position(i)') /\ Settled(Position(i))'
               /\ ~AfterCursor(cursor, Position(i)')
    <3>1. i \in Items \ moved
      OBVIOUS
    <3>2. shown[i] = 1 /\ Settled(Position(i)) /\ ~AfterCursor(cursor, Position(i))
      BY <1>1, <2>1, <3>1 DEF WalkInv, ShownBehind
    <3>3. Position(i)' = Position(i) /\ Position(i) \in Places
      BY <1>1, <3>2, PositionIs
    <3>4. QED
      BY <3>2, <3>3
  <2>2. QED
    BY <1>1, <2>1 DEF ShownBehind, AfterCursor, Precedes
<1>8. SteadyInStep'
  BY <1>1 DEF WalkInv, SteadyInStep
<1>9. SteadyAhead'
  <2>1. \A i \in steady' : i \in steady /\ Position(i)' = Position(i) /\ Entry(i)' = Entry(i)
    <3>1. ASSUME NEW i \in steady'
          PROVE  i \in steady /\ Position(i)' = Position(i) /\ Entry(i)' = Entry(i)
      <4>1. i \in Listed /\ i \in Items \ moved' /\ i \in steady
        BY <1>1 DEF WalkInv, SteadyInStep, WalkTypeOK
      <4>2. Settled(Position(i))
        BY <1>1, <4>1, ListedSettled, Zenon
      <4>3. QED
        BY <1>4, <4>1, <4>2, Zenon
    <3>2. QED
      BY <3>1
  <2>2. QED
    BY <1>1, <2>1 DEF WalkInv, SteadyAhead, AfterCursor, Beyond, Precedes
<1>10. QED
  BY <1>5, <1>6, <1>7, <1>8, <1>9 DEF WalkInv

\* Where nothing is taken from its place, places stay settled.
LEMMA InPlace ==
    ASSUME WalkTypeOK, Changing, UNCHANGED <<status, rank>>
    PROVE  /\ \A p \in Places : Settled(p) => Settled(p)'
           /\ \A i \in Items : Position(i)' = Position(i)
<1>1. \A i : Position(i)' = Position(i)
  BY DEF Changing, Position
<1>2. QED
  BY <1>1 DEF Changing, Settled

\* A draft is not in a list of reports yet, and in the other lists where it will be.
LEMMA PublishPostInv ==
    ASSUME WalkInv, NEW i \in Items, PublishPost(i)
    PROVE  WalkInv'
<1> USE DEF PublishPost
<1>1. WalkTypeOK
  BY DEF WalkInv
<1>2. WalkTypeOK'
  BY <1>1, ListingAssumption DEF WalkTypeOK, Changing, load
<1>3. \A j \in Items \ {i} : Position(j)' = Position(j) /\ status'[j] = status[j]
  BY <1>1 DEF Changing, Position, WalkTypeOK
<1>4. kind # "reports" => Position(i)' = Position(i)
  BY DEF Changing, Position
<1>5. \A p \in Places : p[2] \in Items
  BY DEF Places
<1>6. \A p \in Places : Settled(p) => Settled(p)'
  BY <1>1, <1>3, <1>4, <1>5 DEF Settled, Changing
<1>7. \A j \in Items \ moved' : Settled(Position(j)) => Position(j)' = Position(j)
  BY <1>1, <1>3, <1>4, PositionIs DEF Settled, Scored
<1>8. QED
  BY <1>2, <1>6, <1>7, ChangeKeeps DEF WalkInv, SteadyInStep

\* What is deleted is no longer listed.
LEMMA DeletePostInv ==
    ASSUME WalkInv, NEW i \in Items, DeletePost(i)
    PROVE  WalkInv'
<1> USE DEF DeletePost
<1>1. WalkTypeOK
  BY DEF WalkInv
<1>2. WalkTypeOK'
  BY <1>1, ListingAssumption DEF WalkTypeOK, Changing, load
<1>3. \A j \in Items : Position(j)' = Position(j)
  BY <1>1 DEF Changing, Position
<1>4. \A p \in Places : p[2] \in Items
  BY DEF Places
<1>5. \A p \in Places : Settled(p) => Settled(p)'
  BY <1>3, <1>4 DEF Settled, Changing
<1>6. QED
  BY <1>2, <1>3, <1>5, ChangeKeeps DEF WalkInv, SteadyInStep

\* What comes back was not steady, and all that was listed still is.
LEMMA ComesBackInv ==
    ASSUME WalkInv, NEW i \in Items, ComesBack(i)
    PROVE  WalkInv'
<1> USE DEF ComesBack
<1>1. WalkTypeOK
  BY DEF WalkInv
<1>2. WalkTypeOK'
  BY <1>1, ListingAssumption DEF WalkTypeOK, Changing, load
<1>3. \A j \in Items : Position(j)' = Position(j)
  BY <1>1 DEF Changing, Position, Scored
<1>4. \A p \in Places : p[2] \in Items
  BY DEF Places
<1>5. \A p \in Places : Settled(p) => Settled(p)'
  BY <1>3, <1>4 DEF Settled, Changing
<1>6. Listed \subseteq Listed'
  BY <1>1 DEF Changing, Listed, SelectBoardList, SelectDead, Published, WalkTypeOK
<1>7. steady \subseteq Listed' \ moved'
  BY <1>6 DEF WalkInv, SteadyInStep
<1>8. QED
  BY <1>2, <1>3, <1>5, <1>7, ChangeKeeps DEF WalkInv, SteadyInStep

\* A report that is resolved falls behind those that are pending.
LEMMA ResolveReportInv ==
    ASSUME WalkInv, NEW i \in Items, ResolveReport(i)
    PROVE  WalkInv'
<1> USE DEF ResolveReport
<1>1. WalkTypeOK
  BY DEF WalkInv
<1>2. WalkTypeOK'
  BY <1>1, ListingAssumption DEF WalkTypeOK, Changing, load
<1>3. \A j \in Items \ {i} : Position(j)' = Position(j) /\ status'[j] = status[j]
  BY <1>1 DEF Changing, Position, WalkTypeOK
<1>4. Position(i)[1] = 1 /\ Position(i)'[1] = 0 /\ status'[i] = "deleted"
  BY <1>1 DEF Changing, Position, WalkTypeOK, Scored
<1>5. \A p \in Places : p[2] \in Items /\ p[1] \in Int
  BY DEF Places
<1>6. ASSUME NEW p \in Places, Settled(p)
      PROVE  Settled(p)'
  <2>1. CASE p[2] = i
    BY <1>4, <1>5, <1>6, <2>1 DEF Settled, Changing
  <2>2. CASE p[2] # i
    BY <1>3, <1>5, <1>6, <2>2 DEF Settled, Changing
  <2>3. QED
    BY <2>1, <2>2
<1>7. \A j \in Items \ moved' : Settled(Position(j)) => Position(j)' = Position(j)
  BY <1>3
<1>8. Listed' = Listed
  BY <1>1 DEF Changing, Listed, SelectList, WalkTypeOK, Chosen
<1>9. steady' \subseteq Listed' \ moved'
  BY <1>8 DEF WalkInv, SteadyInStep
<1>10. QED
  BY <1>2, <1>6, <1>7, <1>9, ChangeKeeps

\* What matches is not where it is.
LEMMA RetagInv ==
    ASSUME WalkInv, NEW i \in Items, Retag(i)
    PROVE  WalkInv'
<1> USE DEF Retag
<1>1. WalkTypeOK
  BY DEF WalkInv
<1>2. WalkTypeOK'
  BY <1>1, ListingAssumption DEF WalkTypeOK, Changing, load
<1>3. /\ \A p \in Places : Settled(p) => Settled(p)'
      /\ \A j \in Items : Position(j)' = Position(j)
  BY <1>1, InPlace
<1>4. QED
  BY <1>2, <1>3, ChangeKeeps DEF WalkInv, SteadyInStep

\* A post with another score has moved.
LEMMA MovesInv ==
    ASSUME WalkInv, NEW i \in Items, NEW ranks \in SUBSET (0..MaxRank \cup {Unranked}),
           kind \in Scored, Changing, Moves(i, ranks)
    PROVE  WalkInv'
<1> USE DEF Moves
<1>1. WalkTypeOK
  BY DEF WalkInv
<1>2. PICK r \in ranks : rank' = [rank EXCEPT ![i] = r]
  OBVIOUS
<1>3. r \in 0..MaxRank \cup {Unranked}
  OBVIOUS
<1>4. WalkTypeOK'
  BY <1>1, <1>2, <1>3, ListingAssumption DEF WalkTypeOK, Changing, load
<1>5. \A p \in Places : Settled(p)'
  BY DEF Settled, Changing
<1>6. \A j \in Items \ {i} : Position(j)' = Position(j) /\ rank'[j] = rank[j]
  BY <1>1, <1>2 DEF Changing, Position, WalkTypeOK
<1>7. \A j \in Items \ {i} : j \in Listed => j \in Listed'
  BY <1>6 DEF Changing, Listed, ListFeed, Published, Scored, Chosen
<1>8. steady' \subseteq Listed' \ moved'
  BY <1>1, <1>7 DEF WalkInv, SteadyInStep, WalkTypeOK
<1>9. QED
  BY <1>4, <1>5, <1>6, <1>8, ChangeKeeps

\* A board that is hidden takes its posts out of the lists.
LEMMA SetBoardVisibilityInv ==
    ASSUME WalkInv, NEW b \in Boards, SetBoardVisibility(b)
    PROVE  WalkInv'
<1> USE DEF SetBoardVisibility
<1>1. WalkTypeOK
  BY DEF WalkInv
<1>2. WalkTypeOK'
  BY <1>1, ListingAssumption DEF WalkTypeOK, Changing, load
<1>3. /\ \A p \in Places : Settled(p) => Settled(p)'
      /\ \A j \in Items : Position(j)' = Position(j)
  BY <1>1, InPlace
<1>4. QED
  BY <1>2, <1>3, ChangeKeeps DEF WalkInv, SteadyInStep

-----------------------------------------------------------------------------
(* The walk through a list: the theorems *)

\* Every walk begins before all that is listed.
LEMMA WalkInitInv == WalkInit => WalkInv
<1> SUFFICES ASSUME WalkInit
             PROVE  WalkInv
  OBVIOUS
<1> USE DEF WalkInit
<1>1. board \in [Items -> Boards]
  <2>1. TheBoard \in Boards
    BY ListingAssumption, Zenon DEF TheBoard
  <2>2. CASE kind \in Chosen \cup {"board"}
    BY <2>2
  <2>3. CASE kind \notin Chosen \cup {"board"}
    BY <2>1, <2>3
  <2>4. QED
    BY <2>2, <2>3
<1>2. matches \subseteq Items
  OBVIOUS
<1>3. step \in {"check", "match", "fetch"} /\ (kind \in Scored => step = "match")
  BY DEF FirstStep, Scored
<1>4. Listed \subseteq Items
  BY DEF Listed, SelectPosts, SelectDraftPostsByAuthorID, SelectByRecipientUserID,
         SelectVisibleComments, SelectBoardList, SelectBoardListIncludingHidden, SelectDead,
         SelectList, Published, Chosen
<1>5. WalkTypeOK
  <2>1. IsFiniteSet({})
    BY FS_EmptySet, Zenon
  <2>2. changes \in 0..MaxTurns /\ shown \in [Items -> Nat]
    BY ListingAssumption
  <2>3. status \in [Items -> {"draft", "published", "deleted"}]
    OBVIOUS
  <2>4. DOMAIN visible \subseteq Boards /\ visible \in [DOMAIN visible -> BOOLEAN]
    OBVIOUS
  <2>5. rank \in [Items -> 0..MaxRank \cup {Unranked}]
    OBVIOUS
  <2>6. /\ step \in {"check", "match", "fetch", "select", "boards", "page", "over", "failed"}
        /\ {cursor, from} \subseteq Places \cup {Start}
        /\ matches \cup wanted \cup alive \cup steady \cup moved \subseteq Items
        /\ batch \cup found \subseteq Entries /\ IsFiniteSet(batch) /\ IsFiniteSet(found)
    BY <1>2, <1>3, <1>4, <2>1
  <2>7. /\ kind \in Chosen \cup {"board", "drafts", "inbox", "comments", "boards", "allboards",
                               "dead", "reports"}
        /\ hidden \subseteq Boards /\ strayed \in BOOLEAN
    OBVIOUS
  <2>8. QED
    BY <1>1, <2>2, <2>3, <2>4, <2>5, <2>6, <2>7, Zenon DEF WalkTypeOK
<1>6. ReadInStep /\ CursorInStep /\ ShownBehind
  BY <1>3 DEF ReadInStep, CursorInStep, ShownBehind
<1>7. SteadyInStep
  BY <1>3 DEF SteadyInStep
<1>8. SteadyAhead
  BY <1>3 DEF SteadyAhead, AfterCursor
<1>9. QED
  BY <1>5, <1>6, <1>7, <1>8 DEF WalkInv

\* Every step of a load and every change in between keeps the walk in step.
LEMMA WalkNextInv == WalkInv /\ [WalkNext]_walkVars => WalkInv'
<1> SUFFICES ASSUME WalkInv, [WalkNext]_walkVars
             PROVE  WalkInv'
  OBVIOUS
<1>1. ASSUME GetPostsList
      PROVE  WalkInv'
  <2>1. kind \notin Chosen \cup Scored /\ kind # "reports" /\ SelectPosts = Listed
    BY <1>1 DEF GetPostsList, Listed, Chosen, Scored
  <2>2. QED
    BY <1>1, <2>1, CheckBoardInv, LoadCursorListPageInv, ShowPageInv DEF GetPostsList
<1>2. ASSUME GetMyDraftPosts
      PROVE  WalkInv'
  <2>1. kind \notin Chosen \cup Scored /\ kind # "reports" /\ SelectDraftPostsByAuthorID = Listed
    BY <1>2 DEF GetMyDraftPosts, Listed, Chosen, Scored
  <2>2. QED
    BY <1>2, <2>1, LoadCursorListPageInv, ShowPageInv DEF GetMyDraftPosts
<1>3. ASSUME GetMyNotifications
      PROVE  WalkInv'
  <2>1. kind \notin Chosen \cup Scored /\ kind # "reports" /\ SelectByRecipientUserID = Listed
    BY <1>3 DEF GetMyNotifications, Listed, Chosen, Scored
  <2>2. QED
    BY <1>3, <2>1, LoadCursorListPageInv, ShowPageInv DEF GetMyNotifications
<1>4. ASSUME GetCommentsByPost
      PROVE  WalkInv'
  <2>1. kind \notin Chosen \cup Scored /\ kind # "reports" /\ SelectVisibleComments = Listed
    BY <1>4 DEF GetCommentsByPost, Listed, Chosen, Scored
  <2>2. QED
    BY <1>4, <2>1, CheckBoardInv, LoadCursorListPageInv, ShowPageInv DEF GetCommentsByPost
<1>5. ASSUME GetBoards
      PROVE  WalkInv'
  <2>1. kind \notin Chosen \cup Scored /\ kind # "reports" /\ SelectBoardList = Listed
    BY <1>5 DEF GetBoards, Listed, Chosen, Scored
  <2>2. QED
    BY <1>5, <2>1, LoadCursorListPageInv, ShowPageInv DEF GetBoards
<1>6. ASSUME GetAllBoards
      PROVE  WalkInv'
  <2>1. kind \notin Chosen \cup Scored /\ kind # "reports" /\ SelectBoardListIncludingHidden = Listed
    BY <1>6 DEF GetAllBoards, Listed, Chosen, Scored
  <2>2. QED
    BY <1>6, <2>1, LoadCursorListPageInv, ShowPageInv DEF GetAllBoards
<1>7. ASSUME GetDeadMessages
      PROVE  WalkInv'
  <2>1. kind \notin Chosen \cup Scored /\ SelectDead = Listed
    BY <1>7 DEF GetDeadMessages, Listed, Chosen, Scored
  <2>2. QED
    BY <1>7, <2>1, LoadAdminPageInv, ShowPageInv DEF GetDeadMessages
<1>8. ASSUME GetReports
      PROVE  WalkInv'
  <2>1. kind \notin Chosen \cup Scored /\ SelectList = Listed
    BY <1>8 DEF GetReports, Listed, Chosen, Scored
  <2>2. QED
    BY <1>8, <2>1, LoadAdminPageInv, ShowPageInv DEF GetReports
<1> DEFINE InItems == SelectPublishedPostsByTagName \cup SearchPublishedPosts \cup ListFeed
<1>9. InItems \subseteq Items
  BY DEF SelectPublishedPostsByTagName, SearchPublishedPosts, ListFeed, Published
<1>10. ASSUME kind \in Chosen
       PROVE  /\ steady \subseteq SelectPublishedPostsByTagName
              /\ kind = "ranked" => steady \subseteq ListFeed
              /\ kind = "search" /\ step = "fetch" => steady \subseteq SearchPublishedPosts
  <2>1. steady \subseteq Listed
    BY DEF WalkInv, SteadyInStep
  <2>2. /\ Listed \subseteq Published \cap matches
        /\ kind = "ranked" => Listed \subseteq ListFeed
    BY <1>10 DEF Listed, Chosen
  <2>3. kind = "search" /\ step = "fetch" => steady \subseteq wanted
    BY DEF WalkInv, SteadyInStep, Scored
  <2>4. QED
    BY <2>1, <2>2, <2>3 DEF SelectPublishedPostsByTagName, SearchPublishedPosts
<1>11. ASSUME GetPostsByTag
       PROVE  WalkInv'
  <2>1. kind \in Chosen /\ kind \notin Scored
    BY <1>11 DEF GetPostsByTag, Chosen, Scored
  <2>2. QED
    BY <1>9, <1>10, <1>11, <2>1, FetchBatchInv, KeepVisibleInv, ShowPageInv DEF GetPostsByTag
<1>12. ASSUME SearchPosts
       PROVE  WalkInv'
  <2>1. kind \in Chosen /\ kind \in Scored /\ kind = "search"
    BY <1>12 DEF SearchPosts, Chosen, Scored
  <2>2. QED
    BY <1>9, <1>10, <1>12, <2>1, LoadMatchSetInv, FetchBatchInv, KeepVisibleInv, ShowPageInv
       DEF SearchPosts
<1>13. ASSUME GetFeed
       PROVE  WalkInv'
  <2>1. kind \in Chosen /\ kind \in Scored /\ kind = "ranked"
    BY <1>13 DEF GetFeed, Chosen, Scored
  <2>2. QED
    BY <1>9, <1>10, <1>13, <2>1, LoadMatchSetInv, FetchBatchInv, SelectPostsByIDsInv,
       KeepVisibleInv, ShowPageInv DEF GetFeed
<1>14. ASSUME NEW i \in Items, Rerank(i) \/ Rescore(i)
       PROVE  WalkInv'
  <2>1. kind \in Scored /\ Changing
    BY <1>14 DEF Rerank, Rescore, Scored
  <2>2. QED
    BY <1>14, <2>1, MovesInv DEF Rerank, Rescore
<1>15. CASE UNCHANGED walkVars
  <2>1. UNCHANGED world /\ WalkTypeOK
    BY <1>15 DEF walkVars, world, WalkInv
  <2>2. WalkTypeOK'
    BY <1>15, <2>1 DEF walkVars, WalkTypeOK
  <2>3. \A x \in found \cup batch : x.id \in Items
    BY <2>1 DEF WalkTypeOK, Entries
  <2>4. ReadInStep'
    BY <1>15, <2>1, <2>3, WorldSame DEF walkVars, WalkInv, ReadInStep, AfterCursor, Precedes
  <2>5. CursorInStep'
    BY <1>15, <2>1, WorldSame DEF walkVars, WalkInv, CursorInStep, Precedes
  <2>6. ShownBehind'
    BY <1>15, <2>1, WorldSame DEF walkVars, WalkInv, ShownBehind, AfterCursor, Precedes
  <2>7. SteadyInStep'
    BY <1>15, <2>1, WorldSame DEF walkVars, WalkInv, SteadyInStep
  <2>8. SteadyAhead'
    BY <1>15, <2>1, WorldSame
       DEF walkVars, WalkInv, WalkTypeOK, SteadyAhead, AfterCursor, Precedes, Beyond
  <2>9. QED
    BY <2>2, <2>4, <2>5, <2>6, <2>7, <2>8 DEF WalkInv
<1>16. QED
  BY <1>1, <1>2, <1>3, <1>4, <1>5, <1>6, <1>7, <1>8, <1>11, <1>12, <1>13, <1>14, <1>15,
     PublishPostInv, DeletePostInv, ComesBackInv, ResolveReportInv, RetagInv,
     SetBoardVisibilityInv DEF WalkNext, Walk

\* What was read is an initial part of what there is behind the cursor, at every step of
\* every walk (all the lists).
THEOREM WalkInvariance == WalkSpec => []WalkInv
<1>1. QED
  BY WalkInitInv, WalkNextInv, PTL DEF WalkSpec

\* The load of a page never leaves its types.
THEOREM WalkTypeCorrect == WalkSpec => []WalkTypeOK
<1>1. WalkInv => WalkTypeOK
  BY DEF WalkInv
<1>2. QED
  BY <1>1, WalkInvariance, PTL

\* A walk that is over has shown all that was listed, and in one place, while it lasted
\* (the cursors and batches of all the lists).
THEOREM SteadyShown == WalkSpec => []SteadyIsShown
<1>1. WalkInv => SteadyIsShown
  BY DEF WalkInv, SteadyAhead, SteadyIsShown
<1>2. QED
  BY <1>1, WalkInvariance, PTL

\* Only what has moved is shown a second time.
THEOREM NothingTwice == WalkSpec => []ShownOnce
<1>1. WalkInv => ShownOnce
  BY DEF WalkInv, WalkTypeOK, ShownBehind, ShownOnce
<1>2. QED
  BY <1>1, WalkInvariance, PTL

\* Only where an administrator deals with the item a page ended with a walk goes astray: the
\* other lists show all that stays in its place without exception.
THEOREM SteadyShownToUsers ==
    WalkSpec => [](step = "over" /\ kind \notin {"dead", "reports"} => \A i \in steady : shown[i] > 0)
<1> DEFINE OfAdmins == strayed => kind \in {"dead", "reports"}
<1>1. WalkInit => OfAdmins
  BY DEF WalkInit
<1>2. OfAdmins /\ [WalkNext]_walkVars => OfAdmins'
  <2>1. SUFFICES ASSUME [WalkNext]_walkVars
                 PROVE  kind' = kind /\ (strayed' = strayed \/ kind \in {"dead", "reports"})
    OBVIOUS
  <2>2. ASSUME Walk
        PROVE  kind' = kind /\ (strayed' = strayed \/ kind \in {"dead", "reports"})
    BY <2>2 DEF Walk, GetPostsList, GetMyDraftPosts, GetMyNotifications, GetCommentsByPost, GetBoards,
                GetAllBoards, GetDeadMessages, GetReports, GetPostsByTag, SearchPosts, GetFeed,
                CheckBoard, LoadCursorListPage, LoadAdminPage, LoadMatchSet, FetchBatch,
                SelectPostsByIDs, KeepVisible, ShowPage, world
  <2>3. ASSUME Changing
        PROVE  kind' = kind /\ strayed' = strayed
    BY <2>3 DEF Changing
  <2>4. ASSUME UNCHANGED walkVars
        PROVE  kind' = kind /\ strayed' = strayed
    BY <2>4 DEF walkVars
  <2>5. QED
    BY <2>1, <2>2, <2>3, <2>4
       DEF WalkNext, PublishPost, DeletePost, ComesBack, ResolveReport, Retag, Rerank, Rescore,
           SetBoardVisibility
<1>3. OfAdmins /\ SteadyIsShown =>
         (step = "over" /\ kind \notin {"dead", "reports"} => \A i \in steady : shown[i] > 0)
  BY DEF SteadyIsShown
<1>4. QED
  BY <1>1, <1>2, <1>3, SteadyShown, PTL DEF WalkSpec


\* Every page ends after the one before, and every batch of a load after the batch before: where
\* nothing is added, a walk and the loop of a load come to an end (the cursors of all the lists).
THEOREM WalkAdvances ==
    WalkSpec => [][/\ cursor' # cursor => AfterCursor(cursor, cursor')
                   /\ step = "boards" /\ step' # "boards" => AfterCursor(from, from')]_walkVars
<1> DEFINE Advances == /\ cursor' # cursor => AfterCursor(cursor, cursor')
                       /\ step = "boards" /\ step' # "boards" => AfterCursor(from, from')
<1>1. ASSUME WalkInv, WalkNext
      PROVE  Advances
  <2>1. \/ Changing
        \/ UNCHANGED cursor /\ step # "boards"
        \/ \E again \in {"check", "match", "fetch"} : KeepVisible(again) \/ ShowPage(again)
    BY <1>1 DEF WalkNext, Walk, GetPostsList, GetMyDraftPosts, GetMyNotifications, GetCommentsByPost,
                GetBoards, GetAllBoards, GetDeadMessages, GetReports, GetPostsByTag, SearchPosts,
                GetFeed, CheckBoard, LoadCursorListPage, LoadAdminPage, LoadMatchSet, FetchBatch,
                SelectPostsByIDs, PublishPost, DeletePost, ComesBack, ResolveReport, Retag, Rerank,
                Rescore, SetBoardVisibility
  <2>2. CASE Changing
    BY <2>2 DEF Changing, load
  <2>3. ASSUME NEW again \in {"check", "match", "fetch"}, KeepVisible(again)
        PROVE  Advances
    <3>1. step = "boards" /\ cursor' = cursor /\ from' = LastOf(batch).at
      BY <2>3 DEF KeepVisible
    <3>2. /\ batch # {} /\ batch \subseteq Entries /\ IsFiniteSet(batch)
          /\ \A x \in batch : AfterCursor(from, x.at)
      BY <1>1, <3>1 DEF WalkInv, WalkTypeOK, ReadInStep
    <3>3. LastOf(batch) \in batch
      BY <3>2, LastIs, Zenon
    <3>4. AfterCursor(from, from')
      BY <3>1, <3>2, <3>3 DEF AfterCursor
    <3>5. QED
      BY <3>1, <3>4, Zenon
  <2>4. ASSUME NEW again \in {"check", "match", "fetch"}, ShowPage(again)
        PROVE  Advances
    <3>1. /\ step = "page"
          /\ HasMore => cursor' = LastOf(Page).at
          /\ ~HasMore => cursor' = cursor
      BY <2>4 DEF ShowPage, NextCursor
    <3>2. /\ found \subseteq Entries /\ IsFiniteSet(found)
          /\ \A x \in found : AfterCursor(cursor, x.at)
      BY <1>1 DEF WalkInv, WalkTypeOK, ReadInStep
    <3>3. ASSUME HasMore
          PROVE  LastOf(Page) \in found
      <4>1. Limit \in Nat /\ Limit > 0
        BY ListingAssumption
      <4>2. Page \subseteq found /\ IsFiniteSet(Page) /\ (found # {} => Page # {})
        BY <3>2, <4>1, FirstIs, Zenon DEF Page
      <4>3. found # {}
        <5>1. found = {} => Cardinality(found) = 0
          BY <3>2, CountOf, Zenon
        <5>2. QED
          BY <3>3, <4>1, <5>1 DEF HasMore
      <4>4. Page \subseteq Entries
        BY <3>2, <4>2
      <4>5. LastOf(Page) \in Page
        BY <4>2, <4>3, <4>4, LastIs, Zenon
      <4>6. QED
        BY <4>2, <4>5
    <3>4. cursor' # cursor => AfterCursor(cursor, cursor')
      BY <3>1, <3>2, <3>3 DEF AfterCursor
    <3>5. QED
      BY <3>1, <3>4
  <2>5. QED
    BY <2>1, <2>2, <2>3, <2>4
<1>2. WalkInv /\ [WalkNext]_walkVars => [Advances]_walkVars
  BY <1>1
<1>3. QED
  BY <1>2, WalkInvariance, PTL DEF WalkSpec

=============================================================================
