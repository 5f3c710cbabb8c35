---------------------------- MODULE ServerProofs ----------------------------
(***************************************************************************)
(* The process for every number of clients, administrators, connections    *)
(* and background workers: its transactions implement a serial store, the  *)
(* pool is never stuck while fewer administrators list reports than there  *)
(* are connections, and the process stops in order.                        *)
(*                                                                         *)
(* The argument is about what a process has still to do: each route, poll, *)
(* job and start is a sequence put together from a few well-formed ones,   *)
(* and what remains of it always fits what its transaction has written.    *)
(***************************************************************************)
EXTENDS Server, FiniteSetTheorems, TLAPS

-----------------------------------------------------------------------------
(* Sequences of steps *)

\* What a process may be given to do: it begins and ends without a transaction.
Work == {s \in Seq(Steps) : WellFormed(s) /\ (s # <<>> => s[1] \in Alone)}

\* Work that asks for no second connection.
PlainWork == {s \in Work : \A n \in 1..Len(s) : s[n] # "outside"}

\* Work after work is work.
LEMMA WorkAfterWork ==
    ASSUME NEW s \in Work, NEW t \in Work
    PROVE  s \o t \in Work
<1>1. /\ s \in Seq(Steps) /\ t \in Seq(Steps) /\ s \o t \in Seq(Steps)
      /\ Len(s) \in Nat /\ Len(t) \in Nat /\ Len(s \o t) = Len(s) + Len(t)
      /\ \A n \in 1..Len(s) : (s \o t)[n] = s[n]
      /\ \A n \in 1..Len(t) : (s \o t)[Len(s) + n] = t[n]
  BY DEF Work
<1>2. ASSUME NEW n \in 1..Len(s \o t)
      PROVE  IF n = Len(s \o t) THEN (s \o t)[n] \in Complete
                                ELSE Leads((s \o t)[n], (s \o t)[n + 1])
  <2>1. CASE n < Len(s)
    <3>1. n \in 1..Len(s) /\ n + 1 \in 1..Len(s) /\ n # Len(s \o t)
      BY <1>1, <2>1
    <3>2. (s \o t)[n] = s[n] /\ (s \o t)[n + 1] = s[n + 1]
      BY <1>1, <3>1
    <3>3. QED
      BY <2>1, <3>1, <3>2 DEF Work, WellFormed
  <2>2. CASE n = Len(s)
    <3>1. n \in 1..Len(s) /\ (s \o t)[n] = s[n] /\ s[n] \in Complete
      BY <1>1, <2>2 DEF Work, WellFormed
    <3>2. CASE Len(t) = 0
      BY <1>1, <2>2, <3>1, <3>2
    <3>3. CASE Len(t) # 0
      <4>1. (s \o t)[n + 1] = t[1] /\ n # Len(s \o t) /\ t # <<>>
        BY <1>1, <2>2, <3>3
      <4>2. QED
        BY <3>1, <4>1 DEF Work, Leads
    <3>4. QED
      BY <3>2, <3>3
  <2>3. CASE n > Len(s)
    <3> DEFINE m == n - Len(s)
    <3>1. m \in 1..Len(t) /\ n = Len(s) + m /\ (n = Len(s \o t) <=> m = Len(t))
      BY <1>1, <2>3
    <3>2. (s \o t)[n] = t[m]
      BY <1>1, <3>1
    <3>3. m # Len(t) => m + 1 \in 1..Len(t) /\ n + 1 = Len(s) + (m + 1)
      BY <1>1, <3>1
    <3>4. m # Len(t) => (s \o t)[n + 1] = t[m + 1]
      BY <1>1, <3>3
    <3> HIDE DEF m
    <3>5. QED
      BY <3>1, <3>2, <3>4 DEF Work, WellFormed
  <2>4. n < Len(s) \/ n = Len(s) \/ n > Len(s)
    BY <1>1
  <2>5. QED
    BY <2>1, <2>2, <2>3, <2>4, Zenon
<1>3. WellFormed(s \o t)
  BY <1>2 DEF WellFormed
<1>4. s \o t # <<>> => (s \o t)[1] \in Alone
  <2>1. CASE s = <<>>
    BY <1>1, <2>1 DEF Work
  <2>2. CASE s # <<>>
    <3>1. 1 \in 1..Len(s)
      BY <1>1, <2>2
    <3>2. QED
      BY <1>1, <2>2, <3>1 DEF Work
  <2>3. QED
    BY <2>1, <2>2
<1>5. QED
  BY <1>1, <1>3, <1>4 DEF Work

\* Nor does it ask for more connections.
LEMMA PlainAfterPlain ==
    ASSUME NEW s \in PlainWork, NEW t \in PlainWork
    PROVE  s \o t \in PlainWork
<1>1. s \o t \in Work
  BY WorkAfterWork DEF PlainWork
<1>2. s \in Seq(Steps) /\ t \in Seq(Steps)
  BY DEF PlainWork, Work
<1>3. ASSUME NEW n \in 1..Len(s \o t)
      PROVE  (s \o t)[n] # "outside"
  <2>1. CASE n <= Len(s)
    BY <1>2, <2>1 DEF PlainWork
  <2>2. CASE n > Len(s)
    <3>1. n - Len(s) \in 1..Len(t) /\ (s \o t)[n] = t[n - Len(s)]
      BY <1>2, <2>2
    <3>2. QED
      BY <3>1 DEF PlainWork
  <2>3. QED
    BY <1>2, <2>1, <2>2
<1>4. QED
  BY <1>1, <1>3 DEF PlainWork

\* The pieces the use cases are made of.
LEMMA Pieces ==
    /\ Nothing \in PlainWork /\ Lookup \in PlainWork /\ Statement \in PlainWork
    /\ Edit \in PlainWork /\ Change \in PlainWork /\ GetUserSuspension \in PlainWork
    /\ IssueGuestToken \in PlainWork /\ <<"body", "query">> \in PlainWork
    /\ <<"mail", "statement">> \in PlainWork
    /\ Migration \in PlainWork /\ Bootstrap \in PlainWork
    /\ GetReports \in Work
<1>1. Nothing \in PlainWork
  BY DEF PlainWork, Work, WellFormed, Leads, Alone, Complete, Steps, Nothing
<1>2. Lookup \in PlainWork
  BY DEF PlainWork, Work, WellFormed, Leads, Alone, Complete, Steps, Lookup
<1>3. Statement \in PlainWork
  BY DEF PlainWork, Work, WellFormed, Leads, Alone, Complete, Steps, Statement
<1>4. Edit \in PlainWork
  BY DEF PlainWork, Work, WellFormed, Leads, Alone, Complete, Steps, Tables, Counted, Edit
<1>5. Change \in PlainWork
  BY DEF PlainWork, Work, WellFormed, Leads, Alone, Complete, Steps, Tables, Counted, Change
<1>6. GetUserSuspension \in PlainWork
  BY DEF PlainWork, Work, WellFormed, Leads, Alone, Complete, Steps, GetUserSuspension
<1>7. IssueGuestToken \in PlainWork
  BY
     DEF PlainWork, Work, WellFormed, Leads, Alone, Complete, Steps, Tables, Counted,
         IssueGuestToken
<1>8. <<"body", "query">> \in PlainWork
  BY DEF PlainWork, Work, WellFormed, Leads, Alone, Complete, Steps
<1>9. <<"mail", "statement">> \in PlainWork
  BY DEF PlainWork, Work, WellFormed, Leads, Alone, Complete, Steps
<1>10. Migration \in PlainWork
  BY DEF PlainWork, Work, WellFormed, Leads, Alone, Complete, Steps, Tables, Counted, Migration
<1>11. Bootstrap \in PlainWork
  BY DEF PlainWork, Work, WellFormed, Leads, Alone, Complete, Steps, Bootstrap
<1>12. GetReports \in Work
  BY DEF Work, WellFormed, Leads, Alone, Complete, Steps, GetReports
<1>13. QED
  BY <1>1, <1>2, <1>3, <1>4, <1>5, <1>6, <1>7, <1>8, <1>9, <1>10, <1>11, <1>12

\* What comes after the session is looked up.
LEMMA AfterWork ==
    /\ \A w \in Work : After(w) \in Work
    /\ \A w \in PlainWork : After(w) \in PlainWork
  BY Pieces, WorkAfterWork, PlainAfterPlain DEF After, PlainWork

\* Where the pieces of a group of routes may be sent from.
LEMMA Groups ==
    ASSUME NEW works
    PROVE  /\ \A r \in Anyone(works) : ~r.admin /\ r.work \in works
           /\ \A r \in SignedIn(works) : ~r.admin /\ \E w \in works : r.work = After(w)
           /\ \A r \in AdminOnly(works) : \E w \in works : r.work = After(w)
  BY DEF Anyone, SignedIn, AdminOnly

\* A route whose work needs no second connection unless it is an administrator's.
Sound(r) == r.work \in Work /\ (r.admin \/ r.work \in PlainWork)

\* The groups are sound if their pieces are.
LEMMA SoundGroups ==
    ASSUME NEW works
    PROVE  /\ works \subseteq PlainWork => \A r \in Anyone(works) \cup SignedIn(works) : Sound(r)
           /\ works \subseteq Work => \A r \in AdminOnly(works) : Sound(r)
<1>1. PlainWork \subseteq Work
  BY DEF PlainWork
<1>2. ASSUME works \subseteq PlainWork, NEW r \in Anyone(works)
      PROVE  Sound(r)
  BY <1>1, <1>2, Groups DEF Sound
<1>3. ASSUME works \subseteq PlainWork, NEW r \in SignedIn(works)
      PROVE  Sound(r)
  BY <1>1, <1>3, Groups, AfterWork DEF Sound
<1>4. ASSUME works \subseteq Work, NEW r \in AdminOnly(works)
      PROVE  Sound(r)
  <2>1. r.admin = TRUE /\ \E w \in works : r.work = After(w)
    BY <1>4 DEF AdminOnly
  <2>2. QED
    BY <1>4, <2>1, AfterWork DEF Sound
<1>5. QED
  BY <1>2, <1>3, <1>4

\* Every route of the API ...
LEMMA SoundApiRoutes == \A r \in ApiRoutes : Sound(r)
<1>1. /\ {Change, Lookup, IssueGuestToken} \subseteq PlainWork /\ {Change} \subseteq PlainWork
      /\ {Edit} \subseteq PlainWork /\ {Lookup \o Edit} \subseteq PlainWork
      /\ {Nothing, Lookup} \subseteq PlainWork /\ {Lookup, Edit} \subseteq PlainWork
      /\ {Lookup, MarkRead, Statement} \subseteq PlainWork /\ {CreateReport} \subseteq PlainWork
      /\ {Lookup} \subseteq PlainWork /\ {Upload, Lookup} \subseteq PlainWork
      /\ {Lookup \o Change} \subseteq PlainWork
  BY Pieces, PlainAfterPlain DEF MarkRead, CreateReport, Upload
<1>2. /\ {GetUserSuspension, Edit} \subseteq Work /\ {GetReports, ResolveReport} \subseteq Work
      /\ {Lookup, RequeueDeadMessage} \subseteq Work /\ {Change} \subseteq Work
  BY Pieces, PlainAfterPlain DEF PlainWork, ResolveReport, RequeueDeadMessage
<1>3. /\ \A r \in SignInRoutes : Sound(r)
      /\ \A r \in VerifyRoutes : Sound(r)
      /\ \A r \in RequestReset : Sound(r)
      /\ \A r \in ConfirmReset : Sound(r)
      /\ \A r \in ProfileRoutes : Sound(r)
      /\ \A r \in OwnPostRoutes : Sound(r)
      /\ \A r \in InboxRoutes : Sound(r)
      /\ \A r \in ReportRoutes : Sound(r)
  BY <1>1, SoundGroups DEF SignInRoutes, VerifyRoutes, RequestReset, ConfirmReset, ProfileRoutes,
                           OwnPostRoutes, InboxRoutes, ReportRoutes
<1>4. /\ \A r \in SuspendRoutes : Sound(r)
      /\ \A r \in ResolveRoutes : Sound(r)
      /\ \A r \in OutboxRoutes : Sound(r)
      /\ \A r \in VisibilityRoute : Sound(r)
  BY <1>2, SoundGroups DEF SuspendRoutes, ResolveRoutes, OutboxRoutes, VisibilityRoute
<1>5. /\ \A r \in BoardRoutes : Sound(r)
      /\ \A r \in BoardPostRoutes : Sound(r)
      /\ \A r \in FeedRoutes : Sound(r)
      /\ \A r \in DetailRoutes : Sound(r)
      /\ \A r \in FileRoutes : Sound(r)
      /\ \A r \in PostRoutes : Sound(r)
      /\ \A r \in CommentRoutes : Sound(r)
      /\ \A r \in ReactionsRoutes : Sound(r)
      /\ \A r \in ReactionRoutes : Sound(r)
  BY <1>1, <1>2, SoundGroups DEF BoardRoutes, BoardPostRoutes, FeedRoutes, DetailRoutes, FileRoutes,
                                 PostRoutes, CommentRoutes, ReactionsRoutes, ReactionRoutes
<1>6. QED
  BY <1>3, <1>4, <1>5 DEF ApiRoutes

\* ... and every page is sound.
LEMMA SoundPages == \A r \in Pages : Sound(r)
<1>1. /\ {Nothing} \subseteq PlainWork /\ {IssueGuestToken \o Lookup} \subseteq PlainWork
      /\ {Lookup} \subseteq PlainWork
      /\ {Nothing, Lookup, Lookup \o IssueGuestToken, Change} \subseteq PlainWork
      /\ {Lookup, Edit, Lookup \o Edit, Change} \subseteq PlainWork
      /\ {Change} \subseteq PlainWork /\ {Lookup, Edit, Change} \subseteq PlainWork
      /\ {Lookup, Statement} \subseteq PlainWork /\ {Lookup \o Change} \subseteq PlainWork
      /\ {Change, MarkRead} \subseteq PlainWork
  BY Pieces, PlainAfterPlain DEF MarkRead
<1>2. /\ {GetReports, GetReports \o Lookup, ResolveReport, Lookup, RequeueDeadMessage} \subseteq Work
      /\ {Lookup, Change} \subseteq Work /\ {GetUserSuspension, Edit} \subseteq Work
  BY Pieces, PlainAfterPlain, WorkAfterWork DEF PlainWork, ResolveReport, RequeueDeadMessage
<1>3. \A r \in Shell : Sound(r)
  BY <1>1, SoundGroups DEF Shell
<1>4. /\ \A r \in FeedPages : Sound(r)
      /\ \A r \in PostPages : Sound(r)
      /\ \A r \in SignInForms : Sound(r)
      /\ \A r \in AccountForms : Sound(r)
      /\ \A r \in PostForms : Sound(r)
      /\ \A r \in ProfilePages : Sound(r)
      /\ \A r \in InboxPages : Sound(r)
      /\ \A r \in ReactionForms : Sound(r)
      /\ \A r \in OtherForms : Sound(r)
  BY <1>1, <1>3, SoundGroups DEF FeedPages, PostPages, SignInForms, AccountForms, PostForms,
                                 ProfilePages, InboxPages, ReactionForms, OtherForms
<1>5. /\ \A r \in AdminPages : Sound(r)
      /\ \A r \in BoardPages : Sound(r)
      /\ \A r \in SuspensionPages : Sound(r)
  BY <1>2, SoundGroups DEF AdminPages, BoardPages, SuspensionPages
<1>6. QED
  BY <1>3, <1>4, <1>5 DEF Pages

\* So is what the relay and the jobs do, and what the start does.
LEMMA SoundBackground == Polls \cup Jobs \cup {Startup} \subseteq PlainWork
  BY Pieces, PlainAfterPlain DEF Polls, Jobs, Startup
-----------------------------------------------------------------------------
(* One process does a step *)

\* What remains after a step of a process: well-formed, and led to by the step.
LEMMA Remains ==
    ASSUME NEW s \in Seq(Steps), s # <<>>, WellFormed(s)
    PROVE  /\ Tail(s) \in Seq(Steps) /\ WellFormed(Tail(s))
           /\ Tail(s) = <<>> => Head(s) \in Complete
           /\ Tail(s) # <<>> => Leads(Head(s), Head(Tail(s)))
           /\ \A n \in 1..Len(Tail(s)) : n + 1 \in 1..Len(s) /\ Tail(s)[n] = s[n + 1]
<1>1. /\ Tail(s) \in Seq(Steps) /\ Head(s) = s[1] /\ Len(s) \in Nat /\ Len(s) # 0
      /\ Len(Tail(s)) = Len(s) - 1 /\ Len(Tail(s)) \in Nat
      /\ \A n \in 1..Len(Tail(s)) : Tail(s)[n] = s[n + 1]
  OBVIOUS
<1>2. \A n \in 1..Len(s) : IF n = Len(s) THEN s[n] \in Complete ELSE Leads(s[n], s[n + 1])
  BY DEF WellFormed
<1>3. \A n \in 1..Len(Tail(s)) : n + 1 \in 1..Len(s) /\ (n = Len(Tail(s)) <=> n + 1 = Len(s))
  BY <1>1
<1>4. WellFormed(Tail(s))
  <2> SUFFICES ASSUME NEW n \in 1..Len(Tail(s))
               PROVE  IF n = Len(Tail(s)) THEN Tail(s)[n] \in Complete
                      ELSE Leads(Tail(s)[n], Tail(s)[n + 1])
    BY DEF WellFormed
  <2>1. Tail(s)[n] = s[n + 1] /\ n + 1 \in 1..Len(s)
    BY <1>1, <1>3, Zenon
  <2>2. n # Len(Tail(s)) => n + 1 \in 1..Len(Tail(s)) /\ n + 1 # Len(s)
    <3> DEFINE k == Len(Tail(s))
               m == Len(s)
    <3>1. k \in Nat /\ m \in Nat /\ k = m - 1 /\ n \in 1..k
      BY <1>1, Zenon
    <3> HIDE DEF k, m
    <3>2. n # k => n + 1 \in 1..k /\ n + 1 # m
      BY <3>1
    <3>3. QED
      BY <3>2 DEF k, m
  <2>3. n # Len(Tail(s)) => Tail(s)[n + 1] = s[(n + 1) + 1]
    BY <1>1, <2>2, Zenon
  <2>4. QED
    BY <1>2, <1>3, <2>1, <2>2, <2>3
<1>5. Tail(s) = <<>> => Head(s) \in Complete
  <2> SUFFICES ASSUME Tail(s) = <<>> PROVE Head(s) \in Complete
    OBVIOUS
  <2>1. Len(Tail(s)) = Len(<<>>) /\ Len(<<>>) = 0
    OBVIOUS
  <2>2. Len(s) = 1 /\ 1 \in 1..Len(s)
    <3> DEFINE k == Len(Tail(s))
    <3>1. k = 0 /\ Len(s) \in Nat /\ k = Len(s) - 1
      BY <1>1, <2>1, Zenon
    <3> HIDE DEF k
    <3>2. QED
      BY <3>1
  <2>3. IF 1 = Len(s) THEN s[1] \in Complete ELSE Leads(s[1], s[1 + 1])
    BY <1>2, <2>2, Zenon
  <2>4. QED
    BY <1>1, <2>2, <2>3
<1>6. Tail(s) # <<>> => Leads(Head(s), Head(Tail(s)))
  <2> SUFFICES ASSUME Tail(s) # <<>> PROVE Leads(Head(s), Head(Tail(s)))
    OBVIOUS
  <2>1. 1 \in 1..Len(s) /\ 1 # Len(s) /\ Head(Tail(s)) = s[1 + 1]
    BY <1>1
  <2>2. QED
    BY <1>1, <1>2, <2>1
<1>7. QED
  BY <1>1, <1>3, <1>4, <1>5, <1>6

\* The transaction of a process that does nothing else but what is said.
SameBut(p) ==
    \A q \in Processes \ {p} :
        /\ tx'[q].read = tx[q].read /\ tx'[q].wrote = tx[q].wrote /\ tx'[q].open = tx[q].open
        /\ tx[q] = NoTx => tx'[q] = NoTx

\* Which transaction fits the next step is seen at what it has read and written.
LEMMA BeforeSame ==
    ASSUME NEW x, NEW y, NEW a, Before(x, a),
           y.read = x.read, y.wrote = x.wrote, x = NoTx => y = NoTx
    PROVE  Before(y, a)
  BY DEF Before

\* The process has finitely many goroutines.
LEMMA FiniteProcesses == IsFiniteSet(Processes)
<1>1. Processes = ((Clients \cup {Relay}) \cup {Job}) \cup {Main}
  BY DEF Processes, Background
<1>2. IsFiniteSet(((Clients \cup {Relay}) \cup {Job}) \cup {Main})
  BY ServerAssumption, FS_AddElement
<1>3. QED
  BY <1>1, <1>2

\* The pool is not exceeded by a step that opens no transaction.
LEMMA PoolShrinks ==
    ASSUME Cardinality({p \in Processes : tx[p].open}) <= MaxConns,
           \A p \in Processes : tx'[p].open => tx[p].open
    PROVE  Cardinality({p \in Processes : tx'[p].open}) <= MaxConns
<1> DEFINE O == {p \in Processes : tx[p].open}
           P == {p \in Processes : tx'[p].open}
<1>1. O \subseteq Processes /\ P \subseteq O
  OBVIOUS
<1>2. IsFiniteSet(O)
  BY <1>1, FiniteProcesses, FS_Subset
<1>3. Cardinality(P) <= Cardinality(O) /\ Cardinality(P) \in Nat /\ Cardinality(O) \in Nat
  BY <1>1, <1>2, FS_Subset, FS_CardinalityType
<1>4. QED
  BY <1>3, ServerAssumption

\* A step of process p, by what it leaves of p's work and makes of its transaction.
LEMMA MoveInv ==
    ASSUME IInv, NEW p \in Processes, NEW a, At(p, a), Advance(p), UNCHANGED <<phase, late>>,
           tx' \in [Processes -> Tx], table' \in [Counted -> 0..(Wrap - 1)],
           SameBut(p),
           a \in Complete => tx'[p] = NoTx,
           \A b : Leads(a, b) => Before(tx'[p], b)
    PROVE  /\ TypeOK' /\ StepsInStep' /\ PhasesInStep'
           /\ \A q \in Processes \ Admins : \A n \in 1..Len(todo'[q]) : todo'[q][n] # "outside"
<1>1. /\ todo[p] \in Seq(Steps) /\ todo[p] # <<>> /\ Head(todo[p]) = a /\ WellFormed(todo[p])
      /\ todo' = [todo EXCEPT ![p] = Tail(todo[p])]
      /\ todo \in [Processes -> Seq(Steps)]
  BY DEF IInv, TypeOK, StepsInStep, At, Advance
<1>2. /\ Tail(todo[p]) \in Seq(Steps) /\ WellFormed(Tail(todo[p]))
      /\ Tail(todo[p]) = <<>> => a \in Complete
      /\ Tail(todo[p]) # <<>> => Leads(a, Head(Tail(todo[p])))
      /\ \A n \in 1..Len(Tail(todo[p])) :
            n + 1 \in 1..Len(todo[p]) /\ Tail(todo[p])[n] = todo[p][n + 1]
  BY <1>1, Remains
<1>3. todo'[p] = Tail(todo[p]) /\ \A q \in Processes \ {p} : todo'[q] = todo[q]
  BY <1>1
<1>4. TypeOK'
  BY <1>1, <1>2 DEF IInv, TypeOK
<1>5. ASSUME NEW q \in Processes
      PROVE  /\ WellFormed(todo'[q])
             /\ IF todo'[q] = <<>> THEN tx'[q] = NoTx ELSE Before(tx'[q], Head(todo'[q]))
  <2>1. CASE q = p
    BY <1>2, <1>3, <2>1
  <2>2. CASE q # p
    <3>1. todo'[q] = todo[q] /\ WellFormed(todo[q])
      BY <1>3, <2>2 DEF IInv, StepsInStep
    <3>2. CASE todo[q] = <<>>
      BY <2>2, <3>1, <3>2 DEF IInv, StepsInStep, SameBut
    <3>3. CASE todo[q] # <<>>
      <4>1. Before(tx[q], Head(todo[q]))
        BY <3>3 DEF IInv, StepsInStep
      <4>2. Before(tx'[q], Head(todo[q]))
        BY <2>2, <4>1, BeforeSame DEF SameBut
      <4>3. QED
        BY <3>1, <3>3, <4>2
    <3>4. QED
      BY <3>2, <3>3
  <2>3. QED
    BY <2>1, <2>2
<1>6. StepsInStep'
  BY <1>5 DEF StepsInStep, WellFormed, Leads, Before, Complete, Alone, NoTx
<1>7. PhasesInStep'
  <2>1. phase = "stopping" => late \/ \A c \in Clients : todo'[c] = <<>>
    BY <1>1, <1>3 DEF IInv, PhasesInStep, Idle, Processes
  <2>2. phase \notin {"exited", "crashed"}
    BY <1>1 DEF IInv, PhasesInStep, Idle
  <2>3. QED
    BY <2>1, <2>2 DEF PhasesInStep, Idle
<1>8. \A q \in Processes \ Admins : \A n \in 1..Len(todo'[q]) : todo'[q][n] # "outside"
  BY <1>2, <1>3, ZenonT(60) DEF IInv, PoolInStep
<1>9. QED
  BY <1>4, <1>6, <1>7, <1>8
\* The next step of a process fits its transaction.
LEMMA NextFits ==
    ASSUME IInv, NEW p \in Processes, NEW a, At(p, a)
    PROVE  Before(tx[p], a) /\ tx[p] \in Tx
  BY DEF IInv, StepsInStep, TypeOK, At

\* A query, on the pool or from outside of the transaction, a message and the body of a request
\* change nothing.
LEMMA PassInv ==
    ASSUME IInv, NEW p \in Processes, NEW a \in {"query", "outside", "mail", "body"},
           At(p, a), Advance(p), UNCHANGED <<tx, table, phase, late>>
    PROVE  IInv'
<1>1. Before(tx[p], a)
  BY NextFits
<1>2. a \in Complete => tx'[p] = NoTx
  BY <1>1 DEF Before, Complete, Alone
<1>3. \A b : Leads(a, b) => Before(tx'[p], b)
  BY <1>1 DEF Before, Leads, Complete, Alone
<1>4. SameBut(p) /\ tx' \in [Processes -> Tx] /\ table' \in [Counted -> 0..(Wrap - 1)]
  BY DEF SameBut, IInv, TypeOK
<1>5. /\ TypeOK' /\ StepsInStep' /\ PhasesInStep'
      /\ \A q \in Processes \ Admins : \A n \in 1..Len(todo'[q]) : todo'[q][n] # "outside"
  BY <1>2, <1>3, <1>4, MoveInv
<1>6. OneWriter' /\ SnapshotsLatest'
  BY DEF IInv, OneWriter, SnapshotsLatest, Writer, Locked
<1>7. PoolInStep'
  BY <1>5 DEF IInv, PoolInStep
<1>8. QED
  BY <1>5, <1>6, <1>7 DEF IInv

\* The transactions after a commit: p's own is over, those of the others are the same but old
\* if they have read.
LEMMA OutdatedTx ==
    ASSUME IInv, NEW p \in Processes, tx' = Outdated(p)
    PROVE  /\ tx' \in [Processes -> Tx] /\ tx'[p] = NoTx /\ SameBut(p)
           /\ \A q \in Processes : q # p =>
                 /\ tx'[q].wrote = tx[q].wrote /\ tx'[q].read = tx[q].read
                 /\ (tx'[q].stale <=> (tx[q].stale \/ tx[q].read # NotRead))
           /\ \A q \in Processes : tx'[q].open => tx[q].open
<1>1. NoTx \in Tx
  BY ServerAssumption DEF NoTx, Tx
<1>2. tx'[p] = NoTx
  BY DEF Outdated
<1>3. ASSUME NEW q \in Processes, q # p
      PROVE  /\ tx'[q] \in Tx /\ tx'[q].open = tx[q].open
             /\ tx'[q].wrote = tx[q].wrote /\ tx'[q].read = tx[q].read
             /\ (tx'[q].stale <=> (tx[q].stale \/ tx[q].read # NotRead))
             /\ tx[q] = NoTx => tx'[q] = NoTx
  <2>1. tx[q] \in Tx
    BY DEF IInv, TypeOK
  <2>2. tx'[q] = [tx[q] EXCEPT !.stale = tx[q].stale \/ tx[q].read # NotRead]
    BY <1>3 DEF Outdated
  <2>3. tx[q] = NoTx => (tx[q].stale \/ tx[q].read # NotRead) = FALSE /\ tx[q].stale = FALSE
    BY DEF NoTx
  <2>4. QED
    BY <2>1, <2>2, <2>3 DEF Tx, NoTx
<1>4. tx' \in [Processes -> Tx]
  BY <1>1, <1>3 DEF Outdated
<1>5. SameBut(p)
  BY <1>3 DEF SameBut
<1>6. ~NoTx.open
  BY DEF NoTx
<1>7. \A q \in Processes : tx'[q].open => tx[q].open
  BY <1>2, <1>3, <1>6
<1>8. QED
  BY <1>2, <1>3, <1>4, <1>5, <1>7

\* A statement that writes does so while nobody else does.
LEMMA WriteStatementInv ==
    ASSUME IInv, NEW p \in Processes, WriteStatement(p), UNCHANGED <<phase, late>>
    PROVE  IInv'
<1>1. At(p, "statement") /\ Advance(p) /\ tx' = Outdated(p) /\ table' = table /\ ~Locked(p)
  BY DEF WriteStatement
<1>2. Before(tx[p], "statement")
  BY <1>1, NextFits
<1>3. /\ tx' \in [Processes -> Tx] /\ tx'[p] = NoTx /\ SameBut(p)
      /\ \A q \in Processes : q # p =>
            /\ tx'[q].wrote = tx[q].wrote /\ tx'[q].read = tx[q].read
            /\ (tx'[q].stale <=> (tx[q].stale \/ tx[q].read # NotRead))
      /\ \A q \in Processes : tx'[q].open => tx[q].open
  BY <1>1, OutdatedTx
<1>4. \A b : Leads("statement", b) => Before(tx'[p], b)
  BY <1>3 DEF Before, Leads, Complete, Alone
<1>5. table' \in [Counted -> 0..(Wrap - 1)]
  BY <1>1 DEF IInv, TypeOK
<1>6. /\ TypeOK' /\ StepsInStep' /\ PhasesInStep'
      /\ \A q \in Processes \ Admins : \A n \in 1..Len(todo'[q]) : todo'[q][n] # "outside"
  BY <1>1, <1>3, <1>4, <1>5, MoveInv
<1>7. \A q \in Processes : tx'[q].wrote = {}
  BY <1>1, <1>3 DEF Locked, Writer, NoTx
<1>8. OneWriter'
  BY <1>7 DEF OneWriter, Writer, Locked
<1>9. SnapshotsLatest'
  BY <1>1, <1>3 DEF IInv, SnapshotsLatest, NoTx
<1>10. PoolInStep'
  BY <1>3, <1>6, PoolShrinks DEF IInv, PoolInStep
<1>11. QED
  BY <1>6, <1>8, <1>9, <1>10 DEF IInv

\* A transaction begins on a connection that is free.
LEMMA BeginInv ==
    ASSUME IInv, NEW p \in Processes, Begin(p), UNCHANGED <<phase, late>>
    PROVE  IInv'
<1> DEFINE x == [tx[p] EXCEPT !.open = TRUE]
<1>1. At(p, "begin") /\ Advance(p) /\ tx' = [tx EXCEPT ![p] = x] /\ table' = table /\ FreeConn
  BY DEF Begin
<1>2. tx[p] = NoTx
  BY <1>1, NextFits DEF Before, Alone
<1>3. x \in Tx /\ x.wrote = {} /\ x.read = NotRead /\ x.open
  <2>1. tx[p] \in Tx /\ tx[p].wrote = {} /\ tx[p].read = NotRead
    BY <1>1, <1>2, NextFits DEF NoTx
  <2>2. QED
    BY <2>1 DEF Tx
<1>4. tx'[p] = x /\ (\A q \in Processes \ {p} : tx'[q] = tx[q]) /\ tx' \in [Processes -> Tx]
  BY <1>1, <1>3 DEF IInv, TypeOK
<1> HIDE DEF x
<1>5. \A b : Leads("begin", b) => Before(tx'[p], b)
  BY <1>3, <1>4 DEF Before, Leads, Complete
<1>6. SameBut(p) /\ table' \in [Counted -> 0..(Wrap - 1)]
  BY <1>1, <1>4 DEF SameBut, IInv, TypeOK
<1>7. /\ TypeOK' /\ StepsInStep' /\ PhasesInStep'
      /\ \A q \in Processes \ Admins : \A n \in 1..Len(todo'[q]) : todo'[q][n] # "outside"
  BY <1>1, <1>4, <1>5, <1>6, MoveInv DEF Complete
<1>8. OneWriter'
  BY <1>3, <1>4 DEF IInv, OneWriter, Writer, Locked
<1>9. SnapshotsLatest'
  BY <1>1, <1>3, <1>4 DEF IInv, SnapshotsLatest
<1>10. Cardinality({q \in Processes : tx'[q].open}) <= MaxConns
  <2> DEFINE O == {q \in Processes : tx[q].open}
             P == {q \in Processes : tx'[q].open}
  <2>1. P = O \cup {p}
    BY <1>3, <1>4
  <2>2. IsFiniteSet(O) /\ Cardinality(O) \in Nat
    BY FiniteProcesses, FS_Subset, FS_CardinalityType
  <2>3. Cardinality(O) < MaxConns
    BY <1>1 DEF FreeConn
  <2>4. Cardinality(P) = IF p \in O THEN Cardinality(O) ELSE Cardinality(O) + 1
    BY <2>1, <2>2, FS_AddElement, Zenon
  <2> DEFINE n == Cardinality(O)
             m == Cardinality(P)
  <2>5. n \in Nat /\ n < MaxConns /\ (m = n \/ m = n + 1)
    BY <2>2, <2>3, <2>4, Zenon
  <2> HIDE DEF n, m
  <2>6. m <= MaxConns
    BY <2>5, ServerAssumption
  <2>7. QED
    BY <2>6 DEF m
<1>11. PoolInStep'
  BY <1>7, <1>10 DEF PoolInStep
<1>12. QED
  BY <1>7, <1>8, <1>9, <1>11 DEF IInv

\* What a transaction reads is the latest.
LEMMA ReadInv ==
    ASSUME IInv, NEW p \in Processes, Read(p), UNCHANGED <<phase, late>>
    PROVE  IInv'
<1> DEFINE x == [tx[p] EXCEPT !.read = table["rows"]]
<1>1. At(p, "read") /\ Advance(p) /\ tx' = [tx EXCEPT ![p] = x] /\ table' = table
  BY DEF Read
<1>2. tx[p].wrote = {} /\ tx[p] \in Tx
  BY <1>1, NextFits DEF Before, Alone
<1>3. table["rows"] \in 0..(Wrap - 1) /\ table["rows"] # NotRead
  BY ServerAssumption DEF IInv, TypeOK, Counted, NotRead
<1>4. /\ x \in Tx /\ x.wrote = {} /\ x.read = table["rows"] /\ x.read # NotRead
      /\ x.open = tx[p].open
  BY <1>2, <1>3 DEF Tx
<1>5. tx'[p] = x /\ (\A q \in Processes \ {p} : tx'[q] = tx[q]) /\ tx' \in [Processes -> Tx]
  BY <1>1, <1>4 DEF IInv, TypeOK
<1> HIDE DEF x
<1>6. \A b : Leads("read", b) => Before(tx'[p], b)
  BY <1>4, <1>5 DEF Before, Leads, Complete
<1>7. SameBut(p) /\ table' \in [Counted -> 0..(Wrap - 1)]
  BY <1>1, <1>5 DEF SameBut, IInv, TypeOK
<1>8. /\ TypeOK' /\ StepsInStep' /\ PhasesInStep'
      /\ \A q \in Processes \ Admins : \A n \in 1..Len(todo'[q]) : todo'[q][n] # "outside"
  BY <1>1, <1>5, <1>6, <1>7, MoveInv DEF Complete
<1>9. OneWriter'
  BY <1>4, <1>5 DEF IInv, OneWriter, Writer, Locked
<1>10. SnapshotsLatest'
  BY <1>1, <1>4, <1>5 DEF IInv, SnapshotsLatest
<1>11. \A q \in Processes : tx'[q].open => tx[q].open
  BY <1>4, <1>5
<1>12. PoolInStep'
  BY <1>8, <1>11, PoolShrinks DEF IInv, PoolInStep
<1>13. QED
  BY <1>8, <1>9, <1>10, <1>12 DEF IInv

\* A transaction becomes the writer, or stays it.
LEMMA WriteInv ==
    ASSUME IInv, NEW p \in Processes, Write(p), UNCHANGED <<phase, late>>
    PROVE  IInv'
<1>1. PICK t \in Tables : At(p, t) /\ tx' = [tx EXCEPT ![p].wrote = @ \cup {t}]
  BY DEF Write
<1> DEFINE x == [tx[p] EXCEPT !.wrote = tx[p].wrote \cup {t}]
<1>2. Advance(p) /\ tx' = [tx EXCEPT ![p] = x] /\ table' = table /\ ~Locked(p) /\ ~tx[p].stale
  BY <1>1 DEF Write, MayWrite
<1>3. tx[p] \in Tx /\ Before(tx[p], t)
  BY <1>1, NextFits
<1>4. /\ x \in Tx /\ x.wrote = tx[p].wrote \cup {t} /\ x.read = tx[p].read
      /\ x.open = tx[p].open /\ ~x.stale
  BY <1>2, <1>3 DEF Tx
<1>5. tx'[p] = x /\ (\A q \in Processes \ {p} : tx'[q] = tx[q]) /\ tx' \in [Processes -> Tx]
  BY <1>2, <1>4 DEF IInv, TypeOK
<1> HIDE DEF x
<1>6. \A b : Leads(t, b) => Before(tx'[p], b)
  <2>1. CASE t = "rows"
    BY <1>3, <1>4, <1>5, <2>1 DEF Before, Leads, Complete, Alone
  <2>2. CASE t = "outbox"
    BY <1>3, <1>4, <1>5, <2>2 DEF Before, Leads, Complete, Alone
  <2>3. CASE t = "schema"
    BY <1>3, <1>4, <1>5, <2>3 DEF Before, Leads, Complete, Alone
  <2>4. CASE t = "migrations"
    BY <1>3, <1>4, <1>5, <2>4 DEF Before, Leads, Complete, Alone
  <2>5. CASE t = "other"
    BY <1>3, <1>4, <1>5, <2>5 DEF Before, Leads, Complete, Alone
  <2>6. QED
    BY <2>1, <2>2, <2>3, <2>4, <2>5 DEF Tables, Counted
<1>7. t \notin Complete
  BY DEF Tables, Counted, Complete
<1>8. SameBut(p) /\ table' \in [Counted -> 0..(Wrap - 1)]
  BY <1>2, <1>5 DEF SameBut, IInv, TypeOK
<1>9. /\ TypeOK' /\ StepsInStep' /\ PhasesInStep'
      /\ \A q \in Processes \ Admins : \A n \in 1..Len(todo'[q]) : todo'[q][n] # "outside"
  BY <1>1, <1>2, <1>5, <1>6, <1>7, <1>8, MoveInv
<1>10. OneWriter'
  BY <1>2, <1>4, <1>5 DEF IInv, OneWriter, Writer, Locked
<1>11. SnapshotsLatest'
  BY <1>2, <1>4, <1>5 DEF IInv, SnapshotsLatest
<1>12. \A q \in Processes : tx'[q].open => tx[q].open
  BY <1>4, <1>5
<1>13. PoolInStep'
  BY <1>9, <1>12, PoolShrinks DEF IInv, PoolInStep
<1>14. QED
  BY <1>9, <1>10, <1>11, <1>13 DEF IInv
\* The transaction of p is over, the others go on.
EndsTx(p) ==
    /\ tx' \in [Processes -> Tx] /\ tx'[p] = NoTx /\ SameBut(p)
    /\ \A q \in Processes : q # p => tx'[q] = tx[q]
    /\ \A q \in Processes : tx'[q].open => tx[q].open

\* So it is after a rollback, and after a commit that wrote nothing.
LEMMA NoTxEnds ==
    ASSUME IInv, NEW p \in Processes, tx' = [tx EXCEPT ![p] = NoTx]
    PROVE  EndsTx(p)
<1>1. NoTx \in Tx /\ ~NoTx.open
  BY DEF NoTx, Tx
<1>2. tx' \in [Processes -> Tx] /\ tx'[p] = NoTx /\ \A q \in Processes : q # p => tx'[q] = tx[q]
  BY <1>1 DEF IInv, TypeOK
<1>3. QED
  BY <1>1, <1>2 DEF EndsTx, SameBut

\* It disturbs nobody.
LEMMA EndsTxInv ==
    ASSUME IInv, NEW p \in Processes, EndsTx(p), table' = table,
           TypeOK', StepsInStep', PhasesInStep',
           \A q \in Processes \ Admins : \A n \in 1..Len(todo'[q]) : todo'[q][n] # "outside"
    PROVE  IInv'
<1>1. tx'[p] = NoTx /\ NoTx.wrote = {} /\ NoTx.read = NotRead
  BY DEF EndsTx, NoTx
<1>2. OneWriter'
  BY <1>1 DEF IInv, OneWriter, Writer, Locked, EndsTx
<1>3. SnapshotsLatest'
  BY <1>1 DEF IInv, SnapshotsLatest, EndsTx
<1>4. PoolInStep'
  BY PoolShrinks DEF IInv, PoolInStep, EndsTx
<1>5. QED
  BY <1>2, <1>3, <1>4 DEF IInv

\* Work that ends, however it does, leaves no transaction.
LEMMA AbortInv ==
    ASSUME IInv, NEW p \in Processes, Abort(p), UNCHANGED <<phase, late>>
    PROVE  IInv'
<1>1. /\ todo[p] # <<>> /\ todo' = [todo EXCEPT ![p] = <<>>]
      /\ tx' = [tx EXCEPT ![p] = NoTx] /\ table' = table
  BY DEF Abort, Rollback
<1>2. EndsTx(p)
  BY <1>1, NoTxEnds
<1>3. /\ todo' \in [Processes -> Seq(Steps)] /\ todo'[p] = <<>>
      /\ \A q \in Processes : q # p => todo'[q] = todo[q]
  BY <1>1 DEF IInv, TypeOK
<1>4. TypeOK'
  BY <1>1, <1>2, <1>3 DEF IInv, TypeOK, EndsTx
<1>5. WellFormed(<<>>) /\ \A n \in 1..Len(<<>>) : FALSE
  BY DEF WellFormed
<1>6. ASSUME NEW q \in Processes
      PROVE  /\ WellFormed(todo'[q])
             /\ IF todo'[q] = <<>> THEN tx'[q] = NoTx ELSE Before(tx'[q], Head(todo'[q]))
  BY <1>2, <1>3, <1>5 DEF IInv, StepsInStep, EndsTx
<1>7. StepsInStep'
  BY <1>6 DEF StepsInStep, WellFormed, Leads, Before, Complete, Alone, NoTx
<1>8. PhasesInStep'
  BY <1>1, <1>3 DEF IInv, PhasesInStep, Idle, Processes
<1>9. \A q \in Processes \ Admins : \A n \in 1..Len(todo'[q]) : todo'[q][n] # "outside"
  BY <1>3, <1>5 DEF IInv, PoolInStep
<1>10. QED
  BY <1>1, <1>2, <1>4, <1>7, <1>8, <1>9, EndsTxInv

\* A commit changes nothing, or the rows with the event, or the schema with its record, each
\* from what it is now.
LEMMA CommitTable ==
    ASSUME IInv, NEW p \in Processes, Commit(p)
    PROVE  /\ table' \in [Counted -> 0..(Wrap - 1)]
           /\ ~Writer(p) => table' = table
           /\ table' = table \/ Store!Commit({"rows", "outbox"}) \/ Store!Commit({"schema", "migrations"})
<1>1. /\ table' = [t \in Counted |-> IF t \in tx[p].wrote THEN Written(p, t) ELSE table[t]]
      /\ Before(tx[p], "commit") /\ tx[p] \in Tx
  BY NextFits DEF Commit
<1>2. table \in [Counted -> 0..(Wrap - 1)]
  BY DEF IInv, TypeOK
<1>3. \A n \in 0..(Wrap - 1) : (n + 1) % Wrap \in 0..(Wrap - 1)
  BY ServerAssumption
<1>4. CASE tx[p].wrote \cap Counted = {}
  <2>1. table' = [t \in Counted |-> table[t]]
    BY <1>1, <1>4
  <2>2. table' = table
    BY <1>2, <2>1
  <2>3. QED
    BY <1>2, <2>2
<1>5. ASSUME NEW ts, tx[p].wrote = ts, ts \subseteq Counted, ts # {},
             "rows" \in ts => tx[p].read # NotRead
      PROVE  Writer(p) /\ table' \in [Counted -> 0..(Wrap - 1)] /\ Store!Commit(ts)
  <2>1. Writer(p) /\ ~tx[p].stale
    BY <1>5 DEF Writer, IInv, OneWriter
  <2>2. "rows" \in ts => tx[p].read = table["rows"]
    BY <1>5, <2>1 DEF IInv, SnapshotsLatest
  <2>3. \A t \in ts : Written(p, t) = (table[t] + 1) % Wrap
    BY <1>5, <2>2 DEF Written
  <2>4. table' = [t \in Counted |-> IF t \in ts THEN (table[t] + 1) % Wrap ELSE table[t]]
    BY <1>1, <1>5, <2>3
  <2>5. DOMAIN table = Counted
    BY <1>2
  <2>6. Store!Commit(ts)
    BY <2>4, <2>5 DEF Store!Commit
  <2>7. table' \in [Counted -> 0..(Wrap - 1)]
    BY <1>2, <1>3, <2>4
  <2>8. QED
    BY <2>1, <2>6, <2>7
<1>6. CASE tx[p].wrote = {"rows", "outbox"} /\ tx[p].read # NotRead
  BY <1>5, <1>6 DEF Counted
<1>7. CASE tx[p].wrote = {"schema", "migrations"}
  BY <1>5, <1>7 DEF Counted
<1>8. CASE tx[p].wrote \in {{}, {"other"}}
  BY <1>4, <1>8 DEF Counted
<1>9. QED
  BY <1>1, <1>6, <1>7, <1>8 DEF Before, Alone

\* A commit ends the transaction and makes the snapshots of the others old.
LEMMA CommitInv ==
    ASSUME IInv, NEW p \in Processes, Commit(p), UNCHANGED <<phase, late>>
    PROVE  IInv'
<1>1. At(p, "commit") /\ Advance(p)
  BY DEF Commit
<1>2. /\ table' \in [Counted -> 0..(Wrap - 1)]
      /\ ~Writer(p) => table' = table
  BY CommitTable
<1>3. \A x, b : Leads("commit", b) /\ x = NoTx => Before(x, b)
  BY DEF Before, Leads, Complete
<1>4. CASE Writer(p)
  <2>1. tx' = Outdated(p)
    BY <1>4 DEF Commit
  <2>2. /\ tx' \in [Processes -> Tx] /\ tx'[p] = NoTx /\ SameBut(p)
        /\ \A q \in Processes : q # p =>
              /\ tx'[q].wrote = tx[q].wrote /\ tx'[q].read = tx[q].read
              /\ (tx'[q].stale <=> (tx[q].stale \/ tx[q].read # NotRead))
        /\ \A q \in Processes : tx'[q].open => tx[q].open
    BY <2>1, OutdatedTx
  <2>3. /\ TypeOK' /\ StepsInStep' /\ PhasesInStep'
        /\ \A q \in Processes \ Admins : \A n \in 1..Len(todo'[q]) : todo'[q][n] # "outside"
    BY <1>1, <1>2, <1>3, <2>2, MoveInv
  <2>4. \A q \in Processes : tx'[q].wrote = {}
    BY <1>4, <2>2 DEF IInv, OneWriter, Locked, Writer, NoTx
  <2>5. OneWriter'
    BY <2>4 DEF OneWriter, Writer, Locked
  <2>6. SnapshotsLatest'
    BY <2>2 DEF SnapshotsLatest, NoTx
  <2>7. PoolInStep'
    BY <2>2, <2>3, PoolShrinks DEF IInv, PoolInStep
  <2>8. QED
    BY <2>3, <2>5, <2>6, <2>7 DEF IInv
<1>5. CASE ~Writer(p)
  <2>1. tx' = [tx EXCEPT ![p] = NoTx] /\ table' = table
    BY <1>2, <1>5 DEF Commit
  <2>2. EndsTx(p)
    BY <2>1, NoTxEnds
  <2>3. /\ TypeOK' /\ StepsInStep' /\ PhasesInStep'
        /\ \A q \in Processes \ Admins : \A n \in 1..Len(todo'[q]) : todo'[q][n] # "outside"
    BY <1>1, <1>2, <1>3, <2>2, MoveInv DEF EndsTx
  <2>4. QED
    BY <2>1, <2>2, <2>3, EndsTxInv
<1>6. QED
  BY <1>4, <1>5
-----------------------------------------------------------------------------
(* The process *)

\* An idle process is given work.
LEMMA GivenInv ==
    ASSUME IInv, NEW p \in Processes, NEW work \in Work,
           p \in Admins \/ work \in PlainWork,
           todo[p] = <<>>, todo' = [todo EXCEPT ![p] = work], UNCHANGED <<tx, table>>
    PROVE  /\ todo' \in [Processes -> Seq(Steps)]
           /\ StepsInStep' /\ OneWriter' /\ SnapshotsLatest' /\ PoolInStep'
<1>1. /\ work \in Seq(Steps) /\ WellFormed(work)
      /\ work # <<>> => Head(work) = work[1] /\ work[1] \in Alone
  BY DEF Work
<1>2. /\ todo' \in [Processes -> Seq(Steps)] /\ todo'[p] = work
      /\ \A q \in Processes : q # p => todo'[q] = todo[q]
  BY <1>1 DEF IInv, TypeOK
<1>3. tx[p] = NoTx
  BY DEF IInv, StepsInStep
<1>4. ASSUME NEW q \in Processes
      PROVE  /\ WellFormed(todo'[q])
             /\ IF todo'[q] = <<>> THEN tx'[q] = NoTx ELSE Before(tx'[q], Head(todo'[q]))
  <2>1. CASE q = p
    BY <1>1, <1>2, <1>3, <2>1 DEF Before
  <2>2. CASE q # p
    BY <1>2, <2>2 DEF IInv, StepsInStep
  <2>3. QED
    BY <2>1, <2>2
<1>5. StepsInStep'
  BY <1>4 DEF StepsInStep, WellFormed, Leads, Before, Complete, Alone, NoTx
<1>6. OneWriter' /\ SnapshotsLatest'
  BY DEF IInv, OneWriter, SnapshotsLatest, Writer, Locked
<1>7. \A q \in Processes \ Admins : \A n \in 1..Len(todo'[q]) : todo'[q][n] # "outside"
  <2> SUFFICES ASSUME NEW q \in Processes \ Admins, NEW n \in 1..Len(todo'[q])
               PROVE  todo'[q][n] # "outside"
    OBVIOUS
  <2>1. CASE q = p
    BY <1>2, <2>1 DEF PlainWork
  <2>2. CASE q # p
    BY <1>2, <2>2 DEF IInv, PoolInStep
  <2>3. QED
    BY <2>1, <2>2
<1>8. PoolInStep'
  BY <1>7 DEF IInv, PoolInStep
<1>9. QED
  BY <1>2, <1>5, <1>6, <1>8

\* Requests come while the process serves, polls and runs of jobs until it stops.
LEMMA BeginsInv ==
    ASSUME IInv, NEW p \in Processes, NEW work \in Work, p \in Admins \/ work \in PlainWork,
           Begins(p, work), phase \in {"serving", "draining"}
    PROVE  IInv'
<1>1. /\ todo' \in [Processes -> Seq(Steps)]
      /\ StepsInStep' /\ OneWriter' /\ SnapshotsLatest' /\ PoolInStep'
  BY GivenInv DEF Begins
<1>2. TypeOK' /\ PhasesInStep'
  BY <1>1 DEF IInv, TypeOK, PhasesInStep, Begins
<1>3. QED
  BY <1>1, <1>2 DEF IInv

\* A request is one of the routes, of those of administrators only theirs.
LEMMA ReceiveInv ==
    ASSUME IInv, NEW c \in Clients, Receive(c)
    PROVE  IInv'
<1>1. PICK r \in Routes : (r.admin => c \in Admins) /\ Begins(c, r.work)
  BY DEF Receive
<1>2. Sound(r)
  BY SoundApiRoutes, SoundPages DEF Routes
<1>3. QED
  BY <1>1, <1>2, BeginsInv DEF Sound, Receive, Processes

\* So for the relay and the jobs.
LEMMA BackgroundInv ==
    ASSUME IInv, Poll \/ RunJob
    PROVE  IInv'
<1>1. PlainWork \subseteq Work
  BY DEF PlainWork
<1>2. Relay \in Processes /\ Job \in Processes
  BY DEF Processes, Background
<1>3. CASE Poll
  BY <1>1, <1>2, <1>3, SoundBackground, BeginsInv DEF Poll, InBackground
<1>4. CASE RunJob
  BY <1>1, <1>2, <1>4, SoundBackground, BeginsInv DEF RunJob, InBackground
<1>5. QED
  BY <1>3, <1>4

\* What has ended leaves nothing behind for the next start.
LEMMA StartInv ==
    ASSUME IInv, Start
    PROVE  IInv'
<1>1. todo[Main] = <<>> /\ Main \in Processes
  BY DEF Start, IInv, PhasesInStep, Idle, Processes
<1>2. Startup \in Work /\ Startup \in PlainWork
  BY SoundBackground DEF PlainWork
<1>3. /\ todo' \in [Processes -> Seq(Steps)]
      /\ StepsInStep' /\ OneWriter' /\ SnapshotsLatest' /\ PoolInStep'
  BY <1>1, <1>2, GivenInv DEF Start
<1>4. TypeOK' /\ PhasesInStep'
  BY <1>3 DEF IInv, TypeOK, PhasesInStep, Start
<1>5. QED
  BY <1>3, <1>4 DEF IInv

\* The process ends with all it did.
LEMMA GoneInv ==
    ASSUME IInv, NEW to \in {"exited", "crashed"}, Gone(to)
    PROVE  IInv'
<1>1. NoTx \in Tx /\ ~NoTx.open /\ NoTx.wrote = {} /\ NoTx.read = NotRead
  BY DEF NoTx, Tx
<1>2. <<>> \in Seq(Steps) /\ WellFormed(<<>>) /\ \A n \in 1..Len(<<>>) : FALSE
  BY DEF WellFormed
<1>3. /\ \A p \in Processes : todo'[p] = <<>> /\ tx'[p] = NoTx
      /\ todo' \in [Processes -> Seq(Steps)] /\ tx' \in [Processes -> Tx]
      /\ table' = table /\ late' = late /\ phase' = to
  BY <1>1, <1>2 DEF Gone
<1>4. TypeOK'
  BY <1>3 DEF IInv, TypeOK
<1>5. ASSUME NEW p \in Processes
      PROVE  /\ WellFormed(todo'[p])
             /\ IF todo'[p] = <<>> THEN tx'[p] = NoTx ELSE Before(tx'[p], Head(todo'[p]))
  BY <1>2, <1>3
<1>6. StepsInStep'
  BY <1>5 DEF StepsInStep, WellFormed, Leads, Before, Complete, Alone, NoTx
<1>7. OneWriter' /\ SnapshotsLatest'
  BY <1>1, <1>3 DEF OneWriter, SnapshotsLatest, Writer
<1>8. PhasesInStep'
  BY <1>3 DEF PhasesInStep, Idle
<1>9. \A q \in Processes \ Admins : \A n \in 1..Len(todo'[q]) : todo'[q][n] # "outside"
  BY <1>2, <1>3
<1>10. PoolInStep'
  BY <1>1, <1>3, <1>9, PoolShrinks DEF IInv, PoolInStep
<1>11. QED
  BY <1>4, <1>6, <1>7, <1>8, <1>10 DEF IInv

\* A change of phase alone.
LEMMA PhaseInv ==
    ASSUME IInv, ListenAndServe \/ ListenFails \/ Signal \/ Deadline \/ Shutdown
    PROVE  IInv'
<1>1. UNCHANGED <<todo, tx, table>>
  BY DEF ListenAndServe, ListenFails, Signal, Deadline, Shutdown
<1>2. TypeOK' /\ PhasesInStep'
  <2>1. CASE ListenAndServe \/ ListenFails \/ Signal
    BY <2>1 DEF IInv, TypeOK, PhasesInStep, ListenAndServe, ListenFails, Signal
  <2>2. CASE Deadline \/ Shutdown
    BY <1>1, <2>2 DEF IInv, TypeOK, PhasesInStep, Deadline, Shutdown, Idle
  <2>3. QED
    BY <2>1, <2>2
<1>3. StepsInStep' /\ OneWriter' /\ SnapshotsLatest' /\ PoolInStep'
  BY <1>1 DEF IInv, StepsInStep, OneWriter, SnapshotsLatest, PoolInStep, Writer, Locked,
              WellFormed, Before
<1>4. QED
  BY <1>2, <1>3 DEF IInv

\* Nothing has happened yet.
LEMMA InitInv == Init => IInv
<1> SUFFICES ASSUME Init PROVE IInv
  OBVIOUS
<1>1. NoTx \in Tx /\ ~NoTx.open /\ NoTx.wrote = {} /\ NoTx.read = NotRead
  BY DEF NoTx, Tx
<1>2. <<>> \in Seq(Steps) /\ WellFormed(<<>>) /\ \A n \in 1..Len(<<>>) : FALSE
  BY DEF WellFormed
<1>3. \A p \in Processes : todo[p] = <<>> /\ tx[p] = NoTx
  BY DEF Init
<1>4. TypeOK
  <2>1. todo \in [Processes -> Seq(Steps)] /\ tx \in [Processes -> Tx]
    BY <1>1, <1>2 DEF Init
  <2>2. 0 \in 0..(Wrap - 1)
    BY ServerAssumption
  <2>3. QED
    BY <2>1, <2>2 DEF Init, TypeOK
<1>5. StepsInStep /\ OneWriter /\ SnapshotsLatest /\ PhasesInStep
  BY <1>1, <1>2, <1>3 DEF Init, StepsInStep, OneWriter, SnapshotsLatest, PhasesInStep, Writer, Idle
<1>6. {p \in Processes : tx[p].open} = {}
  BY <1>1, <1>3
<1>7. PoolInStep
  BY <1>2, <1>3, <1>6, FS_EmptySet, ServerAssumption DEF PoolInStep
<1>8. QED
  BY <1>4, <1>5, <1>7 DEF IInv

\* Every step of a request, of what runs in the background and of the process preserves the
\* invariant.
LEMMA NextInv == IInv /\ [Next]_vars => IInv'
<1> SUFFICES ASSUME IInv, [Next]_vars PROVE IInv'
  OBVIOUS
<1>1. ASSUME NEW p \in Processes, Proceed(p) PROVE IInv'
  <2>1. UNCHANGED <<phase, late>>
    BY <1>1 DEF Proceed
  <2>2. CASE Query(p)
    BY <2>1, <2>2, PassInv DEF Query
  <2>3. CASE Outside(p)
    BY <2>1, <2>3, PassInv DEF Outside
  <2>4. CASE WriteStatement(p) \/ Begin(p) \/ Read(p)
    BY <2>1, <2>4, WriteStatementInv, BeginInv, ReadInv
  <2>5. CASE Write(p) \/ Commit(p)
    BY <2>1, <2>5, WriteInv, CommitInv
  <2>6. QED
    BY <1>1, <2>2, <2>3, <2>4, <2>5 DEF Proceed
<1>2. ASSUME NEW p \in Processes, Heard(p) PROVE IInv'
  <2>1. CASE Send(p)
    BY <1>2, <2>1, PassInv DEF Heard, Send
  <2>2. CASE ReadBody(p)
    BY <1>2, <2>2, PassInv DEF Heard, ReadBody
  <2>3. QED
    BY <1>2, <2>1, <2>2 DEF Heard
<1>3. ASSUME NEW p \in Processes, Fail(p) \/ GiveUp(p) \/ CancelWork(p) PROVE IInv'
  BY <1>3, AbortInv DEF Fail, GiveUp, Busy, CancelWork
<1>4. CASE \E c \in Clients : Receive(c)
  BY <1>4, ReceiveInv
<1>5. CASE Poll \/ RunJob
  BY <1>5, BackgroundInv
<1>6. CASE Start
  BY <1>6, StartInv
<1>7. CASE StartFails \/ Exit \/ Crash
  BY <1>7, GoneInv DEF StartFails, Exit, Crash
<1>8. CASE ListenAndServe \/ ListenFails \/ Signal \/ Deadline \/ Shutdown
  BY <1>8, PhaseInv
<1>9. CASE UNCHANGED vars
  <2>1. UNCHANGED <<todo, tx, table, phase, late>>
    BY <1>9 DEF vars
  <2>2. QED
    BY <2>1 DEF IInv, TypeOK, StepsInStep, OneWriter, SnapshotsLatest, PhasesInStep, PoolInStep,
                Writer, Locked, WellFormed, Before, Idle
<1>10. QED
  BY <1>1, <1>2, <1>3, <1>4, <1>5, <1>6, <1>7, <1>8, <1>9 DEF Next

-----------------------------------------------------------------------------
(* What follows *)

\* The invariant of work, transactions, phases and pool holds in every reachable state.
THEOREM Invariance == Spec => []IInv
<1>1. QED
  BY InitInv, NextInv, PTL DEF Spec

\* Work, transactions, tables and phase stay within their types.
THEOREM TypeCorrect == Spec => []TypeOK
<1>1. IInv => TypeOK
  BY DEF IInv
<1>2. QED
  BY <1>1, Invariance, PTL

\* However many requests, polls, jobs, aborts, crashes and starts there are, a transaction of the
\* unit of work or of a migration takes effect whole or not at all, from the latest rows
\* (sqlite/unit_of_work.go WithinTransaction, sqlite/migrate.go applyMigrationFile).
THEOREM Refinement == Spec => ImplementsSerialStore
<1>1. Init => Store!Init
  BY DEF Init, Store!Init, Counted
<1>2. ASSUME IInv, [Next]_vars PROVE [Store!Next]_table
  <2>1. ASSUME NEW p \in Processes, Proceed(p) PROVE [Store!Next]_table
    BY <1>2, <2>1, CommitTable
    DEF Proceed, Query, WriteStatement, Outside, Begin, Read, Write, Store!Next
  <2>2. ASSUME NEW p \in Processes, Heard(p) \/ Fail(p) \/ GiveUp(p) \/ CancelWork(p)
        PROVE  table' = table
    BY <2>2 DEF Heard, Send, ReadBody, Fail, GiveUp, Busy, CancelWork, Abort
  <2>3. CASE (\E c \in Clients : Receive(c)) \/ Poll \/ RunJob
    BY <2>3 DEF Receive, Poll, RunJob, InBackground, Begins
  <2>4. CASE \/ Start \/ ListenAndServe \/ StartFails \/ ListenFails
             \/ Signal \/ Deadline \/ Shutdown \/ Exit \/ Crash
    BY <2>4 DEF Start, ListenAndServe, StartFails, ListenFails, Signal, Deadline, Shutdown, Exit,
                Crash, Gone
  <2>5. CASE UNCHANGED vars
    BY <2>5 DEF vars
  <2>6. QED
    BY <1>2, <2>1, <2>2, <2>3, <2>4, <2>5 DEF Next
<1>3. QED
  BY <1>1, <1>2, Invariance, PTL DEF Spec, ImplementsSerialStore, Store!Spec

\* Told to stop, the process ends only when every request is answered and the relay is at rest,
\* or the deadline has passed (main.go gracefulShutdown, waitForRelay).
THEOREM Stopping == Spec => StopsInOrder
<1>1. ASSUME IInv, [Next]_vars
      PROVE  [phase = "stopping" /\ phase' = "exited"
                 => late \/ \A p \in Clients \cup {Relay} : Idle(p)]_vars
  <2> SUFFICES ASSUME phase = "stopping", phase' = "exited", ~late
               PROVE  \A p \in Clients \cup {Relay} : Idle(p)
    OBVIOUS
  <2>1. \A c \in Clients : Idle(c)
    BY <1>1 DEF IInv, PhasesInStep
  <2>2. Exit
    BY <1>1 DEF Next, Proceed, Heard, Fail, GiveUp, CancelWork, Receive, Poll, RunJob, InBackground,
                Begins, Start, ListenAndServe, StartFails, ListenFails, Signal, Deadline, Shutdown,
                Crash, Gone, vars
  <2>3. QED
    BY <2>1, <2>2 DEF Exit, WaitForRelay
<1>2. QED
  BY <1>1, Invariance, PTL DEF Spec, StopsInOrder

\* The pool never hands out more connections than it has, and with fewer administrators than
\* connections they are never all held by transactions that wait for another one
\* (report/service.go GetReports asks for a second one; main.go sets the size of the pool).
THEOREM PoolLives ==
    ASSUME Cardinality(Admins) < MaxConns
    PROVE  Spec => [](/\ Cardinality({p \in Processes : tx[p].open}) <= MaxConns
                      /\ PoolNeverStuck)
<1>1. ASSUME IInv PROVE PoolNeverStuck
  <2> DEFINE W == {p \in Processes : At(p, "outside")}
  <2>1. W \subseteq Admins
    <3> SUFFICES ASSUME NEW p \in W, p \notin Admins PROVE FALSE
      OBVIOUS
    <3>1. todo[p] \in Seq(Steps) /\ todo[p] # <<>> /\ Head(todo[p]) = "outside"
      BY <1>1 DEF IInv, TypeOK, At
    <3>2. 1 \in 1..Len(todo[p]) /\ todo[p][1] = "outside"
      BY <3>1
    <3>3. QED
      BY <1>1, <3>2 DEF IInv, PoolInStep
  <2>2. IsFiniteSet(Admins)
    BY ServerAssumption, FS_Subset
  <2>3. Cardinality(W) <= Cardinality(Admins) /\ Cardinality(W) \in Nat /\ Cardinality(Admins) \in Nat
    BY <2>1, <2>2, FS_Subset, FS_CardinalityType
  <2>4. QED
    BY <2>3, ServerAssumption DEF PoolNeverStuck
<1>2. IInv => Cardinality({p \in Processes : tx[p].open}) <= MaxConns /\ PoolNeverStuck
  BY <1>1 DEF IInv, PoolInStep
<1>3. QED
  BY <1>2, Invariance, PTL
=============================================================================
