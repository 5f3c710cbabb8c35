------------------------- MODULE ProjectionsProofs -------------------------
(***************************************************************************)
(* For every number of posts, comments, events, workers and failures: once *)
(* all is handled the index, the ranking and the inbox say what the rows   *)
(* say, but for the exceptions the properties name.                        *)
(***************************************************************************)
EXTENDS Projections, FiniteSetTheorems, TLAPS

-----------------------------------------------------------------------------
(* The log *)

\* Announcing appends: what was said stays, what is new is pending and comes after it.
LEMMA Announced ==
    ASSUME TypeOK, NEW events \in Seq(Event), Announce(events)
    PROVE  /\ log' \in Seq(Event) /\ Len(log') <= MaxEvents
           /\ Len(log) \in Nat /\ Len(events) \in Nat
           /\ DOMAIN log = 1..Len(log) /\ DOMAIN events = 1..Len(events)
           /\ DOMAIN log' = 1..(Len(log) + Len(events))
           /\ \A e \in DOMAIN log : log'[e] = log[e]
           /\ \A i \in DOMAIN events : log'[Len(log) + i] = events[i]
           /\ pending' = pending \cup {Len(log) + i : i \in DOMAIN events}
           /\ UNCHANGED <<worker, index, rank, commentStates, reactionStates, inbox, faults, disordered>>
  BY DEF TypeOK, Announce, ranking

\* With one event.
LEMMA AnnouncedOne ==
    ASSUME TypeOK, NEW v \in Event, Announce(<<v>>), NEW n, n = Len(log) + 1
    PROVE  /\ log' \in Seq(Event) /\ Len(log') <= MaxEvents
           /\ n \in Nat /\ DOMAIN log' = DOMAIN log \cup {n} /\ log'[n] = v
           /\ \A e \in DOMAIN log : e \in Nat /\ e < n /\ log'[e] = log[e]
           /\ pending' = pending \cup {n}
           /\ UNCHANGED <<worker, index, rank, commentStates, reactionStates, inbox, faults, disordered>>
<1>1. <<v>> \in Seq(Event) /\ Len(<<v>>) = 1 /\ <<v>>[1] = v
  OBVIOUS
<1>2. DOMAIN <<v>> = {1}
  OBVIOUS
<1> DEFINE events == <<v>>
<1>3. /\ events \in Seq(Event) /\ Len(events) = 1 /\ events[1] = v /\ DOMAIN events = {1} /\ Announce(events)
  BY <1>1, <1>2
<1> HIDE DEF events
<1>4. {Len(log) + i : i \in DOMAIN events} = {n}
  BY <1>3
<1>5. /\ Len(log) \in Nat /\ DOMAIN log = 1..Len(log) /\ DOMAIN log' = 1..(Len(log) + 1)
      /\ log' \in Seq(Event) /\ Len(log') <= MaxEvents
      /\ \A e \in DOMAIN log : log'[e] = log[e]
      /\ log'[Len(log) + 1] = v
      /\ pending' = pending \cup {n}
      /\ UNCHANGED <<worker, index, rank, commentStates, reactionStates, inbox, faults, disordered>>
  BY <1>3, <1>4, Announced
<1>6. QED
  BY <1>5

\* With two.
LEMMA AnnouncedTwo ==
    ASSUME TypeOK, NEW u \in Event, NEW v \in Event, Announce(<<u, v>>)
    PROVE  LET m == Len(log) + 1
               n == Len(log) + 2
           IN
           /\ log' \in Seq(Event) /\ Len(log') <= MaxEvents
           /\ m \in Nat /\ n \in Nat /\ m < n
           /\ DOMAIN log' = DOMAIN log \cup {m, n} /\ log'[m] = u /\ log'[n] = v
           /\ \A e \in DOMAIN log : e \in Nat /\ e < m /\ log'[e] = log[e]
           /\ pending' = pending \cup {m, n}
           /\ UNCHANGED <<worker, index, rank, commentStates, reactionStates, inbox, faults, disordered>>
<1>1. <<u, v>> \in Seq(Event) /\ Len(<<u, v>>) = 2 /\ <<u, v>>[1] = u /\ <<u, v>>[2] = v
  OBVIOUS
<1>2. DOMAIN <<u, v>> = {1, 2}
  OBVIOUS
<1> DEFINE events == <<u, v>>
<1>3. /\ events \in Seq(Event) /\ Len(events) = 2 /\ events[1] = u /\ events[2] = v
      /\ DOMAIN events = {1, 2} /\ Announce(events)
  BY <1>1, <1>2
<1> HIDE DEF events
<1>4. {Len(log) + i : i \in DOMAIN events} = {Len(log) + 1, Len(log) + 2}
  BY <1>3
<1>5. /\ Len(log) \in Nat /\ DOMAIN log = 1..Len(log) /\ DOMAIN log' = 1..(Len(log) + 2)
      /\ log' \in Seq(Event) /\ Len(log') <= MaxEvents
      /\ \A e \in DOMAIN log : log'[e] = log[e]
      /\ log'[Len(log) + 1] = u /\ log'[Len(log) + 2] = v
      /\ pending' = pending \cup {Len(log) + 1, Len(log) + 2}
      /\ UNCHANGED <<worker, index, rank, commentStates, reactionStates, inbox, faults, disordered>>
  BY <1>3, <1>4, Announced
<1>6. QED
  BY <1>5

-----------------------------------------------------------------------------
(* The commands, by what they write and say *)

PostCommand(p) == CreatePost(p) \/ UpdatePost(p) \/ PublishPost(p) \/ DeletePost(p)

\* An event has the fields its subject gives it.
LEMMA EventOf ==
    ASSUME NEW about \in Subjects, NEW p \in Posts, NEW op \in {"changed", "created", "deleted", "set", "unset", "notify"},
           post' \in [Posts -> Post]
    PROVE  /\ NewEvent(about, p, op) \in Event
           /\ NewEvent(about, p, op).about = about /\ NewEvent(about, p, op).post = p
           /\ NewEvent(about, p, op).op = op /\ NewEvent(about, p, op).date = post'[p].date
<1>1. post'[p].date \in 0..MaxChanges
  BY DEF Post
<1>2. QED
  BY <1>1 DEF NewEvent, Event, Reaction

\* A command on a post writes its row, but for what a deletion takes with it, and says so.
LEMMA PostWritten ==
    ASSUME TypeOK, NEW p \in Posts, PostCommand(p), NEW n, n = Len(log) + 1
    PROVE  /\ post' \in [Posts -> Post] /\ \A q \in Posts \ {p} : post'[q] = post[q]
           /\ post[p].status # "deleted" /\ post'[p].status \in {"draft", "published", "deleted"}
           /\ post'[p].status = "draft" => post[p].status = "draft" /\ post'[p].date = post[p].date
           /\ post'[p].status = "published" =>
                \/ post[p].status = "published" /\ post'[p].date = post[p].date
                \/ post'[p].date > 0
           /\ post[p].status = "published" => post'[p].status \in {"published", "deleted"}
           /\ log' \in Seq(Event) /\ Len(log') <= MaxEvents
           /\ n \in Nat /\ DOMAIN log' = DOMAIN log \cup {n}
           /\ \A e \in DOMAIN log : e \in Nat /\ e < n /\ log'[e] = log[e]
           /\ log'[n].about = <<"post", p>> /\ log'[n].post = p /\ log'[n].date = post'[p].date
           /\ log'[n].op = IF post'[p].status = "deleted" THEN "deleted" ELSE "changed"
           /\ pending' = pending \cup {n}
           /\ UNCHANGED <<worker, index, rank, commentStates, reactionStates, inbox, faults, disordered>>
<1>1. /\ post' \in [Posts -> Post] /\ \A q \in Posts \ {p} : post'[q] = post[q]
      /\ post[p].status # "deleted" /\ post'[p].status \in {"draft", "published", "deleted"}
      /\ post'[p].status = "draft" => post[p].status = "draft" /\ post'[p].date = post[p].date
      /\ post'[p].status = "published" =>
           \/ post[p].status = "published" /\ post'[p].date = post[p].date
           \/ post'[p].date > 0
      /\ post[p].status = "published" => post'[p].status \in {"published", "deleted"}
      /\ Announce(<<NewEvent(<<"post", p>>, p, IF post'[p].status = "deleted" THEN "deleted" ELSE "changed")>>)
  <2>0. post[p] \in Post
    BY DEF TypeOK
  <2>1. CASE CreatePost(p)
    BY <2>0, <2>1, ProjectionsAssumption DEF TypeOK, CreatePost, PostChanged, Post
  <2>2. CASE UpdatePost(p)
    <3>1. /\ post' = [post EXCEPT ![p] = [post[p] EXCEPT !.text = post[p].text + 1]]
          /\ post[p].status \in {"draft", "published"} /\ post[p].text < MaxChanges
          /\ Announce(<<NewEvent(<<"post", p>>, p, "changed")>>)
      BY <2>2 DEF UpdatePost, PostChanged
    <3>2. /\ [post[p] EXCEPT !.text = post[p].text + 1] \in Post
          /\ [post[p] EXCEPT !.text = post[p].text + 1].status = post[p].status
          /\ [post[p] EXCEPT !.text = post[p].text + 1].date = post[p].date
      BY <2>0, <3>1, ProjectionsAssumption DEF Post
    <3>3. QED
      BY <3>1, <3>2 DEF TypeOK
  <2>3. CASE PublishPost(p)
    <3> DEFINE new == [status |-> "published", text |-> post[p].text, date |-> post[p].date + 1]
    <3>1. /\ post' = [post EXCEPT ![p] = new]
          /\ post[p].status \in {"draft", "published"} /\ post[p].date < MaxChanges
          /\ Announce(<<NewEvent(<<"post", p>>, p, "changed")>>)
      BY <2>3 DEF PublishPost, PostChanged
    <3>0. post[p].text \in 0..MaxChanges /\ post[p].date + 1 \in 0..MaxChanges /\ post[p].date + 1 > 0
      BY <2>0, <3>1, ProjectionsAssumption DEF Post
    <3>4. new \in Post /\ new.status = "published" /\ new.date > 0
      BY <3>0 DEF Post
    <3> HIDE DEF new
    <3>3. QED
      BY <3>1, <3>4 DEF TypeOK
  <2>4. CASE DeletePost(p)
    BY <2>0, <2>4, ProjectionsAssumption DEF TypeOK, DeletePost, PostChanged, Post
  <2>5. QED
    BY <2>1, <2>2, <2>3, <2>4 DEF PostCommand
<1>2. <<"post", p>> \in Subjects
  BY DEF Subjects
<1>3. PICK op \in {"changed", "deleted"} :
        /\ op = IF post'[p].status = "deleted" THEN "deleted" ELSE "changed"
        /\ Announce(<<NewEvent(<<"post", p>>, p, op)>>)
  BY <1>1
<1>4. PICK v \in Event :
        /\ v.about = <<"post", p>> /\ v.post = p /\ v.date = post'[p].date /\ v.op = op
        /\ Announce(<<v>>)
  <2>1. op \in {"changed", "created", "deleted", "set", "unset", "notify"}
    OBVIOUS
  <2> DEFINE v == NewEvent(<<"post", p>>, p, op)
  <2>2. v \in Event /\ v.about = <<"post", p>> /\ v.post = p /\ v.date = post'[p].date /\ v.op = op
    BY <1>1, <1>2, <2>1, EventOf
  <2>3. Announce(<<v>>)
    BY <1>3
  <2> HIDE DEF v
  <2>4. QED
    BY <2>2, <2>3
<1>5. /\ log' \in Seq(Event) /\ Len(log') <= MaxEvents
      /\ n \in Nat /\ DOMAIN log' = DOMAIN log \cup {n} /\ log'[n] = v
      /\ \A e \in DOMAIN log : e \in Nat /\ e < n /\ log'[e] = log[e]
      /\ pending' = pending \cup {n}
      /\ UNCHANGED <<worker, index, rank, commentStates, reactionStates, inbox, faults, disordered>>
  BY <1>4, AnnouncedOne
<1>6. QED
  BY <1>1, <1>3, <1>4, <1>5

\* What becomes of comments and reactions: with a post that is deleted they go.
LEMMA PostAlone ==
    ASSUME TypeOK, NEW p \in Posts, PostCommand(p)
    PROVE  /\ comment' \in [Comments -> [status : {"none", "active", "deleted"}, post : Posts \cup {NoPost}]]
           /\ reaction' \in [Posts -> Reaction]
           /\ \A c \in Comments : /\ comment'[c].post = comment[c].post
                                  /\ comment'[c].status = "none" <=> comment[c].status = "none"
                                  /\ \/ comment'[c] = comment[c]
                                     \/ comment[c].post = p /\ post'[p].status = "deleted"
           /\ \A q \in Posts \ {p} : reaction'[q] = reaction[q]
           /\ post'[p].status # "deleted" => reaction'[p] = reaction[p]
           /\ overlapped \subseteq overlapped' /\ overlapped' \subseteq overlapped \cup {p}
           /\ p \notin overlapped' => \A w \in Workers : ~(At(w, "loaded") /\ Handled(w).post = p)
<1>0. post[p] \in Post /\ \A c \in Comments : comment[c] \in [status : {"none", "active", "deleted"}, post : Posts \cup {NoPost}]
  BY DEF TypeOK
<1>1. CASE CreatePost(p)
  BY <1>0, <1>1 DEF TypeOK, CreatePost, PostChanged, At, Handled
<1>2. CASE UpdatePost(p)
  BY <1>0, <1>2 DEF TypeOK, UpdatePost, PostChanged, At, Handled
<1>3. CASE PublishPost(p)
  BY <1>0, <1>3 DEF TypeOK, PublishPost, PostChanged, At, Handled
<1>4. CASE DeletePost(p)
  <2>1. /\ overlapped \subseteq overlapped' /\ overlapped' \subseteq overlapped \cup {p}
        /\ p \notin overlapped' => \A w \in Workers : ~(At(w, "loaded") /\ Handled(w).post = p)
    BY <1>4 DEF DeletePost, PostChanged, At, Handled
  <2>2. /\ reaction' \in [Posts -> Reaction] /\ \A q \in Posts \ {p} : reaction'[q] = reaction[q]
        /\ post'[p].status = "deleted"
    BY <1>0, <1>4 DEF TypeOK, DeletePost, PostChanged, Reaction, Post
  <2>3. ASSUME NEW c \in Comments
        PROVE  /\ comment'[c] \in [status : {"none", "active", "deleted"}, post : Posts \cup {NoPost}]
               /\ comment'[c].post = comment[c].post
               /\ comment'[c].status = "none" <=> comment[c].status = "none"
               /\ comment'[c] = comment[c] \/ comment[c].post = p
    BY <1>0, <1>4 DEF DeletePost, Active
  <2>4. comment' \in [Comments -> [status : {"none", "active", "deleted"}, post : Posts \cup {NoPost}]]
    BY <1>4, <2>3 DEF DeletePost
  <2>5. QED
    BY <2>1, <2>2, <2>3, <2>4
<1>5. QED
  BY <1>1, <1>2, <1>3, <1>4 DEF PostCommand

\* A comment is written, told of to the author of the post, and counted.
LEMMA CommentWritten ==
    ASSUME TypeOK, NEW c \in Comments, NEW p \in Posts, CreateComment(c, p)
    PROVE  LET m == Len(log) + 1
               n == Len(log) + 2
           IN
           /\ comment' = [comment EXCEPT ![c] = [status |-> "active", post |-> p]]
           /\ comment[c].status = "none" /\ Published(p)
           /\ log' \in Seq(Event) /\ Len(log') <= MaxEvents
           /\ m \in Nat /\ n \in Nat /\ m < n /\ DOMAIN log' = DOMAIN log \cup {m, n}
           /\ \A e \in DOMAIN log : e \in Nat /\ e < m /\ log'[e] = log[e]
           /\ log'[m].about = <<"comment", c>> /\ log'[m].post = p /\ log'[m].op = "notify"
           /\ log'[n].about = <<"comment", c>> /\ log'[n].post = p /\ log'[n].op = "created"
           /\ pending' = pending \cup {m, n}
           /\ UNCHANGED <<post, reaction, worker, index, rank, commentStates, reactionStates, inbox,
                          faults, overlapped, disordered>>
<1>1. /\ comment' = [comment EXCEPT ![c] = [status |-> "active", post |-> p]]
      /\ comment[c].status = "none" /\ Published(p)
      /\ UNCHANGED <<post, reaction, overlapped>>
      /\ Announce(<<NewEvent(<<"comment", c>>, p, "notify"), NewEvent(<<"comment", c>>, p, "created")>>)
  BY DEF CreateComment
<1>2. <<"comment", c>> \in Subjects /\ post' \in [Posts -> Post]
  BY <1>1 DEF Subjects, TypeOK
<1> DEFINE u == NewEvent(<<"comment", c>>, p, "notify")
           v == NewEvent(<<"comment", c>>, p, "created")
           m == Len(log) + 1
           n == Len(log) + 2
<1>3. u \in Event /\ u.about = <<"comment", c>> /\ u.post = p /\ u.op = "notify"
  BY <1>2, EventOf
<1>4. v \in Event /\ v.about = <<"comment", c>> /\ v.post = p /\ v.op = "created"
  BY <1>2, EventOf
<1>5. Announce(<<u, v>>)
  BY <1>1
<1> HIDE DEF u, v
<1>6. /\ log' \in Seq(Event) /\ Len(log') <= MaxEvents
      /\ m \in Nat /\ n \in Nat /\ m < n
      /\ DOMAIN log' = DOMAIN log \cup {m, n} /\ log'[m] = u /\ log'[n] = v
      /\ \A e \in DOMAIN log : e \in Nat /\ e < m /\ log'[e] = log[e]
      /\ pending' = pending \cup {m, n}
      /\ UNCHANGED <<worker, index, rank, commentStates, reactionStates, inbox, faults, disordered>>
  BY <1>3, <1>4, <1>5, AnnouncedTwo
<1>7. QED
  BY <1>1, <1>3, <1>4, <1>6

\* A comment is deleted, of a post that is there, and no longer counted.
LEMMA CommentDeleted ==
    ASSUME TypeOK, NEW c \in Comments, DeleteComment(c), NEW n, n = Len(log) + 1
    PROVE  /\ comment' = [comment EXCEPT ![c] = [status |-> "deleted", post |-> comment[c].post]]
           /\ Active(c) /\ comment[c].post \in Posts \cup {NoPost} /\ Published(comment[c].post)
           /\ comment[c].post \in Posts =>
                /\ log' \in Seq(Event) /\ Len(log') <= MaxEvents
                /\ n \in Nat /\ DOMAIN log' = DOMAIN log \cup {n}
                /\ \A e \in DOMAIN log : e \in Nat /\ e < n /\ log'[e] = log[e]
                /\ log'[n].about = <<"comment", c>> /\ log'[n].post = comment[c].post
                /\ log'[n].op = "deleted"
                /\ pending' = pending \cup {n}
           /\ UNCHANGED <<post, reaction, worker, index, rank, commentStates, reactionStates, inbox,
                          faults, overlapped, disordered>>
<1>1. comment[c] \in [status : {"none", "active", "deleted"}, post : Posts \cup {NoPost}]
  BY DEF TypeOK
<1>2. comment' = [comment EXCEPT ![c] = [status |-> "deleted", post |-> comment[c].post]]
  <2>1. comment' = [comment EXCEPT ![c] = [comment[c] EXCEPT !.status = "deleted"]]
    BY DEF DeleteComment
  <2>2. [comment[c] EXCEPT !.status = "deleted"] = [status |-> "deleted", post |-> comment[c].post]
    BY <1>1
  <2>3. QED
    BY <2>1, <2>2
<1>3. /\ Active(c) /\ Published(comment[c].post)
      /\ UNCHANGED <<post, reaction, overlapped>>
      /\ UNCHANGED <<worker, index, rank, commentStates, reactionStates, inbox, faults, disordered>>
      /\ Announce(<<NewEvent(<<"comment", c>>, comment[c].post, "deleted")>>)
  BY DEF DeleteComment, Announce, ranking
<1>4. <<"comment", c>> \in Subjects /\ post' \in [Posts -> Post]
  BY <1>3 DEF Subjects, TypeOK
<1> DEFINE v == NewEvent(<<"comment", c>>, comment[c].post, "deleted")
<1>5. comment[c].post \in Posts =>
         v \in Event /\ v.about = <<"comment", c>> /\ v.post = comment[c].post /\ v.op = "deleted"
  BY <1>4, EventOf
<1>6. Announce(<<v>>)
  BY <1>3
<1> HIDE DEF v
<1>7. ASSUME comment[c].post \in Posts
      PROVE  /\ log' \in Seq(Event) /\ Len(log') <= MaxEvents
             /\ n \in Nat /\ DOMAIN log' = DOMAIN log \cup {n} /\ log'[n] = v
             /\ \A e \in DOMAIN log : e \in Nat /\ e < n /\ log'[e] = log[e]
             /\ pending' = pending \cup {n}
  BY <1>5, <1>6, <1>7, AnnouncedOne
<1>8. QED
  BY <1>1, <1>2, <1>3, <1>5, <1>7

\* A reaction is set, changed or taken back, and the event names it.
LEMMA ReactionWritten ==
    ASSUME TypeOK, NEW p \in Posts, NEW t \in Reaction, React(p, t), NEW n, n = Len(log) + 1
    PROVE  /\ reaction' = [reaction EXCEPT ![p] = t] /\ Published(p)
           /\ log' \in Seq(Event) /\ Len(log') <= MaxEvents
           /\ n \in Nat /\ DOMAIN log' = DOMAIN log \cup {n}
           /\ \A e \in DOMAIN log : e \in Nat /\ e < n /\ log'[e] = log[e]
           /\ log'[n].about = <<"reaction", p>> /\ log'[n].post = p
           /\ log'[n].op = IF t = "none" THEN "unset" ELSE "set"
           /\ t # "none" => log'[n].type = t
           /\ pending' = pending \cup {n}
           /\ UNCHANGED <<post, comment, worker, index, rank, commentStates, reactionStates, inbox,
                          faults, overlapped, disordered>>
<1> DEFINE op == IF t = "none" THEN "unset" ELSE "set"
           old == IF t = "none" THEN reaction[p] ELSE t
           bare == NewEvent(<<"reaction", p>>, p, op)
           v == [bare EXCEPT !.type = old]
<1>1. /\ reaction' = [reaction EXCEPT ![p] = t] /\ Published(p)
      /\ UNCHANGED <<post, comment, overlapped>>
      /\ Announce(<<v>>)
  BY DEF React
<1>2. /\ <<"reaction", p>> \in Subjects /\ post' \in [Posts -> Post] /\ old \in Reaction
      /\ op \in {"changed", "created", "deleted", "set", "unset", "notify"}
  BY <1>1 DEF Subjects, TypeOK
<1>3. /\ bare \in Event /\ bare.about = <<"reaction", p>> /\ bare.post = p /\ bare.op = op
  BY <1>2, EventOf
<1> HIDE DEF bare
<1>4. v \in Event /\ v.about = <<"reaction", p>> /\ v.post = p /\ v.op = op /\ v.type = old
  BY <1>2, <1>3 DEF Event
<1> HIDE DEF v
<1>5. /\ log' \in Seq(Event) /\ Len(log') <= MaxEvents
      /\ n \in Nat /\ DOMAIN log' = DOMAIN log \cup {n} /\ log'[n] = v
      /\ \A e \in DOMAIN log : e \in Nat /\ e < n /\ log'[e] = log[e]
      /\ pending' = pending \cup {n}
      /\ UNCHANGED <<worker, index, rank, commentStates, reactionStates, inbox, faults, disordered>>
  BY <1>1, <1>4, AnnouncedOne
<1>6. QED
  BY <1>1, <1>4, <1>5

-----------------------------------------------------------------------------
(* What a handler does *)

\* An event is marked, or stays for another attempt.
LEMMA Marked ==
    ASSUME TypeOK, NEW e, Mark(e)
    PROVE  /\ pending' \subseteq pending /\ pending \ {e} \subseteq pending'
           /\ faults' \in 0..MaxFaults
  BY ProjectionsAssumption DEF TypeOK, Mark

\* What a worker holds, and what becomes of it.
LEMMA Held ==
    ASSUME TypeOK, NEW w \in Workers
    PROVE  worker[w].event \in Ids \cup {0} /\ worker[w].read \in 0..MaxChanges
           /\ worker[w].at \in {"idle", "loaded", "indexed", "missing"}
  BY DEF TypeOK

\* An event that is pending is of its post, and of the subjects there are.
LEMMA EventTyped ==
    ASSUME TypeOK, NEW e \in DOMAIN log
    PROVE  /\ log[e] \in Event /\ e \in Ids /\ e \in Nat
           /\ log[e].about \in Subjects /\ log[e].post \in Posts /\ log[e].date \in 0..MaxChanges
           /\ log[e].type \in Reaction
           /\ log[e].about[1] \in {"post", "comment", "reaction"}
           /\ log[e].about[1] = "comment" => log[e].about[2] \in Comments /\ log[e].about = <<"comment", log[e].about[2]>>
           /\ log[e].about[1] # "comment" => log[e].about[2] \in Posts
<1>1. log[e] \in Event /\ e \in 1..Len(log) /\ Len(log) \in Nat /\ Len(log) <= MaxEvents
  BY DEF TypeOK
<1>2. log[e].about \in Subjects /\ log[e].post \in Posts /\ log[e].date \in 0..MaxChanges /\ log[e].type \in Reaction
  BY <1>1 DEF Event
<1>3. e \in Ids /\ e \in Nat
  BY <1>1, ProjectionsAssumption DEF Ids
<1>4. /\ log[e].about[1] \in {"post", "comment", "reaction"}
      /\ log[e].about[1] = "comment" => log[e].about[2] \in Comments /\ log[e].about = <<"comment", log[e].about[2]>>
      /\ log[e].about[1] # "comment" => log[e].about[2] \in Posts
  BY <1>2 DEF Subjects
<1>5. QED
  BY <1>1, <1>2, <1>3, <1>4

\* What a post is indexed by is a text of it, or nothing.
LEMMA LoadTyped ==
    ASSUME TypeOK, NEW p \in Posts
    PROVE  loadSearchDocumentByPostID(p) \in 0..MaxChanges
  BY ProjectionsAssumption DEF TypeOK, Post, loadSearchDocumentByPostID, Published, NoText

\* What an event of a post does to the ranking.
LEMMA PostRanked ==
    ASSUME TypeOK, NEW e \in DOMAIN log, RankPost(log[e]), NEW p, p = log[e].post
    PROVE  /\ rank' \in [Posts -> Snapshot] /\ \A q \in Posts \ {p} : rank'[q] = rank[q]
           /\ log[e].op = "deleted" => rank'[p] = Unknown
           /\ log[e].op # "deleted" =>
                /\ rank'[p].known /\ rank'[p].date = IF log[e].date = 0 THEN rank[p].date ELSE log[e].date
                /\ rank'[p].comments = rank[p].comments /\ rank'[p].reactions = rank[p].reactions
           /\ UNCHANGED <<commentStates, reactionStates>>
<1>1. p \in Posts /\ log[e].date \in 0..MaxChanges /\ rank[p] \in Snapshot
  BY EventTyped DEF TypeOK
<1> DEFINE date == IF log[e].date = 0 THEN rank[p].date ELSE log[e].date
           r == [known |-> TRUE, date |-> date, comments |-> rank[p].comments, reactions |-> rank[p].reactions]
<1>2. date \in 0..MaxChanges
  BY <1>1 DEF Snapshot
<1>9. UpsertPostSnapshot(p, log[e].date) = [rank[p] EXCEPT !.known = TRUE, !.date = date]
  BY DEF UpsertPostSnapshot
<1> HIDE DEF date
<1>3. r \in Snapshot /\ r.known /\ r.date = date /\ r.comments = rank[p].comments /\ r.reactions = rank[p].reactions
  BY <1>1, <1>2 DEF Snapshot
<1>4. UpsertPostSnapshot(p, log[e].date) = r
  BY <1>1, <1>9 DEF Snapshot
<1>5. Unknown \in Snapshot
  BY ProjectionsAssumption DEF Unknown, Snapshot
<1> HIDE DEF r
<1>6. CASE log[e].op = "deleted"
  <2>1. rank' = [rank EXCEPT ![p] = Unknown] /\ UNCHANGED <<commentStates, reactionStates>>
    BY <1>6 DEF RankPost
  <2>2. QED
    BY <1>1, <1>5, <1>6, <2>1 DEF TypeOK
<1>7. CASE log[e].op # "deleted"
  <2>1. rank' = [rank EXCEPT ![p] = r] /\ UNCHANGED <<commentStates, reactionStates>>
    BY <1>4, <1>7 DEF RankPost
  <2>2. QED
    BY <1>1, <1>3, <1>7, <2>1 DEF TypeOK, date
<1>8. QED
  BY <1>6, <1>7

\* The score an event of a comment gives it, and the reaction one of a reaction leaves.
Score(e) == IF log[e].op = "created" THEN CommentScore ELSE 0
Left(e)  == IF log[e].op = "set" THEN log[e].type ELSE "none"

\* What a reaction weighs is a number.
LEMMA WeightTyped == \A t \in Reaction : Weight(t) \in Int
  BY DEF Reaction, Weight

\* What an event of a comment or a reaction does to it: it replaces what was counted.
LEMMA ActivityRanked ==
    ASSUME TypeOK, NEW e \in DOMAIN log, RankActivity(log[e]), NEW p, p = log[e].post
    PROVE  \/ ~rank[p].known /\ UNCHANGED <<rank, commentStates, reactionStates>>
           \/ /\ rank[p].known
              /\ rank' \in [Posts -> Snapshot] /\ \A q \in Posts \ {p} : rank'[q] = rank[q]
              /\ rank'[p].known /\ rank'[p].date = rank[p].date
              /\ \/ /\ log[e].about[1] = "comment"
                    /\ commentStates' = [commentStates EXCEPT ![log[e].about[2]] = Score(e)]
                    /\ rank'[p].comments = rank[p].comments + Score(e) - commentStates[log[e].about[2]]
                    /\ rank'[p].reactions = rank[p].reactions
                    /\ UNCHANGED reactionStates
                 \/ /\ log[e].op \in {"set", "unset"}
                    /\ reactionStates' = [reactionStates EXCEPT ![p] = Left(e)]
                    /\ rank'[p].reactions = rank[p].reactions + Weight(Left(e)) - Weight(reactionStates[p])
                    /\ rank'[p].comments = rank[p].comments
                    /\ UNCHANGED commentStates
<1>1. /\ p \in Posts /\ rank[p] \in Snapshot /\ log[e].type \in Reaction
      /\ log[e].about[1] = "comment" => log[e].about[2] \in Comments
  BY EventTyped DEF TypeOK
<1>2. /\ reactionStates[p] \in Reaction /\ Left(e) \in Reaction
      /\ \A c \in Comments : commentStates[c] \in {0, CommentScore}
  BY <1>1 DEF TypeOK, Left, Reaction
<1>3. Weight(reactionStates[p]) \in Int /\ Weight(Left(e)) \in Int
  BY <1>2, WeightTyped
<1>4. CASE ~rank[p].known
  BY <1>4 DEF RankActivity, ranking
<1>5. ASSUME rank[p].known, NEW c \in Comments, c = log[e].about[2], log[e].about[1] = "comment",
             NEW delta \in {CommentScore, -CommentScore},
             delta = IF log[e].op = "created" THEN CommentScore ELSE -CommentScore,
             ApplyCommentDelta(p, c, delta)
      PROVE  /\ rank' \in [Posts -> Snapshot] /\ \A q \in Posts \ {p} : rank'[q] = rank[q]
             /\ rank'[p].known /\ rank'[p].date = rank[p].date
             /\ commentStates' = [commentStates EXCEPT ![c] = Score(e)]
             /\ rank'[p].comments = rank[p].comments + Score(e) - commentStates[c]
             /\ rank'[p].reactions = rank[p].reactions
             /\ UNCHANGED reactionStates
  <2> DEFINE sum == rank[p].comments + Score(e) - commentStates[c]
             r == [known |-> rank[p].known, date |-> rank[p].date, comments |-> sum, reactions |-> rank[p].reactions]
  <2>1. sum \in Int
    BY <1>1, <1>2 DEF Snapshot, Score, CommentScore
  <2>2. (IF delta > 0 THEN delta ELSE 0) = Score(e)
    BY <1>5 DEF Score, CommentScore
  <2>3. /\ rank' = [rank EXCEPT ![p] = [rank[p] EXCEPT !.comments = sum]]
        /\ commentStates' = [commentStates EXCEPT ![c] = Score(e)] /\ UNCHANGED reactionStates
    <3>1. rank[p].comments = rank[p].comments
      OBVIOUS
    <3>2. QED
      BY <1>5, <2>2 DEF ApplyCommentDelta
  <2> HIDE DEF sum
  <2>4. [rank[p] EXCEPT !.comments = sum] = r
    BY <1>1 DEF Snapshot
  <2>5. r \in Snapshot /\ r.known = rank[p].known /\ r.date = rank[p].date /\ r.comments = sum /\ r.reactions = rank[p].reactions
    BY <1>1, <2>1 DEF Snapshot
  <2> HIDE DEF r
  <2>6. QED
    BY <1>1, <1>5, <2>3, <2>4, <2>5 DEF TypeOK, sum
<1>6. ASSUME rank[p].known, log[e].op \in {"set", "unset"}, ApplyReactionDelta(p, Left(e))
      PROVE  /\ rank' \in [Posts -> Snapshot] /\ \A q \in Posts \ {p} : rank'[q] = rank[q]
             /\ rank'[p].known /\ rank'[p].date = rank[p].date
             /\ reactionStates' = [reactionStates EXCEPT ![p] = Left(e)]
             /\ rank'[p].reactions = rank[p].reactions + Weight(Left(e)) - Weight(reactionStates[p])
             /\ rank'[p].comments = rank[p].comments
             /\ UNCHANGED commentStates
  <2> DEFINE sum == rank[p].reactions + Weight(Left(e)) - Weight(reactionStates[p])
             r == [known |-> rank[p].known, date |-> rank[p].date, comments |-> rank[p].comments, reactions |-> sum]
  <2>1. sum \in Int
    BY <1>1, <1>3 DEF Snapshot
  <2>2. /\ rank' = [rank EXCEPT ![p] = [rank[p] EXCEPT !.reactions = sum]]
        /\ reactionStates' = [reactionStates EXCEPT ![p] = Left(e)] /\ UNCHANGED commentStates
    BY <1>6 DEF ApplyReactionDelta
  <2> HIDE DEF sum
  <2>3. [rank[p] EXCEPT !.reactions = sum] = r
    BY <1>1 DEF Snapshot
  <2>4. r \in Snapshot /\ r.known = rank[p].known /\ r.date = rank[p].date /\ r.comments = rank[p].comments /\ r.reactions = sum
    BY <1>1, <2>1 DEF Snapshot
  <2> HIDE DEF r
  <2>5. QED
    BY <1>1, <1>6, <2>2, <2>3, <2>4 DEF TypeOK, sum
<1>7. CASE rank[p].known /\ log[e].about[1] = "comment"
           /\ ApplyCommentDelta(p, log[e].about[2], IF log[e].op = "created" THEN CommentScore ELSE -CommentScore)
  BY <1>1, <1>5, <1>7
<1>8. CASE rank[p].known /\ log[e].op \in {"set", "unset"} /\ ApplyReactionDelta(p, Left(e))
  BY <1>6, <1>8
<1>9. QED
  BY <1>4, <1>7, <1>8 DEF RankActivity, Left

-----------------------------------------------------------------------------
(* Types *)

WorkerType == [event : Ids \cup {0}, at : {"idle", "loaded", "indexed", "missing"}, read : 0..MaxChanges]
CommentType == [status : {"none", "active", "deleted"}, post : Posts \cup {NoPost}]

\* A worker without an event.
LEMMA IdleTyped == Idle \in WorkerType
  BY ProjectionsAssumption DEF Idle, WorkerType

\* A handler's record of what it holds.
LEMMA HoldTyped ==
    ASSUME TypeOK, NEW e \in DOMAIN log, NEW at \in {"idle", "loaded", "indexed", "missing"},
           NEW read \in 0..MaxChanges
    PROVE  [event |-> e, at |-> at, read |-> read] \in WorkerType
  BY EventTyped DEF WorkerType

\* Every command writes rows and events of the right types.
LEMMA CommandTypes ==
    ASSUME TypeOK, RowsInStep, Command
    PROVE  TypeOK'
<1>1. ASSUME NEW p \in Posts, PostCommand(p)
      PROVE  TypeOK'
  <2>1. /\ post' \in [Posts -> Post] /\ log' \in Seq(Event) /\ Len(log') <= MaxEvents
        /\ pending' \subseteq DOMAIN log' /\ DOMAIN log \subseteq DOMAIN log'
        /\ UNCHANGED <<worker, index, rank, commentStates, reactionStates, inbox, faults, disordered>>
    <3>1. pending \subseteq DOMAIN log
      BY DEF TypeOK
    <3>2. QED
      BY <1>1, <3>1, PostWritten, ZenonT(60)
  <2>2. /\ comment' \in [Comments -> [status : {"none", "active", "deleted"}, post : Posts \cup {NoPost}]]
        /\ reaction' \in [Posts -> Reaction] /\ overlapped' \subseteq Posts
    <3>1. overlapped \subseteq Posts
      BY DEF TypeOK
    <3>2. QED
      BY <1>1, <3>1, PostAlone
  <2>3. QED
    BY <2>1, <2>2 DEF TypeOK
<1>2. ASSUME NEW p \in Posts, CreateDraftPost(p)
      PROVE  TypeOK'
  <2>1. [status |-> "draft", text |-> 1, date |-> 0] \in Post
    BY ProjectionsAssumption DEF Post
  <2>2. QED
    BY <1>2, <2>1 DEF TypeOK, CreateDraftPost, ranking
<1>3. ASSUME NEW c \in Comments, NEW p \in Posts, CreateComment(c, p)
      PROVE  TypeOK'
  <2>1. /\ log' \in Seq(Event) /\ Len(log') <= MaxEvents
        /\ pending' \subseteq DOMAIN log' /\ DOMAIN log \subseteq DOMAIN log'
        /\ UNCHANGED <<post, reaction, worker, index, rank, commentStates, reactionStates, inbox, faults,
                       overlapped, disordered>>
        /\ comment' = [comment EXCEPT ![c] = [status |-> "active", post |-> p]]
    <3>1. pending \subseteq DOMAIN log
      BY DEF TypeOK
    <3>2. PICK m, n : m = Len(log) + 1 /\ n = Len(log) + 2
      OBVIOUS
    <3>3. QED
      <4>1. /\ comment' = [comment EXCEPT ![c] = [status |-> "active", post |-> p]]
            /\ log' \in Seq(Event) /\ Len(log') <= MaxEvents
            /\ DOMAIN log' = DOMAIN log \cup {m, n} /\ pending' = pending \cup {m, n}
            /\ UNCHANGED <<post, reaction, worker, index, rank, commentStates, reactionStates, inbox,
                           faults, overlapped, disordered>>
        BY <1>3, <3>2, CommentWritten
      <4>2. QED
        BY <3>1, <4>1
  <2>2. comment' \in [Comments -> [status : {"none", "active", "deleted"}, post : Posts \cup {NoPost}]]
    BY <2>1 DEF TypeOK
  <2>3. QED
    BY <2>1, <2>2 DEF TypeOK
<1>4. ASSUME NEW c \in Comments, DeleteComment(c), comment[c].post \in Posts
      PROVE  TypeOK'
  <2>1. /\ log' \in Seq(Event) /\ Len(log') <= MaxEvents
        /\ pending' \subseteq DOMAIN log' /\ DOMAIN log \subseteq DOMAIN log'
        /\ UNCHANGED <<post, reaction, worker, index, rank, commentStates, reactionStates, inbox, faults,
                       overlapped, disordered>>
        /\ comment' = [comment EXCEPT ![c] = [status |-> "deleted", post |-> comment[c].post]]
    <3>1. pending \subseteq DOMAIN log
      BY DEF TypeOK
    <3>2. QED
      BY <1>4, <3>1, CommentDeleted
  <2>2. comment' \in [Comments -> [status : {"none", "active", "deleted"}, post : Posts \cup {NoPost}]]
    BY <1>4, <2>1 DEF TypeOK
  <2>3. QED
    BY <2>1, <2>2 DEF TypeOK
<1>5. ASSUME NEW p \in Posts, NEW t \in Reaction, React(p, t)
      PROVE  TypeOK'
  <2>1. /\ log' \in Seq(Event) /\ Len(log') <= MaxEvents
        /\ pending' \subseteq DOMAIN log' /\ DOMAIN log \subseteq DOMAIN log'
        /\ UNCHANGED <<post, comment, worker, index, rank, commentStates, reactionStates, inbox, faults,
                       overlapped, disordered>>
        /\ reaction' = [reaction EXCEPT ![p] = t]
    <3>1. pending \subseteq DOMAIN log
      BY DEF TypeOK
    <3>2. QED
      BY <1>5, <3>1, ReactionWritten, ZenonT(60)
  <2>2. QED
    BY <2>1 DEF TypeOK
<1>6. ASSUME NEW c \in Comments, DeleteComment(c)
      PROVE  comment[c].post \in Posts
  BY <1>6 DEF RowsInStep, DeleteComment, Active
<1>7. QED
  BY <1>1, <1>2, <1>3, <1>4, <1>5, <1>6 DEF Command, PostCommand

\* So does every step of a handler, in index, ranking and inbox.
LEMMA HandlingTypes ==
    ASSUME TypeOK, NEW w \in Workers,
           \/ UpsertPost(w) \/ RankPostChanged(w) \/ SaveNotification(w) \/ HandlerFails(w)
           \/ \E e \in pending : Load(w, e) \/ DeleteFromIndex(w, e) \/ RankActivityChanged(w, e)
                                 \/ FindNotification(w, e),
           WorkersInStep
    PROVE  TypeOK'
<1> USE DEF db
<1>0. pending \subseteq DOMAIN log /\ (~At(w, "idle") => worker[w].event \in DOMAIN log) /\ 0 \in 0..MaxChanges
  BY ProjectionsAssumption DEF TypeOK, WorkersInStep
<1>1. CASE UpsertPost(w)
  <2>1. Handled(w).post \in Posts /\ worker[w].read \in 0..MaxChanges
    BY <1>0, <1>1, EventTyped, Held DEF UpsertPost, Handled, At
  <2>2. index' \in [Posts -> 0..MaxChanges]
    <3>1. index' = [index EXCEPT ![Handled(w).post] = worker[w].read]
      BY <1>1 DEF UpsertPost, UpsertSearchDocument
    <3>2. QED
      BY <2>1, <3>1 DEF TypeOK
  <2>3. [event |-> worker[w].event, at |-> "indexed", read |-> 0] \in WorkerType
    BY <1>0, Held DEF WorkerType
  <2>4. worker' \in [Workers -> WorkerType]
    BY <1>1, <2>3 DEF TypeOK, UpsertPost, WorkerType
  <2>5. QED
    BY <1>1, <2>2, <2>4 DEF TypeOK, UpsertPost, WorkerType, ranking
<1>2. CASE RankPostChanged(w)
  <2>1. worker[w].event \in DOMAIN log /\ Mark(worker[w].event) /\ RankPost(log[worker[w].event])
    BY <1>0, <1>2 DEF RankPostChanged, At, Ranked, Handled
  <2>2. rank' \in [Posts -> Snapshot] /\ UNCHANGED <<commentStates, reactionStates>>
    BY <2>1, PostRanked
  <2>3. pending' \subseteq pending /\ faults' \in 0..MaxFaults
    BY <2>1, Marked
  <2>4. disordered' \subseteq Subjects
    BY <1>2, <2>1, EventTyped DEF TypeOK, RankPostChanged, Ranked
  <2>5. worker' \in [Workers -> WorkerType]
    BY <1>2, IdleTyped DEF TypeOK, RankPostChanged, WorkerType
  <2>6. QED
    BY <1>2, <2>2, <2>3, <2>4, <2>5 DEF TypeOK, RankPostChanged, WorkerType
<1>3. CASE SaveNotification(w)
  <2> DEFINE e == worker[w].event
  <2>1. e \in DOMAIN log
    BY <1>0, <1>3 DEF SaveNotification, At
  <2>2. inbox' \subseteq [event : DOMAIN log, read : BOOLEAN]
    <3>1. inbox' = inbox \/ inbox' = inbox \cup {[event |-> e, read |-> FALSE]}
      BY <1>3 DEF SaveNotification, InsertNotification
    <3>2. [event |-> e, read |-> FALSE] \in [event : DOMAIN log, read : BOOLEAN]
      BY <2>1
    <3>3. QED
      BY <3>1, <3>2 DEF TypeOK
  <2>3. pending' \subseteq pending /\ faults' \in 0..MaxFaults
    BY <1>3, Marked DEF SaveNotification, TypeOK
  <2>4. worker' \in [Workers -> WorkerType]
    BY <1>3, IdleTyped DEF TypeOK, SaveNotification, WorkerType
  <2>5. QED
    BY <1>3, <2>2, <2>3, <2>4 DEF TypeOK, SaveNotification, WorkerType, ranking
<1>4. CASE HandlerFails(w)
  <2>1. worker' \in [Workers -> WorkerType]
    BY <1>4, IdleTyped DEF TypeOK, HandlerFails, WorkerType
  <2>2. faults' \in 0..MaxFaults
    BY <1>4, ProjectionsAssumption DEF TypeOK, HandlerFails
  <2>3. QED
    BY <1>4, <2>1, <2>2 DEF TypeOK, HandlerFails, WorkerType, ranking
<1>5. ASSUME NEW e \in pending, Load(w, e)
      PROVE  TypeOK'
  <2>1. [event |-> e, at |-> "loaded", read |-> loadSearchDocumentByPostID(log[e].post)] \in WorkerType
    BY <1>0, HoldTyped, EventTyped, LoadTyped
  <2>2. worker' \in [Workers -> WorkerType]
    BY <1>5, <2>1 DEF TypeOK, Load, WorkerType
  <2>3. QED
    BY <1>5, <2>2 DEF TypeOK, Load, WorkerType, ranking
<1>6. ASSUME NEW e \in pending, DeleteFromIndex(w, e)
      PROVE  TypeOK'
  <2>1. [event |-> e, at |-> "indexed", read |-> 0] \in WorkerType
    BY <1>0, HoldTyped
  <2>2. worker' \in [Workers -> WorkerType]
    BY <1>6, <2>1 DEF TypeOK, DeleteFromIndex, WorkerType
  <2>3. index' \in [Posts -> 0..MaxChanges]
    BY <1>0, <1>6 DEF TypeOK, DeleteFromIndex, NoText
  <2>4. QED
    BY <1>6, <2>2, <2>3 DEF TypeOK, DeleteFromIndex, WorkerType, ranking
<1>7. ASSUME NEW e \in pending, RankActivityChanged(w, e)
      PROVE  TypeOK'
  <2>1. e \in DOMAIN log /\ Mark(e) /\ RankActivity(log[e])
    BY <1>0, <1>7 DEF RankActivityChanged, Ranked
  <2>2. /\ rank' \in [Posts -> Snapshot] /\ commentStates' \in [Comments -> {0, CommentScore}]
        /\ reactionStates' \in [Posts -> Reaction]
    <3>1. Score(e) \in {0, CommentScore} /\ Left(e) \in Reaction /\ log[e].post \in Posts
      BY <2>1, EventTyped DEF Score, Left, Reaction
    <3>2. QED
      BY <2>1, <3>1, ActivityRanked DEF TypeOK
  <2>3. pending' \subseteq pending /\ faults' \in 0..MaxFaults
    BY <2>1, Marked
  <2>4. disordered' \subseteq Subjects
    BY <1>7, <2>1, EventTyped DEF TypeOK, RankActivityChanged, Ranked
  <2>5. QED
    BY <1>7, <2>2, <2>3, <2>4 DEF TypeOK, RankActivityChanged
<1>8. ASSUME NEW e \in pending, FindNotification(w, e)
      PROVE  TypeOK'
  <2>1. [event |-> e, at |-> "missing", read |-> 0] \in WorkerType
    BY <1>0, HoldTyped
  <2>2. worker' \in [Workers -> WorkerType]
    BY <1>8, <2>1 DEF TypeOK, FindNotification, WorkerType
  <2>3. pending' \subseteq pending /\ faults' \in 0..MaxFaults
    BY <1>8, Marked DEF FindNotification, TypeOK
  <2>4. QED
    BY <1>8, <2>2, <2>3 DEF TypeOK, FindNotification, WorkerType, ranking
<1>9. QED
  BY <1>1, <1>2, <1>3, <1>4, <1>5, <1>6, <1>7, <1>8

\* A notification that is read is the same but for that.
LEMMA ReadTyped ==
    ASSUME TypeOK, NEW n \in inbox
    PROVE  /\ n \in [event : DOMAIN log, read : BOOLEAN]
           /\ [n EXCEPT !.read = TRUE] \in [event : DOMAIN log, read : BOOLEAN]
           /\ [n EXCEPT !.read = TRUE].event = n.event /\ [n EXCEPT !.read = TRUE].read
<1>1. n \in [event : DOMAIN log, read : BOOLEAN]
  BY DEF TypeOK
<1>2. QED
  BY <1>1

\* What the ranking starts from.
LEMMA Seeded ==
    ASSUME TypeOK, NEW p \in Posts
    PROVE  /\ seedPostRankingSnapshots \in [Posts -> Snapshot]
           /\ (seedPostRankingSnapshots[p].known <=> Published(p))
           /\ seedPostRankingSnapshots[p].date = IF Published(p) THEN post[p].date ELSE 0
           /\ seedPostRankingSnapshots[p].comments = 0 /\ seedPostRankingSnapshots[p].reactions = 0
<1> DEFINE row(q) == IF Published(q)
                    THEN [known |-> TRUE, date |-> post[q].date, comments |-> 0, reactions |-> 0]
                    ELSE Unknown
<1>1. ASSUME NEW q \in Posts
      PROVE  /\ row(q) \in Snapshot /\ (row(q).known <=> Published(q))
             /\ row(q).date = IF Published(q) THEN post[q].date ELSE 0
             /\ row(q).comments = 0 /\ row(q).reactions = 0
  <2>1. post[q].date \in 0..MaxChanges /\ 0 \in 0..MaxChanges
    BY ProjectionsAssumption DEF TypeOK, Post
  <2>2. CASE Published(q)
    <3>1. row(q) = [known |-> TRUE, date |-> post[q].date, comments |-> 0, reactions |-> 0]
      BY <2>2
    <3>2. QED
      BY <2>1, <2>2, <3>1 DEF Snapshot, Published
  <2>3. CASE ~Published(q)
    <3>1. /\ Unknown \in Snapshot /\ ~Unknown.known /\ Unknown.date = 0
          /\ Unknown.comments = 0 /\ Unknown.reactions = 0
      BY <2>1 DEF Snapshot, Unknown
    <3>2. row(q) = Unknown
      BY <2>3
    <3> HIDE DEF row
    <3>3. QED
      BY <2>3, <3>1, <3>2
  <2>4. QED
    BY <2>2, <2>3
<1>2. seedPostRankingSnapshots = [q \in Posts |-> row(q)]
  BY DEF seedPostRankingSnapshots
<1> HIDE DEF row
<1>3. QED
  BY <1>1, <1>2

\* So do a restart with its rebuilds, and reading notifications.
LEMMA OtherTypes ==
    ASSUME TypeOK, Restart \/ MarkAllMyNotificationsRead \/ UNCHANGED vars
                   \/ \E n \in inbox : MarkMyNotificationRead(n)
    PROVE  TypeOK'
<1> USE DEF db
<1>1. CASE Restart
  <2>1. rank' \in [Posts -> Snapshot] /\ index' \in [Posts -> 0..MaxChanges]
    <3>1. seedPostRankingSnapshots \in [Posts -> Snapshot]
      <4>1. CASE Posts = {}
        BY <4>1 DEF seedPostRankingSnapshots
      <4>2. CASE Posts # {}
        BY <4>2, Seeded
      <4>3. QED
        BY <4>1, <4>2
    <3>2. RebuildAll \in [Posts -> 0..MaxChanges]
      BY LoadTyped DEF RebuildAll
    <3>3. QED
      BY <1>1, <3>1, <3>2 DEF Restart
  <2>2. worker' \in [Workers -> WorkerType]
    BY <1>1, IdleTyped DEF Restart, WorkerType
  <2>3. /\ commentStates' \in [Comments -> {0, CommentScore}] /\ reactionStates' \in [Posts -> Reaction]
        /\ disordered' \subseteq Subjects /\ faults' \in 0..MaxFaults
    BY <1>1, ProjectionsAssumption DEF TypeOK, Restart, Reaction
  <2>4. QED
    BY <1>1, <2>1, <2>2, <2>3 DEF TypeOK, Restart, WorkerType
<1>2. ASSUME NEW n \in inbox, MarkMyNotificationRead(n)
      PROVE  TypeOK'
  <2>1. inbox' \subseteq [event : DOMAIN log, read : BOOLEAN]
    BY <1>2, ReadTyped DEF TypeOK, MarkMyNotificationRead
  <2>2. QED
    BY <1>2, <2>1 DEF TypeOK, MarkMyNotificationRead, ranking
<1>3. CASE MarkAllMyNotificationsRead
  <2>1. inbox' \subseteq [event : DOMAIN log, read : BOOLEAN]
    BY <1>3, ReadTyped DEF MarkAllMyNotificationsRead
  <2>2. QED
    BY <1>3, <2>1 DEF TypeOK, MarkAllMyNotificationsRead, ranking
<1>4. CASE UNCHANGED vars
  BY <1>4 DEF TypeOK, vars, ranking
<1>5. QED
  BY <1>1, <1>2, <1>3, <1>4

-----------------------------------------------------------------------------
(* Rows, events and workers *)

\* A step of a worker, and one that is none.
Handles(w) ==
    \/ UpsertPost(w) \/ RankPostChanged(w) \/ SaveNotification(w) \/ HandlerFails(w)
    \/ \E e \in pending : Load(w, e) \/ DeleteFromIndex(w, e) \/ RankActivityChanged(w, e)
                          \/ FindNotification(w, e)

Reads == (\E n \in inbox : MarkMyNotificationRead(n)) \/ MarkAllMyNotificationsRead \/ UNCHANGED vars

\* Only commands write rows and announce events.
LEMMA RowsStay ==
    ASSUME (\E w \in Workers : Handles(w)) \/ Restart \/ Reads
    PROVE  UNCHANGED <<post, comment, reaction, log, overlapped>>
  BY
     DEF Handles, Reads, UpsertPost, RankPostChanged, SaveNotification, HandlerFails, Load,
         DeleteFromIndex,
         RankActivityChanged, FindNotification, Restart, MarkMyNotificationRead,
         MarkAllMyNotificationsRead, vars, db

\* An event keeps its subject: a post that is deleted stays so, a comment stays on its post.
LEMMA EventsInv ==
    ASSUME TypeOK, RowsInStep, EventsInStep, [Next]_vars
    PROVE  EventsInStep'
<1>1. ASSUME UNCHANGED <<post, comment, reaction, log>>
      PROVE  EventsInStep'
  BY <1>1 DEF EventsInStep
<1>2. ASSUME NEW p \in Posts, PostCommand(p), NEW n, n = Len(log) + 1
      PROVE  EventsInStep'
  <2>1. \A q \in Posts : post[q].status = "deleted" => post'[q].status = "deleted"
    BY <1>2, PostWritten
  <2>2. \A c \in Comments : comment'[c].post = comment[c].post
                            /\ (comment'[c].status = "none" <=> comment[c].status = "none")
    BY <1>2, PostAlone
  <2>3. SUFFICES ASSUME NEW e \in DOMAIN log'
                 PROVE  /\ log'[e].about[1] = "post" =>
                             /\ log'[e].about = <<"post", log'[e].post>> /\ log'[e].op \in {"changed", "deleted"}
                             /\ log'[e].op = "deleted" => post'[log'[e].post].status = "deleted"
                        /\ log'[e].about[1] = "comment" =>
                             /\ log'[e].op \in {"notify", "created", "deleted"}
                             /\ comment'[log'[e].about[2]].status # "none"
                             /\ comment'[log'[e].about[2]].post = log'[e].post
                        /\ log'[e].about[1] = "reaction" =>
                             log'[e].about = <<"reaction", log'[e].post>> /\ log'[e].op \in {"set", "unset"}
    BY DEF EventsInStep
  <2>4. CASE e \in DOMAIN log
    <3>1. log'[e] = log[e]
      BY <1>2, <2>4, PostWritten
    <3>2. /\ log[e].about[1] = "post" =>
                /\ log[e].about = <<"post", log[e].post>> /\ log[e].op \in {"changed", "deleted"}
                /\ log[e].op = "deleted" => post[log[e].post].status = "deleted"
          /\ log[e].about[1] = "comment" =>
                /\ log[e].op \in {"notify", "created", "deleted"}
                /\ comment[log[e].about[2]].status # "none" /\ comment[log[e].about[2]].post = log[e].post
          /\ log[e].about[1] = "reaction" =>
                log[e].about = <<"reaction", log[e].post>> /\ log[e].op \in {"set", "unset"}
      BY <2>4 DEF EventsInStep
    <3>3. /\ log[e].post \in Posts
          /\ log[e].about[1] = "comment" => log[e].about[2] \in Comments
      BY <2>4, EventTyped
    <3>4. log[e].about[1] = "comment" =>
                /\ comment'[log[e].about[2]].status # "none" /\ comment'[log[e].about[2]].post = log[e].post
      BY <2>2, <3>2, <3>3
    <3>5. log[e].about[1] = "post" /\ log[e].op = "deleted" => post'[log[e].post].status = "deleted"
      BY <2>1, <3>2, <3>3
    <3>6. QED
      BY <3>1, <3>2, <3>4, <3>5
  <2>5. CASE e \notin DOMAIN log
    <3>2. DOMAIN log' = DOMAIN log \cup {n}
      BY <1>2, PostWritten
    <3>0. e = n
      BY <2>5, <3>2
    <3>1. log'[n].about = <<"post", p>> /\ log'[n].post = p
          /\ log'[n].op = IF post'[p].status = "deleted" THEN "deleted" ELSE "changed"
      BY <1>2, PostWritten
    <3>3. QED
      BY <3>0, <3>1
  <2>6. QED
    BY <2>4, <2>5
<1>3. ASSUME NEW p \in Posts, CreateDraftPost(p)
      PROVE  EventsInStep'
  BY <1>3, EventTyped DEF CreateDraftPost, EventsInStep, TypeOK
<1>4. ASSUME NEW c \in Comments, NEW p \in Posts, CreateComment(c, p)
      PROVE  EventsInStep'
  <2> DEFINE m == Len(log) + 1
             n == Len(log) + 2
  <2>1. /\ comment' = [comment EXCEPT ![c] = [status |-> "active", post |-> p]]
        /\ comment[c].status = "none" /\ post' = post
        /\ DOMAIN log' = DOMAIN log \cup {m, n}
        /\ \A e \in DOMAIN log : log'[e] = log[e]
        /\ log'[m].about = <<"comment", c>> /\ log'[m].post = p /\ log'[m].op = "notify"
        /\ log'[n].about = <<"comment", c>> /\ log'[n].post = p /\ log'[n].op = "created"
    BY <1>4, CommentWritten
  <2> HIDE DEF m, n
  <2>2. /\ comment'[c].status = "active" /\ comment'[c].post = p
        /\ \A d \in Comments \ {c} : comment'[d] = comment[d]
    BY <2>1 DEF TypeOK
  <2>3. QED
    BY <2>1, <2>2, EventTyped DEF EventsInStep
<1>5. ASSUME NEW c \in Comments, DeleteComment(c), NEW n, n = Len(log) + 1
      PROVE  EventsInStep'
  <2>0. comment[c].post \in Posts
    BY <1>5 DEF RowsInStep, DeleteComment, Active
  <2>1. /\ comment' = [comment EXCEPT ![c] = [status |-> "deleted", post |-> comment[c].post]]
        /\ post' = post
        /\ DOMAIN log' = DOMAIN log \cup {n}
        /\ \A e \in DOMAIN log : log'[e] = log[e]
        /\ log'[n].about = <<"comment", c>> /\ log'[n].post = comment[c].post /\ log'[n].op = "deleted"
    BY <1>5, <2>0, CommentDeleted
  <2>2. /\ comment'[c].status = "deleted" /\ comment'[c].post = comment[c].post
        /\ \A d \in Comments \ {c} : comment'[d] = comment[d]
    BY <2>1 DEF TypeOK
  <2>3. QED
    BY <2>1, <2>2, EventTyped DEF EventsInStep
<1>6. ASSUME NEW p \in Posts, NEW t \in Reaction, React(p, t), NEW n, n = Len(log) + 1
      PROVE  EventsInStep'
  <2>1. /\ post' = post /\ comment' = comment
        /\ DOMAIN log' = DOMAIN log \cup {n}
        /\ \A e \in DOMAIN log : log'[e] = log[e]
        /\ log'[n].about = <<"reaction", p>> /\ log'[n].post = p /\ log'[n].op \in {"set", "unset"}
    BY <1>6, ReactionWritten, ZenonT(60)
  <2>2. QED
    BY <2>1, EventTyped DEF EventsInStep
<1>7. QED
  BY <1>1, <1>2, <1>3, <1>4, <1>5, <1>6, RowsStay
     DEF Next, Command, PostCommand, Handling, Handles, Reads

\* A command appends to the log and leaves what is derived from it alone.
LEMMA CommandKeeps ==
    ASSUME TypeOK, RowsInStep, Command
    PROVE  /\ DOMAIN log \subseteq DOMAIN log' /\ \A e \in DOMAIN log : log'[e] = log[e]
           /\ pending \subseteq pending' /\ \A e \in DOMAIN log : e \in pending' => e \in pending
           /\ \A e \in DOMAIN log' \ DOMAIN log : e \in Nat /\ e \in pending' /\ \A f \in DOMAIN log : f \in Nat /\ f < e
           /\ UNCHANGED <<worker, index, rank, commentStates, reactionStates, inbox, faults, disordered>>
<1>0. pending \subseteq DOMAIN log
  BY DEF TypeOK
<1> DEFINE l == Len(log) + 1
           m == Len(log) + 2
<1>1. ASSUME NEW p \in Posts, PostCommand(p)
      PROVE  /\ l \in Nat /\ DOMAIN log' = DOMAIN log \cup {l}
             /\ \A e \in DOMAIN log : e \in Nat /\ e < l /\ log'[e] = log[e]
             /\ pending' = pending \cup {l}
             /\ UNCHANGED <<worker, index, rank, commentStates, reactionStates, inbox, faults, disordered>>
  BY <1>1, PostWritten
<1>2. ASSUME NEW p \in Posts, CreateDraftPost(p)
      PROVE  UNCHANGED <<log, pending, worker, index, rank, commentStates, reactionStates, inbox, faults, disordered>>
  BY <1>2 DEF CreateDraftPost, ranking
<1>3. ASSUME NEW c \in Comments, NEW p \in Posts, CreateComment(c, p)
      PROVE  /\ l \in Nat /\ m \in Nat /\ l < m /\ DOMAIN log' = DOMAIN log \cup {l, m}
             /\ \A e \in DOMAIN log : e \in Nat /\ e < l /\ log'[e] = log[e]
             /\ pending' = pending \cup {l, m}
             /\ UNCHANGED <<worker, index, rank, commentStates, reactionStates, inbox, faults, disordered>>
  BY <1>3, CommentWritten
<1>4. ASSUME NEW c \in Comments, DeleteComment(c)
      PROVE  /\ l \in Nat /\ DOMAIN log' = DOMAIN log \cup {l}
             /\ \A e \in DOMAIN log : e \in Nat /\ e < l /\ log'[e] = log[e]
             /\ pending' = pending \cup {l}
             /\ UNCHANGED <<worker, index, rank, commentStates, reactionStates, inbox, faults, disordered>>
  <2>0. comment[c].post \in Posts
    BY <1>4 DEF RowsInStep, DeleteComment, Active
  <2>1. QED
    BY <1>4, <2>0, CommentDeleted
<1>5. ASSUME NEW p \in Posts, NEW t \in Reaction, React(p, t)
      PROVE  /\ l \in Nat /\ DOMAIN log' = DOMAIN log \cup {l}
             /\ \A e \in DOMAIN log : e \in Nat /\ e < l /\ log'[e] = log[e]
             /\ pending' = pending \cup {l}
             /\ UNCHANGED <<worker, index, rank, commentStates, reactionStates, inbox, faults, disordered>>
  BY <1>5, ReactionWritten
<1> HIDE DEF l, m
<1>6. CASE \E p \in Posts : PostCommand(p)
  BY <1>0, <1>1, <1>6
<1>7. CASE \E p \in Posts : CreateDraftPost(p)
  BY <1>2, <1>7
<1>8. CASE \E p \in Posts, c \in Comments : CreateComment(c, p)
  BY <1>0, <1>3, <1>8
<1>9. CASE \E c \in Comments : DeleteComment(c)
  BY <1>0, <1>4, <1>9
<1>10. CASE \E p \in Posts, t \in Reaction : React(p, t)
  BY <1>0, <1>5, <1>10
<1>11. QED
  BY <1>6, <1>7, <1>8, <1>9, <1>10 DEF Command, PostCommand

\* A worker takes an event of the kind its handler is for.
LEMMA WorkersInv ==
    ASSUME TypeOK, RowsInStep, EventsInStep, WorkersInStep, [Next]_vars
    PROVE  WorkersInStep'
<1>1. CASE Command
  BY <1>1, CommandKeeps DEF WorkersInStep, At, Handled
<1>2. ASSUME NEW w \in Workers, Handles(w)
      PROVE  WorkersInStep'
  <2>0. UNCHANGED log /\ pending \subseteq DOMAIN log /\ worker[w].event = worker[w].event
    BY <1>2, RowsStay DEF TypeOK
  <2>1. CASE UpsertPost(w)
    <3>1. /\ worker' = [worker EXCEPT ![w] = [event |-> worker[w].event, at |-> "indexed", read |-> 0]]
          /\ At(w, "loaded")
      BY <2>1 DEF UpsertPost
    <3>2. QED
      BY <2>0, <3>1 DEF TypeOK, WorkersInStep, At, Handled
  <2>2. CASE RankPostChanged(w) \/ SaveNotification(w) \/ HandlerFails(w)
    <3>1. worker' = [worker EXCEPT ![w] = Idle]
      BY <2>2 DEF RankPostChanged, SaveNotification, HandlerFails
    <3>2. QED
      BY <2>0, <3>1 DEF TypeOK, WorkersInStep, At, Handled, Idle
  <2>3. ASSUME NEW e \in pending, Load(w, e)
        PROVE  WorkersInStep'
    <3>1. PICK r : worker' = [worker EXCEPT ![w] = [event |-> e, at |-> "loaded", read |-> r]]
      BY <2>3 DEF Load
    <3>2. log[e].about[1] = "post" /\ log[e].op = "changed"
      BY <2>3 DEF Load
    <3>3. QED
      BY <2>0, <3>1, <3>2 DEF TypeOK, WorkersInStep, At, Handled
  <2>4. ASSUME NEW e \in pending, DeleteFromIndex(w, e)
        PROVE  WorkersInStep'
    <3>1. /\ worker' = [worker EXCEPT ![w] = [event |-> e, at |-> "indexed", read |-> 0]]
          /\ log[e].about[1] = "post"
      BY <2>4 DEF DeleteFromIndex
    <3>2. QED
      BY <2>0, <3>1 DEF TypeOK, WorkersInStep, At, Handled
  <2>5. ASSUME NEW e \in pending, RankActivityChanged(w, e)
        PROVE  WorkersInStep'
    BY <2>0, <2>5 DEF RankActivityChanged, WorkersInStep, At, Handled
  <2>6. ASSUME NEW e \in pending, FindNotification(w, e)
        PROVE  WorkersInStep'
    <3>1. /\ \/ worker' = worker
             \/ worker' = [worker EXCEPT ![w] = [event |-> e, at |-> "missing", read |-> 0]]
          /\ log[e].op = "notify"
      BY <2>6 DEF FindNotification
    <3>2. CASE worker' = worker
      BY <2>0, <3>2 DEF WorkersInStep, At, Handled
    <3>3. CASE worker' = [worker EXCEPT ![w] = [event |-> e, at |-> "missing", read |-> 0]]
      BY <2>0, <3>1, <3>3 DEF TypeOK, WorkersInStep, At, Handled
    <3>4. QED
      BY <3>1, <3>2, <3>3
  <2>7. QED
    BY <1>2, <2>1, <2>2, <2>3, <2>4, <2>5, <2>6 DEF Handles
<1>3. CASE Restart
  <2>1. \A w \in Workers : worker'[w] = Idle
    BY <1>3 DEF Restart
  <2>2. QED
    BY <2>1 DEF WorkersInStep, At, Idle
<1>4. CASE Reads
  <2>1. UNCHANGED <<worker, log>>
    BY <1>4, RowsStay DEF Reads, MarkMyNotificationRead, MarkAllMyNotificationsRead, vars
  <2>2. QED
    BY <2>1 DEF WorkersInStep, At, Handled
<1>5. QED
  BY <1>1, <1>2, <1>3, <1>4 DEF Next, Handling, Handles, Reads

\* What a handler does to the ranking: it ranks an event, or leaves the ranking alone.
Ranks(e) ==
    \/ RankPost(log[e]) /\ log[e].about[1] = "post"
    \/ RankActivity(log[e]) /\ log[e].about[1] # "post"

\* A step of a handler has ranked one event, or ranks none and ends at most a notification.
LEMMA HandlerRanks ==
    ASSUME TypeOK, EventsInStep, WorkersInStep, NEW w \in Workers, Handles(w)
    PROVE  /\ pending' \subseteq pending
           /\ \/ /\ UNCHANGED <<rank, commentStates, reactionStates, disordered>>
                 /\ \A e \in pending \ pending' : log[e].op = "notify"
              \/ \E e \in DOMAIN log : /\ Ranks(e) /\ Ranked(e) /\ log[e].op # "notify"
                                       /\ pending \ {e} \subseteq pending'
<1>0. pending \subseteq DOMAIN log
  BY DEF TypeOK
<1>1. CASE RankPostChanged(w)
  <2>1. /\ worker[w].event \in DOMAIN log /\ log[worker[w].event].about[1] = "post"
        /\ RankPost(log[worker[w].event]) /\ Ranked(worker[w].event)
    BY <1>1 DEF RankPostChanged, WorkersInStep, At, Handled
  <2>2. log[worker[w].event].op # "notify"
    BY <2>1 DEF EventsInStep
  <2>3. QED
    BY <2>1, <2>2, Marked DEF Ranks, Ranked
<1>2. ASSUME NEW e \in pending, RankActivityChanged(w, e)
      PROVE  Ranks(e) /\ Ranked(e) /\ log[e].op # "notify" /\ pending' \subseteq pending /\ pending \ {e} \subseteq pending'
  <2>1. log[e].about[1] # "post"
    BY <1>0, <1>2 DEF RankActivityChanged, EventsInStep
  <2>2. QED
    BY <1>2, <2>1, Marked DEF RankActivityChanged, Ranks, Ranked
<1>3. CASE UpsertPost(w) \/ HandlerFails(w) \/ \E e \in pending : Load(w, e) \/ DeleteFromIndex(w, e)
  BY <1>3 DEF UpsertPost, HandlerFails, Load, DeleteFromIndex, ranking
<1>4. CASE SaveNotification(w)
  <2>1. log[worker[w].event].op = "notify"
    BY <1>4 DEF SaveNotification, WorkersInStep, At, Handled
  <2>2. UNCHANGED pending \/ Mark(worker[w].event)
    BY <1>4 DEF SaveNotification
  <2>3. QED
    BY <1>4, <2>1, <2>2, Marked DEF SaveNotification, ranking
<1>5. ASSUME NEW e \in pending, FindNotification(w, e)
      PROVE  /\ pending' \subseteq pending /\ pending \ {e} \subseteq pending' /\ log[e].op = "notify"
             /\ UNCHANGED <<rank, commentStates, reactionStates, disordered>>
  <2>1. UNCHANGED pending \/ Mark(e)
    BY <1>5 DEF FindNotification
  <2>2. QED
    BY <1>5, <2>1, Marked DEF FindNotification, ranking
<1>6. QED
  BY <1>0, <1>1, <1>2, <1>3, <1>4, <1>5 DEF Handles

\* What is not announced, handled or lost with the memory stays.
LEMMA ReadsKeep ==
    ASSUME Reads
    PROVE  UNCHANGED <<pending, worker, index, rank, commentStates, reactionStates, disordered>>
  BY DEF Reads, MarkMyNotificationRead, MarkAllMyNotificationsRead, vars, ranking

\* What a command writes of posts and comments, whatever command it is.
LEMMA CommandRows ==
    ASSUME TypeOK, RowsInStep, Command
    PROVE  \A p \in Posts :
             /\ post[p].status \in {"published", "deleted"} => post'[p].status \in {"published", "deleted"}
             /\ post[p].status = "deleted" => post'[p].status = "deleted"
             /\ post'[p].status \in {"none", "draft"} =>
                  /\ post[p].status \in {"none", "draft"} /\ post'[p].date = 0
                  /\ \A e \in DOMAIN log' \ DOMAIN log : log'[e].about = <<"post", p>> => log'[e].date = 0
             /\ post'[p].status = "published" => post'[p].date > 0
<1>0. \A q \in Posts : post[q] \in Post
  BY DEF TypeOK
<1>1. ASSUME NEW q \in Posts, PostCommand(q)
      PROVE  \A p \in Posts :
             /\ post[p].status \in {"published", "deleted"} => post'[p].status \in {"published", "deleted"}
             /\ post[p].status = "deleted" => post'[p].status = "deleted"
             /\ post'[p].status \in {"none", "draft"} =>
                  /\ post[p].status \in {"none", "draft"} /\ post'[p].date = 0
                  /\ \A e \in DOMAIN log' \ DOMAIN log : log'[e].about = <<"post", p>> => log'[e].date = 0
             /\ post'[p].status = "published" => post'[p].date > 0
  <2> DEFINE n == Len(log) + 1
  <2>1. /\ \A p \in Posts \ {q} : post'[p] = post[p]
        /\ post[q].status # "deleted" /\ post'[q].status \in {"draft", "published", "deleted"}
        /\ post'[q].status = "draft" => post[q].status = "draft" /\ post'[q].date = post[q].date
        /\ post'[q].status = "published" =>
             \/ post[q].status = "published" /\ post'[q].date = post[q].date
             \/ post'[q].date > 0
        /\ post[q].status = "published" => post'[q].status \in {"published", "deleted"}
    BY <1>1, PostWritten
  <2>2. DOMAIN log' = DOMAIN log \cup {n} /\ log'[n].about = <<"post", q>> /\ log'[n].date = post'[q].date
    BY <1>1, PostWritten, ZenonT(60)
  <2> HIDE DEF n
  <2>3. \A p \in Posts : /\ post[p].status \in {"none", "draft"} => post[p].date = 0
                         /\ Published(p) => post[p].date > 0
    BY DEF RowsInStep
  <2>4. TAKE p \in Posts
  <2>5. CASE p = q
    BY <2>1, <2>2, <2>3, <2>5 DEF Published
  <2>6. CASE p # q
    <3>1. \A e \in DOMAIN log' \ DOMAIN log : log'[e].about # <<"post", p>>
      BY <2>2, <2>6
    <3>2. QED
      BY <2>1, <2>3, <2>6, <3>1 DEF Published
  <2>7. QED
    BY <2>5, <2>6
<1>2. ASSUME NEW q \in Posts, CreateDraftPost(q)
      PROVE  /\ log' = log
             /\ post[q].status = "none" /\ post' = [post EXCEPT ![q] = [status |-> "draft", text |-> 1, date |-> 0]]
  BY <1>2 DEF CreateDraftPost
<1>3. ASSUME post' = post, \A e \in DOMAIN log' \ DOMAIN log : log'[e].about[1] # "post"
      PROVE  \A p \in Posts :
             /\ post'[p] = post[p]
             /\ post'[p].status \in {"none", "draft"} =>
                  /\ post'[p].date = 0
                  /\ \A e \in DOMAIN log' \ DOMAIN log : log'[e].about = <<"post", p>> => log'[e].date = 0
             /\ post'[p].status = "published" => post'[p].date > 0
  BY <1>3 DEF RowsInStep, Published
<1>4. ASSUME NEW c \in Comments, NEW q \in Posts, CreateComment(c, q)
      PROVE  post' = post /\ \A e \in DOMAIN log' \ DOMAIN log : log'[e].about[1] # "post"
  BY <1>4, CommentWritten
<1>5. ASSUME NEW c \in Comments, DeleteComment(c)
      PROVE  post' = post /\ \A e \in DOMAIN log' \ DOMAIN log : log'[e].about[1] # "post"
  <2>1. comment[c].post \in Posts
    BY <1>5 DEF RowsInStep, DeleteComment, Active
  <2> DEFINE n == Len(log) + 1
  <2>2. post' = post /\ DOMAIN log' = DOMAIN log \cup {n} /\ log'[n].about = <<"comment", c>>
    BY <1>5, <2>1, CommentDeleted
  <2> HIDE DEF n
  <2>3. QED
    BY <2>2
<1>6. ASSUME NEW q \in Posts, NEW t \in Reaction, React(q, t)
      PROVE  post' = post /\ \A e \in DOMAIN log' \ DOMAIN log : log'[e].about[1] # "post"
  <2> DEFINE n == Len(log) + 1
  <2>2. post' = post /\ DOMAIN log' = DOMAIN log \cup {n} /\ log'[n].about = <<"reaction", q>>
    BY <1>6, ReactionWritten, ZenonT(60)
  <2> HIDE DEF n
  <2>3. QED
    BY <2>2
<1>7. CASE \E q \in Posts : PostCommand(q)
  BY <1>1, <1>7
<1>8. CASE \E q \in Posts : CreateDraftPost(q)
  BY <1>2, <1>8 DEF RowsInStep, Published, TypeOK
<1>9. CASE (\E q \in Posts, c \in Comments : CreateComment(c, q)) \/ (\E c \in Comments : DeleteComment(c))
           \/ (\E q \in Posts, t \in Reaction : React(q, t))
  <2>1. post' = post /\ \A e \in DOMAIN log' \ DOMAIN log : log'[e].about[1] # "post"
    BY <1>4, <1>5, <1>6, <1>9
  <2>2. QED
    BY <1>3, <2>1
<1>10. QED
  BY <1>7, <1>8, <1>9 DEF Command, PostCommand

\* A comment is written on a published post and stays on it.
LEMMA CommandComments ==
    ASSUME TypeOK, RowsInStep, Command
    PROVE  \A c \in Comments :
             /\ comment'[c].status = "none" => comment'[c] = comment[c]
             /\ comment[c].status # "none" => comment'[c].status # "none" /\ comment'[c].post = comment[c].post
             /\ comment[c].status = "none" /\ comment'[c].status # "none" =>
                  comment'[c].post \in Posts /\ Published(comment'[c].post)
<1>1. ASSUME NEW q \in Posts, PostCommand(q)
      PROVE  \A c \in Comments : /\ comment'[c].post = comment[c].post
                                 /\ comment'[c].status = "none" <=> comment[c].status = "none"
                                 /\ comment'[c].status = "none" => comment'[c] = comment[c]
  <2>1. \A c \in Comments : /\ comment'[c].post = comment[c].post
                            /\ comment'[c].status = "none" <=> comment[c].status = "none"
                            /\ \/ comment'[c] = comment[c]
                               \/ comment[c].post = q
    BY <1>1, PostAlone
  <2>2. \A c \in Comments : comment[c].status = "none" => comment[c].post # q
    BY DEF RowsInStep, NoPost, Posts
  <2>3. QED
    BY <2>1, <2>2
<1>2. ASSUME NEW q \in Posts, CreateDraftPost(q)
      PROVE  comment' = comment
  BY <1>2 DEF CreateDraftPost
<1>3. ASSUME NEW d \in Comments, NEW q \in Posts, CreateComment(d, q)
      PROVE  /\ Published(q) /\ comment[d].status = "none"
             /\ comment' = [comment EXCEPT ![d] = [status |-> "active", post |-> q]]
  BY <1>3 DEF CreateComment
<1>4. ASSUME NEW d \in Comments, DeleteComment(d)
      PROVE  /\ comment[d].status = "active"
             /\ comment' = [comment EXCEPT ![d] = [status |-> "deleted", post |-> comment[d].post]]
  BY <1>4, CommentDeleted DEF Active
<1>5. ASSUME NEW q \in Posts, NEW t \in Reaction, React(q, t)
      PROVE  comment' = comment
  BY <1>5 DEF React
<1>6. CASE \E q \in Posts : PostCommand(q)
  BY <1>1, <1>6
<1>7. CASE comment' = comment
  BY <1>7
<1>8. CASE \E q \in Posts, d \in Comments : CreateComment(d, q)
  <2>1. PICK q \in Posts, d \in Comments :
          /\ Published(q) /\ comment[d].status = "none"
          /\ comment' = [comment EXCEPT ![d] = [status |-> "active", post |-> q]]
    BY <1>3, <1>8
  <2>2. /\ comment'[d].status = "active" /\ comment'[d].post = q
        /\ \A c \in Comments \ {d} : comment'[c] = comment[c]
    BY <2>1 DEF TypeOK
  <2>3. QED
    BY <2>1, <2>2
<1>9. CASE \E d \in Comments : DeleteComment(d)
  <2>1. PICK d \in Comments :
          /\ comment[d].status = "active"
          /\ comment' = [comment EXCEPT ![d] = [status |-> "deleted", post |-> comment[d].post]]
    BY <1>4, <1>9
  <2>2. /\ comment'[d].status = "deleted" /\ comment'[d].post = comment[d].post
        /\ \A c \in Comments \ {d} : comment'[c] = comment[c]
    BY <2>1 DEF TypeOK
  <2>3. QED
    BY <2>1, <2>2
<1>10. QED
  BY <1>2, <1>5, <1>6, <1>7, <1>8, <1>9 DEF Command, PostCommand

\* What the ranking has of a post after an event was ranked.
LEMMA RankedDates ==
    ASSUME TypeOK, EventsInStep, NEW e \in DOMAIN log, Ranks(e)
    PROVE  /\ \A p \in Posts : <<"post", p>> # log[e].about => (rank'[p].known <=> rank[p].known) /\ rank'[p].date = rank[p].date
           /\ \A p \in Posts : <<"post", p>> = log[e].about =>
                /\ p = log[e].post
                /\ log[e].op = "deleted" => post[p].status = "deleted" /\ rank'[p] = Unknown
                /\ log[e].op # "deleted" =>
                     rank'[p].known /\ rank'[p].date = IF log[e].date = 0 THEN rank[p].date ELSE log[e].date
           /\ \A c \in Comments : commentStates'[c] # commentStates[c] => log[e].about = <<"comment", c>>
<1>0. log[e].post \in Posts
  BY EventTyped
<1>1. CASE log[e].about[1] = "post"
  <2>1. /\ RankPost(log[e]) /\ log[e].about = <<"post", log[e].post>>
        /\ log[e].op = "deleted" => post[log[e].post].status = "deleted"
    BY <1>1 DEF Ranks, EventsInStep
  <2>2. QED
    BY <1>0, <2>1, PostRanked
<1>2. CASE log[e].about[1] # "post"
  <2>1. RankActivity(log[e]) /\ \A p \in Posts : log[e].about # <<"post", p>>
    BY <1>2 DEF Ranks
  <2>2. \A p \in Posts : (rank'[p].known <=> rank[p].known) /\ rank'[p].date = rank[p].date
    BY <1>0, <2>1, ActivityRanked
  <2>3. ASSUME NEW c \in Comments, commentStates'[c] # commentStates[c]
        PROVE  log[e].about = <<"comment", c>>
    <3>1. log[e].about[1] = "comment" /\ commentStates' = [commentStates EXCEPT ![log[e].about[2]] = Score(e)]
      BY <2>1, <2>3, ActivityRanked
    <3>2. log[e].about[2] \in Comments /\ log[e].about = <<"comment", log[e].about[2]>>
      BY <3>1, EventTyped
    <3>3. QED
      BY <2>3, <3>1, <3>2 DEF TypeOK
  <2>4. QED
    BY <2>1, <2>2, <2>3
<1>3. QED
  BY <1>1, <1>2

\* A post gets its date with its publication, and the ranking gets dates of publications only.
LEMMA RowsInv ==
    ASSUME TypeOK, RowsInStep, EventsInStep, WorkersInStep, [Next]_vars
    PROVE  RowsInStep'
<1> DEFINE DatesOf(p) == /\ post[p].status \in {"none", "draft"} =>
                              /\ post[p].date = 0 /\ rank[p].date = 0
                              /\ \A e \in DOMAIN log : log[e].about = <<"post", p>> => log[e].date = 0
                         /\ post[p].status = "published" => post[p].date > 0
           PlaceOf(c) == IF comment[c].status = "none" THEN comment[c].post = NoPost /\ commentStates[c] = 0
                         ELSE comment[c].post \in Posts /\ post[comment[c].post].status \in {"published", "deleted"}
<1>1. /\ RowsInStep <=> (\A p \in Posts : DatesOf(p)) /\ (\A c \in Comments : PlaceOf(c))
      /\ RowsInStep' <=> (\A p \in Posts : DatesOf(p)') /\ (\A c \in Comments : PlaceOf(c)')
  BY DEF RowsInStep, Published
<1>2. CASE Command
  <2>1. ASSUME NEW p \in Posts
        PROVE  DatesOf(p)'
    <3>1. DatesOf(p) /\ UNCHANGED rank /\ \A e \in DOMAIN log : log'[e] = log[e]
      BY <1>1, <1>2, CommandKeeps
    <3>2. /\ post'[p].status \in {"none", "draft"} =>
                  /\ post[p].status \in {"none", "draft"} /\ post'[p].date = 0
                  /\ \A e \in DOMAIN log' \ DOMAIN log : log'[e].about = <<"post", p>> => log'[e].date = 0
          /\ post'[p].status = "published" => post'[p].date > 0
      BY <1>2, CommandRows
    <3>3. QED
      BY <3>1, <3>2
  <2>2. ASSUME NEW c \in Comments
        PROVE  PlaceOf(c)'
    <3>1. PlaceOf(c) /\ UNCHANGED commentStates
      BY <1>1, <1>2, CommandKeeps
    <3>2. \A p \in Posts : post[p].status \in {"published", "deleted"} => post'[p].status \in {"published", "deleted"}
      BY <1>2, CommandRows
    <3>3. /\ comment'[c].status = "none" => comment'[c] = comment[c]
          /\ comment[c].status # "none" => comment'[c].status # "none" /\ comment'[c].post = comment[c].post
          /\ comment[c].status = "none" /\ comment'[c].status # "none" =>
                  comment'[c].post \in Posts /\ Published(comment'[c].post)
      BY <1>2, CommandComments
    <3>4. CASE comment'[c].status = "none"
      BY <3>1, <3>3, <3>4
    <3>5. CASE comment'[c].status # "none"
      <4>1. comment'[c].post \in Posts /\ post[comment'[c].post].status \in {"published", "deleted"}
        BY <3>1, <3>3, <3>5 DEF Published
      <4>2. QED
        BY <3>2, <3>5, <4>1
    <3>6. QED
      BY <3>4, <3>5
  <2>3. QED
    BY <1>1, <2>1, <2>2
<1>3. ASSUME UNCHANGED <<post, comment, log>>,
             \A p \in Posts : post[p].status \in {"none", "draft"} => rank'[p].date = 0,
             \A c \in Comments : comment[c].status = "none" => commentStates'[c] = 0
      PROVE  RowsInStep'
  BY <1>1, <1>3
<1>4. ASSUME NEW w \in Workers, Handles(w)
      PROVE  RowsInStep'
  <2>1. UNCHANGED <<post, comment, log>>
    BY <1>4, RowsStay
  <2>2. CASE UNCHANGED <<rank, commentStates>>
    BY <1>1, <1>3, <2>1, <2>2
  <2>3. ASSUME NEW e \in DOMAIN log, Ranks(e)
        PROVE  RowsInStep'
    <3>1. ASSUME NEW p \in Posts, post[p].status \in {"none", "draft"}
          PROVE  rank'[p].date = 0
      <4>1. rank[p].date = 0 /\ (log[e].about = <<"post", p>> => log[e].date = 0)
        BY <1>1, <3>1
      <4>2. QED
        BY <2>3, <3>1, <4>1, RankedDates
    <3>2. ASSUME NEW c \in Comments, comment[c].status = "none"
          PROVE  commentStates'[c] = 0
      <4>1. commentStates[c] = 0
        BY <1>1, <3>2
      <4>2. log[e].about # <<"comment", c>>
        BY <3>2 DEF EventsInStep
      <4>3. QED
        BY <2>3, <4>1, <4>2, RankedDates
    <3>3. QED
      BY <1>3, <2>1, <3>1, <3>2
  <2>4. QED
    BY <1>4, <2>2, <2>3, HandlerRanks
<1>5. CASE Restart
  <2>1. UNCHANGED <<post, comment, log>>
    BY <1>5, RowsStay
  <2>2. \A p \in Posts : post[p].status \in {"none", "draft"} => rank'[p].date = 0
    BY <1>5, Seeded DEF Restart, Published
  <2>3. \A c \in Comments : commentStates'[c] = 0
    BY <1>5 DEF Restart
  <2>4. QED
    BY <1>3, <2>1, <2>2, <2>3
<1>6. CASE Reads
  <2>1. UNCHANGED <<post, comment, log, rank, commentStates>>
    BY <1>6, RowsStay, ReadsKeep
  <2>2. QED
    BY <1>1, <1>3, <2>1
<1>7. QED
  BY <1>2, <1>4, <1>5, <1>6 DEF Next, Handling, Handles, Reads

-----------------------------------------------------------------------------
(* The search index *)

\* What the index of a post rests on, for one post.
HeldText(p) == \A w \in Workers : At(w, "loaded") /\ Handled(w).post = p =>
                                    worker[w].read = loadSearchDocumentByPostID(p)
IndexDue(p) == \E e \in pending : /\ log[e].about = <<"post", p>>
                                  /\ \A w \in Workers : At(w, "indexed") => worker[w].event # e

\* The invariant of the index, with its two cases named.
LEMMA IndexParts ==
    IndexInStep <=> \A p \in Posts \ overlapped :
                       HeldText(p) /\ (index[p] = loadSearchDocumentByPostID(p) \/ IndexDue(p))
  BY DEF IndexInStep, HeldText, IndexDue

\* A command announces what it does to the text of a post, in an event no worker has.
LEMMA CommandIndex ==
    ASSUME TypeOK, RowsInStep, WorkersInStep, IndexInStep, Command
    PROVE  IndexInStep'
<1> SUFFICES ASSUME NEW p \in Posts \ overlapped'
             PROVE  /\ HeldText(p)'
                    /\ index'[p] = loadSearchDocumentByPostID(p)' \/ IndexDue(p)'
  BY DEF IndexInStep, HeldText, IndexDue
<1>1. /\ \A e \in DOMAIN log : log'[e] = log[e]
      /\ pending \subseteq pending' /\ \A e \in DOMAIN log' \ DOMAIN log : e \in pending'
      /\ UNCHANGED <<worker, index>>
  BY CommandKeeps
<1>2. /\ pending \subseteq DOMAIN log
      /\ \A w \in Workers : At(w, "loaded") \/ At(w, "indexed") => worker[w].event \in DOMAIN log
  BY DEF TypeOK, WorkersInStep, At
<1>3. CASE post'[p] = post[p] /\ overlapped \subseteq overlapped'
  <2>1. HeldText(p) /\ (index[p] = loadSearchDocumentByPostID(p) \/ IndexDue(p))
    BY <1>3, IndexParts
  <2>2. HeldText(p)'
    BY <1>1, <1>2, <1>3, <2>1 DEF HeldText, At, Handled, loadSearchDocumentByPostID, Published
  <2>3. CASE index[p] = loadSearchDocumentByPostID(p)
    BY <1>1, <1>3, <2>2, <2>3 DEF loadSearchDocumentByPostID, Published
  <2>4. CASE IndexDue(p)
    <3>1. PICK e \in pending : /\ log[e].about = <<"post", p>>
                               /\ \A w \in Workers : At(w, "indexed") => worker[w].event # e
      BY <2>4 DEF IndexDue
    <3>2. e \in pending' /\ log'[e].about = <<"post", p>>
      BY <1>1, <1>2, <3>1
    <3>3. IndexDue(p)'
      BY <1>1, <3>1, <3>2 DEF IndexDue, At
    <3>4. QED
      BY <2>2, <3>3
  <2>5. QED
    BY <2>1, <2>2, <2>3, <2>4
<1>4. CASE PostCommand(p)
  <2> DEFINE n == Len(log) + 1
  <2>0. /\ n \in Nat /\ DOMAIN log' = DOMAIN log \cup {n} /\ log'[n].about = <<"post", p>>
        /\ \A e \in DOMAIN log : e \in Nat /\ e < n
    <3>1. p \in Posts
      OBVIOUS
    <3>2. QED
      BY <1>4, <3>1, PostWritten
  <2>1. n \in DOMAIN log' /\ n \notin DOMAIN log /\ log'[n].about = <<"post", p>>
    BY <2>0
  <2> HIDE DEF n
  <2>2. IndexDue(p)'
    BY <1>1, <1>2, <2>1 DEF IndexDue, At
  <2>3. \A w \in Workers : ~(At(w, "loaded") /\ Handled(w).post = p)
    BY <1>4, PostAlone
  <2>4. HeldText(p)'
    BY <1>1, <1>2, <2>3 DEF HeldText, At, Handled
  <2>5. QED
    BY <2>2, <2>4
<1>5. ASSUME CreateDraftPost(p)
      PROVE  HeldText(p)' /\ (index'[p] = loadSearchDocumentByPostID(p)' \/ IndexDue(p)')
  <2>1. /\ UNCHANGED <<log, pending, worker, index, overlapped>>
        /\ post[p].status = "none" /\ post' = [post EXCEPT ![p] = [status |-> "draft", text |-> 1, date |-> 0]]
    BY <1>5 DEF CreateDraftPost
  <2>2. post'[p].status = "draft"
    BY <2>1 DEF TypeOK
  <2>3. HeldText(p) /\ (index[p] = loadSearchDocumentByPostID(p) \/ IndexDue(p))
    BY <2>1, IndexParts
  <2>4. loadSearchDocumentByPostID(p) = NoText /\ loadSearchDocumentByPostID(p)' = NoText
    BY <2>1, <2>2 DEF loadSearchDocumentByPostID, Published
  <2>5. HeldText(p)'
    BY <2>1, <2>3, <2>4 DEF HeldText, At, Handled
  <2>6. IndexDue(p) => IndexDue(p)'
    BY <2>1 DEF IndexDue, At
  <2>7. QED
    BY <2>1, <2>3, <2>4, <2>5, <2>6
<1>6. ASSUME NEW q \in Posts, PostCommand(q) \/ CreateDraftPost(q), q # p
      PROVE  post'[p] = post[p] /\ overlapped \subseteq overlapped'
  <2>1. CASE PostCommand(q)
    <3>1. \A r \in Posts \ {q} : post'[r] = post[r]
      BY <2>1, PostWritten
    <3>2. overlapped \subseteq overlapped'
      BY <2>1, PostAlone
    <3>3. QED
      BY <1>6, <3>1, <3>2
  <2>2. CASE CreateDraftPost(q)
    BY <1>6, <2>2 DEF CreateDraftPost, TypeOK
  <2>3. QED
    BY <1>6, <2>1, <2>2
<1>7. CASE (\E q \in Posts, c \in Comments : CreateComment(c, q)) \/ (\E c \in Comments : DeleteComment(c))
           \/ (\E q \in Posts, t \in Reaction : React(q, t))
  <2>1. UNCHANGED <<post, overlapped>>
    BY <1>7 DEF CreateComment, DeleteComment, React
  <2>2. QED
    BY <1>3, <2>1
<1>8. QED
  BY <1>3, <1>4, <1>5, <1>6, <1>7 DEF Command, PostCommand

\* A handler writes the text as it is, or leaves the event to another.
LEMMA HandlerIndex ==
    ASSUME TypeOK, EventsInStep, WorkersInStep, IndexInStep, NEW w \in Workers, Handles(w)
    PROVE  IndexInStep'
<1>0. /\ UNCHANGED <<post, comment, reaction, log, overlapped>> /\ pending \subseteq DOMAIN log
      /\ \A p \in Posts : loadSearchDocumentByPostID(p)' = loadSearchDocumentByPostID(p)
  BY RowsStay DEF TypeOK, loadSearchDocumentByPostID, Published
<1>1. \A p \in Posts \ overlapped : HeldText(p) /\ (index[p] = loadSearchDocumentByPostID(p) \/ IndexDue(p))
  BY IndexParts
<1> SUFFICES ASSUME NEW p \in Posts \ overlapped
             PROVE  HeldText(p)' /\ (index'[p] = loadSearchDocumentByPostID(p) \/ IndexDue(p)')
  BY <1>0 DEF IndexInStep, HeldText, IndexDue
<1>2. HeldText(p) /\ (index[p] = loadSearchDocumentByPostID(p) \/ IndexDue(p))
  BY <1>1
<1>3. ASSUME NEW v \in Workers, v # w
      PROVE  worker'[v] = worker[v]
  BY <1>3
     DEF Handles, UpsertPost, RankPostChanged, SaveNotification, HandlerFails, Load,
         DeleteFromIndex,
              RankActivityChanged, FindNotification, TypeOK
<1>4. CASE UpsertPost(w)
  <2> DEFINE q == Handled(w).post
  <2>1. /\ worker' = [worker EXCEPT ![w] = [event |-> worker[w].event, at |-> "indexed", read |-> 0]]
        /\ index' = [index EXCEPT ![q] = worker[w].read] /\ pending' = pending /\ At(w, "loaded")
    BY <1>4 DEF UpsertPost, UpsertSearchDocument
  <2>2. worker'[w].at = "indexed" /\ worker'[w].event = worker[w].event
    BY <2>1 DEF TypeOK
  <2>3. HeldText(p)'
    BY <1>0, <1>2, <1>3, <2>2 DEF HeldText, At, Handled
  <2>4. CASE p = q
    <3>1. worker[w].read = loadSearchDocumentByPostID(p)
      BY <1>2, <2>1, <2>4 DEF HeldText
    <3>2. index'[p] = worker[w].read
      BY <2>1, <2>4 DEF TypeOK
    <3>3. QED
      BY <2>3, <3>1, <3>2
  <2>5. CASE p # q
    <3>1. index'[p] = index[p]
      BY <2>1, <2>5 DEF TypeOK
    <3>2. IndexDue(p) => IndexDue(p)'
      <4>1. log[worker[w].event].about # <<"post", p>>
        BY <2>1, <2>5 DEF WorkersInStep, EventsInStep, At, Handled
      <4>2. QED
        BY <1>0, <1>3, <2>1, <2>2, <4>1 DEF IndexDue, At
    <3>3. QED
      BY <1>2, <2>3, <3>1, <3>2
  <2>6. QED
    BY <2>4, <2>5
<1>5. ASSUME NEW e \in pending, DeleteFromIndex(w, e)
      PROVE  HeldText(p)' /\ (index'[p] = loadSearchDocumentByPostID(p) \/ IndexDue(p)')
  <2> DEFINE q == log[e].post
  <2>1. /\ worker' = [worker EXCEPT ![w] = [event |-> e, at |-> "indexed", read |-> 0]]
        /\ index' = [index EXCEPT ![q] = NoText] /\ pending' = pending
        /\ log[e].about[1] = "post" /\ log[e].op = "deleted"
    BY <1>5 DEF DeleteFromIndex
  <2>2. worker'[w].at = "indexed" /\ worker'[w].event = e
    BY <2>1 DEF TypeOK
  <2>3. HeldText(p)'
    BY <1>0, <1>2, <1>3, <2>2 DEF HeldText, At, Handled
  <2>4. log[e].about = <<"post", q>> /\ post[q].status = "deleted"
    BY <1>0, <2>1 DEF EventsInStep
  <2>5. CASE p = q
    <3>1. index'[p] = NoText /\ loadSearchDocumentByPostID(p) = NoText
      BY <2>1, <2>4, <2>5 DEF TypeOK, loadSearchDocumentByPostID, Published
    <3>2. QED
      BY <2>3, <3>1
  <2>6. CASE p # q
    <3>1. index'[p] = index[p]
      BY <2>1, <2>6 DEF TypeOK
    <3>2. IndexDue(p) => IndexDue(p)'
      BY <1>0, <1>3, <2>1, <2>2, <2>4, <2>6 DEF IndexDue, At
    <3>3. QED
      BY <1>2, <2>3, <3>1, <3>2
  <2>7. QED
    BY <2>5, <2>6
<1>6. ASSUME NEW e \in pending, Load(w, e)
      PROVE  HeldText(p)' /\ (index'[p] = loadSearchDocumentByPostID(p) \/ IndexDue(p)')
  <2>1. /\ worker' = [worker EXCEPT ![w] =
                        [event |-> e, at |-> "loaded", read |-> loadSearchDocumentByPostID(log[e].post)]]
        /\ UNCHANGED <<index, pending>> /\ At(w, "idle")
    BY <1>6 DEF Load
  <2>2. worker'[w].at = "loaded" /\ worker'[w].event = e /\ worker'[w].read = loadSearchDocumentByPostID(log[e].post)
    BY <2>1 DEF TypeOK
  <2>3. HeldText(p)'
    BY <1>0, <1>2, <1>3, <2>2 DEF HeldText, At, Handled
  <2>4. IndexDue(p) => IndexDue(p)'
    BY <1>0, <1>3, <2>1, <2>2 DEF IndexDue, At
  <2>5. QED
    BY <1>2, <2>1, <2>3, <2>4
<1>7. ASSUME UNCHANGED index, worker'[w] = worker[w] \/ worker'[w].at \in {"idle", "missing"},
             \A e \in pending \ pending' : log[e].about = <<"post", p>> => At(w, "indexed") /\ worker[w].event = e
      PROVE  HeldText(p)' /\ (index'[p] = loadSearchDocumentByPostID(p) \/ IndexDue(p)')
  <2>1. HeldText(p)'
    BY <1>0, <1>2, <1>3, <1>7 DEF HeldText, At, Handled
  <2>2. IndexDue(p) => IndexDue(p)'
    <3>1. SUFFICES ASSUME IndexDue(p) PROVE IndexDue(p)'
      OBVIOUS
    <3>2. PICK e \in pending : /\ log[e].about = <<"post", p>>
                               /\ \A v \in Workers : At(v, "indexed") => worker[v].event # e
      BY <3>1 DEF IndexDue
    <3>3. e \in pending'
      BY <1>7, <3>2
    <3>4. \A v \in Workers : At(v, "indexed")' => worker'[v].event # e
      BY <1>3, <1>7, <3>2 DEF At
    <3>5. QED
      BY <1>0, <3>2, <3>3, <3>4 DEF IndexDue
  <2>3. QED
    BY <1>2, <1>7, <2>1, <2>2
<1>8. CASE RankPostChanged(w)
  <2>1. /\ worker'[w] = Idle /\ UNCHANGED index /\ At(w, "indexed") /\ Mark(worker[w].event)
    BY <1>8 DEF RankPostChanged, Ranked, TypeOK
  <2>2. QED
    BY <1>7, <2>1, Marked DEF Idle
<1>9. CASE SaveNotification(w)
  <2>1. /\ worker'[w] = Idle /\ UNCHANGED index /\ At(w, "missing")
        /\ UNCHANGED pending \/ Mark(worker[w].event)
    BY <1>9 DEF SaveNotification, TypeOK
  <2>2. log[worker[w].event].about # <<"post", p>>
    BY <2>1 DEF WorkersInStep, EventsInStep, At, Handled
  <2>3. QED
    BY <1>7, <2>1, <2>2, Marked DEF Idle
<1>10. CASE HandlerFails(w)
  BY <1>7, <1>10 DEF HandlerFails, TypeOK, Idle
<1>11. ASSUME NEW e \in pending, RankActivityChanged(w, e)
       PROVE  HeldText(p)' /\ (index'[p] = loadSearchDocumentByPostID(p) \/ IndexDue(p)')
  <2>1. UNCHANGED <<index, worker>> /\ Mark(e) /\ log[e].about[1] # "post"
    BY <1>0, <1>11 DEF RankActivityChanged, Ranked, EventsInStep
  <2>2. QED
    BY <1>7, <2>1, Marked
<1>12. ASSUME NEW e \in pending, FindNotification(w, e)
       PROVE  HeldText(p)' /\ (index'[p] = loadSearchDocumentByPostID(p) \/ IndexDue(p)')
  <2>1. UNCHANGED index /\ log[e].about[1] # "post"
    BY <1>0, <1>12 DEF FindNotification, EventsInStep
  <2>2. (Mark(e) /\ UNCHANGED worker) \/ (UNCHANGED pending /\ worker'[w].at = "missing")
    BY <1>12 DEF FindNotification, TypeOK
  <2>3. QED
    BY <1>7, <2>1, <2>2, Marked
<1>13. QED
  BY <1>4, <1>5, <1>6, <1>8, <1>9, <1>10, <1>11, <1>12 DEF Handles

\* The index is what is due makes of it; a restart builds it anew.
LEMMA IndexInv ==
    ASSUME TypeOK, RowsInStep, EventsInStep, WorkersInStep, IndexInStep, [Next]_vars
    PROVE  IndexInStep'
<1>1. CASE Restart
  <2>1. /\ UNCHANGED <<post, log, overlapped>> /\ index' = RebuildAll /\ \A w \in Workers : worker'[w] = Idle
    BY <1>1 DEF Restart, db
  <2>2. \A p \in Posts : index'[p] = loadSearchDocumentByPostID(p)'
    BY <2>1 DEF RebuildAll, loadSearchDocumentByPostID, Published
  <2>3. QED
    BY <2>1, <2>2 DEF IndexInStep, At, Idle
<1>2. CASE Reads
  <2>1. UNCHANGED <<post, log, overlapped, pending, worker, index>>
    BY <1>2, RowsStay, ReadsKeep
  <2>2. \A p \in Posts : /\ loadSearchDocumentByPostID(p)' = loadSearchDocumentByPostID(p)
                         /\ HeldText(p) => HeldText(p)'
                         /\ IndexDue(p) => IndexDue(p)'
    BY <2>1 DEF HeldText, IndexDue, At, Handled, loadSearchDocumentByPostID, Published
  <2>3. SUFFICES ASSUME NEW p \in Posts \ overlapped
                 PROVE  HeldText(p)' /\ (index'[p] = loadSearchDocumentByPostID(p)' \/ IndexDue(p)')
    BY <2>1 DEF IndexInStep, HeldText, IndexDue
  <2>4. QED
    BY <2>1, <2>2, IndexParts
<1>3. QED
  BY <1>1, <1>2, CommandIndex, HandlerIndex DEF Next, Handling, Handles, Reads

-----------------------------------------------------------------------------
(* The inbox *)

\* A notification is one of an event, whether it is read or not.
OfEvent(e) == \E n \in inbox : n.event = e

\* What findExisting looks for.
LEMMA ExistingOf == \A e : findExisting(e) # {} <=> OfEvent(e)
  BY DEF findExisting, OfEvent

\* The invariant of the inbox, likewise.
LEMMA InboxParts ==
    InboxInStep <=> /\ \A m, n \in inbox : m.event = n.event => m = n
                    /\ \A e \in DOMAIN log : log[e].op = "notify" => e \in pending \/ OfEvent(e)
  BY DEF InboxInStep, findExisting, OfEvent

\* An insert follows a look, and dedup_key refuses the second: the inbox stays in step.
LEMMA InboxInv ==
    ASSUME TypeOK, RowsInStep, EventsInStep, WorkersInStep, InboxInStep, [Next]_vars
    PROVE  InboxInStep'
<1>0. /\ \A m, n \in inbox : m.event = n.event => m = n
      /\ \A e \in DOMAIN log : log[e].op = "notify" => e \in pending \/ OfEvent(e)
      /\ pending \subseteq DOMAIN log
  BY InboxParts DEF TypeOK
<1>1. CASE Command
  <2>1. /\ \A e \in DOMAIN log : log'[e] = log[e]
        /\ pending \subseteq pending' /\ \A e \in DOMAIN log' \ DOMAIN log : e \in pending'
        /\ UNCHANGED inbox
    BY <1>1, CommandKeeps
  <2>2. \A e \in DOMAIN log : OfEvent(e) => OfEvent(e)'
    BY <2>1 DEF OfEvent
  <2>3. \A e \in DOMAIN log' : log'[e].op = "notify" => e \in pending' \/ OfEvent(e)'
    BY <1>0, <2>1, <2>2
  <2>4. QED
    BY <1>0, <2>1, <2>3 DEF InboxInStep, findExisting, OfEvent
<1>2. ASSUME UNCHANGED log,
             \A m, n \in inbox' : m.event = n.event => m = n,
             \A e \in DOMAIN log : OfEvent(e) => OfEvent(e)',
             \A e \in pending \ pending' : log[e].op = "notify" => OfEvent(e)'
      PROVE  InboxInStep'
  <2>1. \A e \in DOMAIN log : log[e].op = "notify" => e \in pending' \/ OfEvent(e)'
    BY <1>0, <1>2
  <2>2. QED
    BY <1>2, <2>1 DEF InboxInStep, findExisting, OfEvent
<1>3. ASSUME NEW w \in Workers, Handles(w)
      PROVE  InboxInStep'
  <2>0. UNCHANGED log
    BY <1>3, RowsStay
  <2>1. CASE UNCHANGED inbox /\ \A e \in pending \ pending' : log[e].op = "notify" => OfEvent(e)
    <3>1. \A e \in DOMAIN log : OfEvent(e) => OfEvent(e)'
      BY <2>1 DEF OfEvent
    <3>2. QED
      BY <1>0, <1>2, <2>0, <2>1, <3>1
  <2>2. CASE UpsertPost(w) \/ HandlerFails(w) \/ \E e \in pending : Load(w, e) \/ DeleteFromIndex(w, e)
    BY <2>1, <2>2 DEF UpsertPost, HandlerFails, Load, DeleteFromIndex
  <2>3. CASE RankPostChanged(w)
    <3>1. UNCHANGED inbox /\ Mark(worker[w].event) /\ log[worker[w].event].op # "notify"
      BY <2>3 DEF RankPostChanged, Ranked, WorkersInStep, EventsInStep, At, Handled
    <3>2. QED
      BY <2>1, <3>1, Marked
  <2>4. ASSUME NEW e \in pending, RankActivityChanged(w, e)
        PROVE  InboxInStep'
    <3>1. UNCHANGED inbox /\ Mark(e) /\ log[e].op # "notify"
      BY <2>4 DEF RankActivityChanged, Ranked
    <3>2. QED
      BY <2>1, <3>1, Marked
  <2>5. ASSUME NEW e \in pending, FindNotification(w, e)
        PROVE  InboxInStep'
    <3>1. UNCHANGED inbox /\ (UNCHANGED pending \/ (Mark(e) /\ OfEvent(e)))
      BY <2>5, ExistingOf DEF FindNotification
    <3>2. QED
      BY <2>1, <3>1, Marked
  <2>6. CASE SaveNotification(w)
    <3>0. PICK e : e = worker[w].event
      OBVIOUS
    <3>1. CASE UNCHANGED <<inbox, pending>>
      BY <2>1, <3>1
    <3>2. CASE InsertNotification(e) /\ Mark(e)
      <4>0. PICK n : n = [event |-> e, read |-> FALSE]
        OBVIOUS
      <4>1. ~OfEvent(e) /\ inbox' = inbox \cup {n} /\ n.event = e
        BY <3>2, <4>0, ExistingOf DEF InsertNotification
      <4>2. \A k, m \in inbox' : k.event = m.event => k = m
        BY <1>0, <4>1 DEF OfEvent
      <4>3. (\A f \in DOMAIN log : OfEvent(f) => OfEvent(f)') /\ OfEvent(e)'
        BY <4>1 DEF OfEvent
      <4>4. QED
        BY <1>2, <2>0, <3>2, <4>2, <4>3, Marked
    <3>3. QED
      BY <2>6, <3>0, <3>1, <3>2 DEF SaveNotification
  <2>7. QED
    BY <1>3, <2>2, <2>3, <2>4, <2>5, <2>6 DEF Handles
<1>4. CASE Restart \/ UNCHANGED vars
  <2>1. UNCHANGED <<log, inbox, pending>>
    BY <1>4 DEF Restart, db, vars
  <2>2. QED
    BY <2>1 DEF InboxInStep, findExisting
<1>5. ASSUME NEW n \in inbox, MarkMyNotificationRead(n)
      PROVE  InboxInStep'
  <2> DEFINE k == [n EXCEPT !.read = TRUE]
  <2>1. /\ inbox' = (inbox \ {n}) \cup {k} /\ UNCHANGED <<log, pending>> /\ k.event = n.event
    BY <1>5, ReadTyped DEF MarkMyNotificationRead, db
  <2> HIDE DEF k
  <2>2. \A m, l \in inbox' : m.event = l.event => m = l
    BY <1>0, <2>1
  <2>3. \A e \in DOMAIN log : OfEvent(e) => OfEvent(e)'
    BY <2>1 DEF OfEvent
  <2>4. QED
    BY <1>2, <2>1, <2>2, <2>3
<1>6. CASE MarkAllMyNotificationsRead
  <2> DEFINE Now(n) == [n EXCEPT !.read = TRUE]
  <2>1. /\ inbox' = {Now(n) : n \in inbox} /\ UNCHANGED <<log, pending>>
    BY <1>6 DEF MarkAllMyNotificationsRead, db
  <2>2. \A n \in inbox : Now(n).event = n.event
    BY ReadTyped
  <2> HIDE DEF Now
  <2>3. \A m, l \in inbox' : m.event = l.event => m = l
    BY <1>0, <2>1, <2>2
  <2>4. \A e \in DOMAIN log : OfEvent(e) => OfEvent(e)'
    BY <2>1, <2>2 DEF OfEvent
  <2>5. QED
    BY <1>2, <2>1, <2>3, <2>4
<1>7. QED
  BY <1>1, <1>3, <1>4, <1>5, <1>6 DEF Next, Handling, Handles

-----------------------------------------------------------------------------
(* The ranking: posts and their dates *)

\* An event that brings a post a date.
DateDue(p) == \E e \in pending : log[e].about = <<"post", p>> /\ log[e].date > 0

\* A published post is ranked with its date, or the event that brings the date is due.
LEMMA RankedOrDueInv ==
    ASSUME TypeOK, RowsInStep, EventsInStep, WorkersInStep, RankedOrDue, [Next]_vars
    PROVE  RankedOrDue'
<1>0. \A p \in Posts : Published(p) => (rank[p].known /\ rank[p].date > 0) \/ DateDue(p)
  BY DEF RankedOrDue, DateDue
<1>1. pending \subseteq DOMAIN log
  BY DEF TypeOK
<1> SUFFICES ASSUME NEW p \in Posts, post'[p].status = "published"
             PROVE  (rank'[p].known /\ rank'[p].date > 0) \/ DateDue(p)'
  BY DEF RankedOrDue, DateDue, Published
<1>2. CASE Command
  <2>1. /\ \A e \in DOMAIN log : log'[e] = log[e]
        /\ pending \subseteq pending' /\ UNCHANGED rank
    BY <1>2, CommandKeeps
  <2>2. DateDue(p) => DateDue(p)'
    BY <1>1, <2>1 DEF DateDue
  <2>3. CASE PostCommand(p)
    <3> DEFINE n == Len(log) + 1
    <3>0. pending' = pending \cup {n} /\ log'[n].about = <<"post", p>> /\ log'[n].date = post'[p].date
      BY <2>3, PostWritten
    <3> HIDE DEF n
    <3>1. n \in pending'
      BY <3>0
    <3>2. post'[p].date > 0
      BY <1>2, CommandRows
    <3>3. QED
      BY <3>0, <3>1, <3>2 DEF DateDue
  <2>4. CASE post'[p] = post[p]
    BY <1>0, <2>1, <2>2, <2>4 DEF Published
  <2>5. ASSUME NEW q \in Posts, PostCommand(q), q # p
        PROVE  post'[p] = post[p]
    <3>1. \A r \in Posts \ {q} : post'[r] = post[r]
      BY <2>5, PostWritten
    <3>2. QED
      BY <2>5, <3>1
  <2>6. ASSUME NEW q \in Posts, CreateDraftPost(q)
        PROVE  post'[p] = post[p]
    BY <2>6 DEF CreateDraftPost, TypeOK
  <2>7. CASE (\E q \in Posts, c \in Comments : CreateComment(c, q)) \/ (\E c \in Comments : DeleteComment(c))
             \/ (\E q \in Posts, t \in Reaction : React(q, t))
    <3>1. UNCHANGED post
      BY <2>7 DEF CreateComment, DeleteComment, React
    <3>2. QED
      BY <2>4, <3>1
  <2>8. QED
    BY <1>2, <2>3, <2>4, <2>5, <2>6, <2>7 DEF Command, PostCommand
<1>3. ASSUME NEW w \in Workers, Handles(w)
      PROVE  (rank'[p].known /\ rank'[p].date > 0) \/ DateDue(p)'
  <2>0. UNCHANGED <<post, log>>
    BY <1>3, RowsStay
  <2>1. (rank[p].known /\ rank[p].date > 0) \/ DateDue(p)
    BY <1>0, <2>0 DEF Published
  <2>2. CASE /\ UNCHANGED <<rank, commentStates, reactionStates, disordered>>
             /\ \A e \in pending \ pending' : log[e].op = "notify"
    <3>1. \A e \in pending : log[e].about = <<"post", p>> => e \in pending'
      BY <1>1, <2>2 DEF EventsInStep
    <3>2. DateDue(p) => DateDue(p)'
      BY <2>0, <3>1 DEF DateDue
    <3>3. QED
      BY <2>1, <2>2, <3>2
  <2>3. ASSUME NEW e \in DOMAIN log, Ranks(e), pending \ {e} \subseteq pending'
        PROVE  (rank'[p].known /\ rank'[p].date > 0) \/ DateDue(p)'
    <3>1. CASE log[e].about # <<"post", p>>
      <4>1. (rank'[p].known <=> rank[p].known) /\ rank'[p].date = rank[p].date
        BY <2>3, <3>1, RankedDates
      <4>2. DateDue(p) => DateDue(p)'
        BY <2>0, <2>3, <3>1 DEF DateDue
      <4>3. QED
        BY <2>1, <4>1, <4>2
    <3>2. CASE log[e].about = <<"post", p>>
      <4>1. /\ rank'[p].known /\ rank'[p].date = IF log[e].date = 0 THEN rank[p].date ELSE log[e].date
        <5>1. post[p].status # "deleted"
          BY <2>0
        <5>2. QED
          BY <2>3, <3>2, <5>1, RankedDates
      <4>2. log[e].date \in Nat
        BY EventTyped, ProjectionsAssumption
      <4>3. CASE log[e].date > 0
        BY <4>1, <4>3
      <4>4. CASE log[e].date = 0
        <5>1. DateDue(p) => DateDue(p)'
          BY <2>0, <2>3, <4>4 DEF DateDue
        <5>2. QED
          BY <2>1, <4>1, <4>4, <5>1
      <4>5. QED
        BY <4>2, <4>3, <4>4
    <3>3. QED
      BY <3>1, <3>2
  <2>4. QED
    BY <1>3, <2>2, <2>3, HandlerRanks
<1>4. CASE Restart
  <2>1. UNCHANGED post
    BY <1>4, RowsStay
  <2>2. Published(p) /\ post[p].date > 0
    BY <2>1 DEF RowsInStep, Published
  <2>3. QED
    BY <1>4, <2>2, Seeded DEF Restart
<1>5. CASE Reads
  <2>1. UNCHANGED <<post, log, pending, rank>>
    BY <1>5, RowsStay, ReadsKeep
  <2>2. QED
    BY <1>0, <2>1 DEF Published, DateDue
<1>6. QED
  BY <1>2, <1>3, <1>4, <1>5 DEF Next, Handling, Handles, Reads

-----------------------------------------------------------------------------
(* The ranking: scores *)

Counted(p) == {c \in Comments : comment[c].post = p /\ commentStates[c] # 0}

\* Sets of comments are finite.
LEMMA CountedFinite ==
    ASSUME NEW S, S \subseteq Comments
    PROVE  IsFiniteSet(S) /\ Cardinality(S) \in Nat
<1>1. 1 \in Int /\ MaxComments \in Int
  BY ProjectionsAssumption
<1>2. IsFiniteSet(1..MaxComments)
  BY <1>1, FS_Interval, Zenon
<1>3. IsFiniteSet(S)
  BY <1>2, FS_Subset DEF Comments
<1>4. QED
  BY <1>3, FS_CardinalityType

\* A score that is given, taken back or given again counts once.
LEMMA CountMoves ==
    ASSUME TypeOK, NEW c \in Comments, NEW s \in {0, CommentScore}, UNCHANGED comment,
           commentStates' = [commentStates EXCEPT ![c] = s], NEW p, p = comment[c].post
    PROVE  CommentScore * Cardinality(Counted(p)') =
             CommentScore * Cardinality(Counted(p)) + s - commentStates[c]
<1>1. /\ Counted(p) \subseteq Comments /\ IsFiniteSet(Counted(p)) /\ Cardinality(Counted(p)) \in Nat
      /\ IsFiniteSet(Counted(p)') /\ Cardinality(Counted(p)') \in Nat
  BY CountedFinite DEF Counted
<1>2. /\ commentStates'[c] = s /\ commentStates[c] \in {0, CommentScore}
      /\ \A d \in Comments \ {c} : commentStates'[d] = commentStates[d]
      /\ CommentScore = 2
  BY DEF TypeOK, CommentScore
<1>3. CASE (s = 0 /\ commentStates[c] = 0) \/ (s # 0 /\ commentStates[c] # 0)
  <2>1. Counted(p)' = Counted(p)
    BY <1>2, <1>3 DEF Counted
  <2>2. s = commentStates[c]
    BY <1>2, <1>3
  <2>3. QED
    BY <1>1, <1>2, <2>1, <2>2
<1>4. CASE s # 0 /\ commentStates[c] = 0
  <2>1. Counted(p)' = Counted(p) \cup {c} /\ c \notin Counted(p)
    BY <1>2, <1>4 DEF Counted
  <2>2. Cardinality(Counted(p)') = Cardinality(Counted(p)) + 1
    BY <1>1, <2>1, FS_AddElement
  <2>3. QED
    BY <1>1, <1>2, <1>4, <2>2
<1>5. CASE s = 0 /\ commentStates[c] # 0
  <2>1. Counted(p)' = Counted(p) \ {c} /\ c \in Counted(p)
    BY <1>2, <1>5 DEF Counted
  <2>2. Cardinality(Counted(p)') = Cardinality(Counted(p)) - 1
    BY <1>1, <2>1, FS_RemoveElement
  <2>3. QED
    BY <1>1, <1>2, <1>5, <2>2
<1>6. QED
  BY <1>3, <1>4, <1>5

\* What an event of a comment moves is on the post it names.
LEMMA ScoresInv ==
    ASSUME TypeOK, RowsInStep, EventsInStep, WorkersInStep, ScoresAddUp, [Next]_vars
    PROVE  ScoresAddUp'
<1>0. \A p \in Posts : post[p].status # "deleted" =>
         /\ rank[p].comments = CommentScore * Cardinality(Counted(p))
         /\ rank[p].reactions = Weight(reactionStates[p])
  BY DEF ScoresAddUp, Counted
<1> SUFFICES ASSUME NEW p \in Posts, post'[p].status # "deleted"
             PROVE  /\ rank'[p].comments = CommentScore * Cardinality(Counted(p)')
                    /\ rank'[p].reactions = Weight(reactionStates'[p])
  BY DEF ScoresAddUp, Counted, Weight
<1>1. post[p].status # "deleted"
  <2>1. CASE Command
    BY <2>1, CommandRows
  <2>2. CASE UNCHANGED post
    BY <2>2
  <2>3. QED
    BY <2>1, <2>2, RowsStay DEF Next, Handling, Handles, Reads
<1>2. /\ rank[p].comments = CommentScore * Cardinality(Counted(p))
      /\ rank[p].reactions = Weight(reactionStates[p])
  BY <1>0, <1>1
<1>3. CASE Command
  <2>1. UNCHANGED <<rank, commentStates, reactionStates>>
    BY <1>3, CommandKeeps
  <2>2. Counted(p)' = Counted(p)
    <3>1. ASSUME NEW c \in Comments
          PROVE  comment'[c].post = p /\ commentStates[c] # 0 <=> comment[c].post = p /\ commentStates[c] # 0
      <4>1. commentStates[c] # 0 => comment[c].status # "none"
        BY DEF RowsInStep
      <4>2. comment[c].status # "none" => comment'[c].post = comment[c].post
        BY <1>3, CommandComments
      <4>3. QED
        BY <4>1, <4>2
    <3>2. QED
      BY <2>1, <3>1 DEF Counted
  <2>3. QED
    BY <1>2, <2>1, <2>2
<1>4. ASSUME NEW e \in DOMAIN log, Ranks(e), UNCHANGED comment
      PROVE  /\ rank'[p].comments = CommentScore * Cardinality(Counted(p)')
             /\ rank'[p].reactions = Weight(reactionStates'[p])
  <2>0. log[e].post \in Posts
    BY EventTyped
  <2>1. CASE log[e].about[1] = "post"
    <3>1. RankPost(log[e]) /\ (log[e].op = "deleted" => log[e].post # p)
      BY <1>1, <1>4, <2>1 DEF Ranks, EventsInStep
    <3>2. /\ rank'[p].comments = rank[p].comments /\ rank'[p].reactions = rank[p].reactions
          /\ UNCHANGED <<commentStates, reactionStates>>
      BY <2>0, <3>1, PostRanked
    <3>3. Counted(p)' = Counted(p)
      BY <1>4, <3>2 DEF Counted
    <3>4. QED
      BY <1>2, <3>2, <3>3
  <2>2. CASE log[e].about[1] # "post"
    <3>1. RankActivity(log[e])
      BY <1>4, <2>2 DEF Ranks
    <3>2. CASE UNCHANGED <<rank, commentStates, reactionStates>>
      <4>1. Counted(p)' = Counted(p)
        BY <1>4, <3>2 DEF Counted
      <4>2. QED
        BY <1>2, <3>2, <4>1
    <3>3. ASSUME NEW c \in Comments, log[e].about = <<"comment", c>>,
                 commentStates' = [commentStates EXCEPT ![c] = Score(e)],
                 rank'[log[e].post].comments = rank[log[e].post].comments + Score(e) - commentStates[c],
                 rank'[log[e].post].reactions = rank[log[e].post].reactions,
                 \A q \in Posts \ {log[e].post} : rank'[q] = rank[q], UNCHANGED reactionStates
          PROVE  /\ rank'[p].comments = CommentScore * Cardinality(Counted(p)')
                 /\ rank'[p].reactions = Weight(reactionStates'[p])
      <4>1. comment[c].post = log[e].post
        BY <3>3 DEF EventsInStep
      <4>2. Score(e) \in {0, CommentScore}
        BY DEF Score
      <4>3. CASE p = log[e].post
        <5>1. CommentScore * Cardinality(Counted(p)') = CommentScore * Cardinality(Counted(p)) + Score(e) - commentStates[c]
          BY <1>4, <3>3, <4>1, <4>2, <4>3, CountMoves
        <5>2. QED
          BY <1>2, <3>3, <4>3, <5>1
      <4>4. CASE p # log[e].post
        <5>1. Counted(p)' = Counted(p)
          BY <1>4, <3>3, <4>1, <4>4 DEF Counted, TypeOK
        <5>2. QED
          BY <1>2, <3>3, <4>4, <5>1
      <4>5. QED
        BY <4>3, <4>4
    <3>4. ASSUME reactionStates' = [reactionStates EXCEPT ![log[e].post] = Left(e)],
                 rank'[log[e].post].reactions =
                   rank[log[e].post].reactions + Weight(Left(e)) - Weight(reactionStates[log[e].post]),
                 rank'[log[e].post].comments = rank[log[e].post].comments,
                 \A q \in Posts \ {log[e].post} : rank'[q] = rank[q], UNCHANGED commentStates
          PROVE  /\ rank'[p].comments = CommentScore * Cardinality(Counted(p)')
                 /\ rank'[p].reactions = Weight(reactionStates'[p])
      <4>1. Counted(p)' = Counted(p)
        BY <1>4, <3>4 DEF Counted
      <4>2. CASE p = log[e].post
        <5>1. Left(e) \in Reaction /\ reactionStates[p] \in Reaction
          BY EventTyped DEF Left, Reaction, TypeOK
        <5>2. Weight(Left(e)) \in Int /\ Weight(reactionStates[p]) \in Int
          BY <5>1, WeightTyped
        <5>3. rank'[p].reactions = Weight(Left(e))
          BY <1>2, <3>4, <4>2, <5>2
        <5>4. reactionStates'[p] = Left(e)
          BY <3>4, <4>2 DEF TypeOK
        <5>5. QED
          BY <1>2, <3>4, <4>1, <4>2, <5>3, <5>4
      <4>3. CASE p # log[e].post
        <5>1. reactionStates'[p] = reactionStates[p] /\ rank'[p] = rank[p]
          BY <3>4, <4>3 DEF TypeOK
        <5>2. QED
          BY <1>2, <4>1, <5>1
      <4>4. QED
        BY <4>2, <4>3
    <3>5. log[e].about[1] = "comment" =>
            log[e].about[2] \in Comments /\ log[e].about = <<"comment", log[e].about[2]>>
      BY EventTyped
    <3>6. QED
      BY <3>1, <3>2, <3>3, <3>4, <3>5, ActivityRanked
  <2>3. QED
    BY <2>1, <2>2
<1>5. ASSUME UNCHANGED <<comment, rank, commentStates, reactionStates>>
      PROVE  /\ rank'[p].comments = CommentScore * Cardinality(Counted(p)')
             /\ rank'[p].reactions = Weight(reactionStates'[p])
  <2>1. Counted(p)' = Counted(p)
    BY <1>5 DEF Counted
  <2>2. QED
    BY <1>2, <1>5, <2>1
<1>6. ASSUME NEW w \in Workers, Handles(w)
      PROVE  /\ rank'[p].comments = CommentScore * Cardinality(Counted(p)')
             /\ rank'[p].reactions = Weight(reactionStates'[p])
  BY <1>4, <1>5, <1>6, HandlerRanks, RowsStay
<1>7. CASE Restart
  <2>1. /\ commentStates' = [c \in Comments |-> 0] /\ reactionStates' = [q \in Posts |-> "none"]
        /\ rank' = seedPostRankingSnapshots
    BY <1>7 DEF Restart
  <2>2. Counted(p)' = {}
    BY <2>1 DEF Counted
  <2>3. rank'[p].comments = 0 /\ rank'[p].reactions = 0
    BY <2>1, Seeded
  <2>4. Cardinality(Counted(p)') = 0 /\ Weight(reactionStates'[p]) = 0
    BY <2>1, <2>2, FS_EmptySet DEF Weight
  <2>5. QED
    BY <2>3, <2>4 DEF CommentScore
<1>8. CASE Reads
  BY <1>5, <1>8, RowsStay, ReadsKeep
<1>9. QED
  BY <1>3, <1>6, <1>7, <1>8 DEF Next, Handling, Handles, Reads

-----------------------------------------------------------------------------
(* The last word on a subject *)

\* What a subject is.
LEMMA SubjectKinds ==
    ASSUME NEW s \in Subjects
    PROVE  /\ s[1] \in {"post", "comment", "reaction"} /\ s = <<s[1], s[2]>>
           /\ s[1] = "comment" => s[2] \in Comments
           /\ s[1] # "comment" => s[2] \in Posts
  BY DEF Subjects

\* The rows of a subject say what they said.
RowStays(s) ==
    /\ s[1] = "post" => post'[s[2]].date = post[s[2]].date
    /\ s[1] = "comment" => Active(s[2])' = Active(s[2])
    /\ s[1] = "reaction" => reaction'[s[2]] = reaction[s[2]]

\* A command on what goes on being live announces it last, or leaves it as it was.
LastWord(s, n) ==
    /\ n \in DOMAIN log' \ DOMAIN log /\ log'[n].about = s /\ log'[n].op # "notify"
    /\ \A f \in DOMAIN log' : f <= n

Untouched(s) ==
    Live(s) /\ RowStays(s) /\ \A e \in DOMAIN log' \ DOMAIN log : log'[e].about # s

\* A command on a post has the last word on every subject whose rows it changes.
LEMMA PostSubjects ==
    ASSUME TypeOK, RowsInStep, NEW p \in Posts, PostCommand(p), NEW s \in Subjects, Live(s)'
    PROVE  \/ Untouched(s)
           \/ \E n : LastWord(s, n) /\ Tells(n, s)'
<1>0. PICK n : n = Len(log) + 1
  OBVIOUS
<1>1. /\ \A q \in Posts \ {p} : post'[q] = post[q]
      /\ post[p].status # "deleted"
      /\ n \in Nat /\ DOMAIN log' = DOMAIN log \cup {n}
      /\ \A e \in DOMAIN log : e \in Nat /\ e < n /\ log'[e] = log[e]
      /\ log'[n].about = <<"post", p>> /\ log'[n].date = post'[p].date
      /\ log'[n].op = IF post'[p].status = "deleted" THEN "deleted" ELSE "changed"
  BY <1>0, PostWritten, ZenonT(60)
<1>2. /\ \A c \in Comments : /\ comment'[c].post = comment[c].post
                             /\ comment'[c].status = "none" <=> comment[c].status = "none"
                             /\ \/ comment'[c] = comment[c]
                                \/ comment[c].post = p /\ post'[p].status = "deleted"
      /\ \A q \in Posts \ {p} : reaction'[q] = reaction[q]
      /\ post'[p].status # "deleted" => reaction'[p] = reaction[p]
  BY PostAlone
<1>3. /\ s[1] \in {"post", "comment", "reaction"} /\ s = <<s[1], s[2]>>
      /\ s[1] = "comment" => s[2] \in Comments
      /\ s[1] # "comment" => s[2] \in Posts
  BY SubjectKinds
<1>4. CASE s = <<"post", p>>
  <2>1. post'[p].status = "published"
    BY <1>4 DEF Live, Published
  <2>2. LastWord(s, n)
    <3>1. n \in DOMAIN log' \ DOMAIN log /\ \A f \in DOMAIN log' : f <= n
      BY <1>1
    <3>2. QED
      BY <1>1, <1>4, <2>1, <3>1 DEF LastWord
  <2>3. Tells(n, s)'
    BY <1>1, <1>4, <2>1 DEF Tells
  <2>4. QED
    BY <2>2, <2>3
<1>5. CASE s # <<"post", p>>
  <2>1. \A e \in DOMAIN log' \ DOMAIN log : log'[e].about # s
    BY <1>1, <1>5
  <2>2. CASE s[1] = "post"
    <3>1. s[2] \in Posts \ {p}
      BY <1>3, <1>5, <2>2
    <3>2. Live(s) /\ RowStays(s)
      BY <1>1, <2>2, <3>1 DEF Live, RowStays, Published
    <3>3. QED
      BY <2>1, <3>2 DEF Untouched
  <2>3. CASE s[1] = "comment"
    <3>1. s[2] \in Comments /\ comment'[s[2]].status # "none" /\ post'[comment'[s[2]].post].status # "deleted"
      BY <1>3, <2>3 DEF Live
    <3>2. comment'[s[2]] = comment[s[2]] /\ comment[s[2]].status # "none" /\ comment[s[2]].post \in Posts
      BY <1>2, <3>1 DEF RowsInStep
    <3>3. post[comment[s[2]].post].status # "deleted"
      BY <1>1, <3>1, <3>2
    <3>4. QED
      BY <2>1, <2>3, <3>2, <3>3 DEF Untouched, Live, RowStays, Active
  <2>4. CASE s[1] = "reaction"
    <3>1. s[2] \in Posts /\ post'[s[2]].status # "deleted"
      BY <1>3, <2>4 DEF Live
    <3>2. post[s[2]].status # "deleted" /\ reaction'[s[2]] = reaction[s[2]]
      BY <1>1, <1>2, <3>1
    <3>3. QED
      BY <2>1, <2>4, <3>2 DEF Untouched, Live, RowStays
  <2>5. QED
    BY <1>3, <2>2, <2>3, <2>4
<1>6. QED
  BY <1>4, <1>5

\* A draft is nothing the ranking knows of.
LEMMA DraftSubjects ==
    ASSUME TypeOK, RowsInStep, NEW p \in Posts, CreateDraftPost(p), NEW s \in Subjects, Live(s)'
    PROVE  Untouched(s)
<1>1. /\ post[p].status = "none" /\ UNCHANGED <<comment, reaction, log>>
      /\ post'[p].status = "draft" /\ \A q \in Posts \ {p} : post'[q] = post[q]
  BY DEF CreateDraftPost, TypeOK
<1>2. /\ s[1] \in {"post", "comment", "reaction"}
      /\ s[1] = "comment" => s[2] \in Comments
      /\ s[1] # "comment" => s[2] \in Posts
  BY SubjectKinds
<1>3. CASE s[1] = "post"
  <2>1. s[2] # p
    BY <1>1, <1>3 DEF Live, Published
  <2>2. QED
    BY <1>1, <1>2, <1>3, <2>1 DEF Untouched, Live, RowStays, Published
<1>4. CASE s[1] = "comment"
  <2>1. comment[s[2]].status # "none" /\ comment[s[2]].post \in Posts /\ post'[comment[s[2]].post].status # "deleted"
    BY <1>1, <1>2, <1>4 DEF Live, RowsInStep
  <2>2. post[comment[s[2]].post].status # "deleted"
    BY <1>1, <2>1
  <2>3. QED
    BY <1>1, <1>4, <2>1, <2>2 DEF Untouched, Live, RowStays, Active
<1>5. CASE s[1] = "reaction"
  BY <1>1, <1>2, <1>5 DEF Untouched, Live, RowStays
<1>6. QED
  BY <1>2, <1>3, <1>4, <1>5

\* A comment written or deleted is announced as it then is.
LEMMA CommentSubjects ==
    ASSUME TypeOK, RowsInStep, NEW c \in Comments, DeleteComment(c) \/ \E p \in Posts : CreateComment(c, p),
           NEW s \in Subjects, Live(s)'
    PROVE  \/ Untouched(s)
           \/ \E n : LastWord(s, n) /\ Tells(n, s)'
<1>1. /\ s[1] \in {"post", "comment", "reaction"} /\ s = <<s[1], s[2]>>
      /\ s[1] = "comment" => s[2] \in Comments
      /\ s[1] # "comment" => s[2] \in Posts
  BY SubjectKinds
<1>2. ASSUME NEW n, n \in Nat, n \in DOMAIN log' \ DOMAIN log,
             \A f \in DOMAIN log' : f <= n,
             \A e \in DOMAIN log' \ DOMAIN log : log'[e].about = <<"comment", c>>,
             log'[n].op \in {"created", "deleted"}, log'[n].op = "created" <=> comment'[c].status = "active",
             \A d \in Comments \ {c} : comment'[d] = comment[d], UNCHANGED <<post, reaction>>
      PROVE  Untouched(s) \/ \E k : LastWord(s, k) /\ Tells(k, s)'
  <2>1. CASE s = <<"comment", c>>
    <3>1. LastWord(s, n)
      BY <1>2, <2>1 DEF LastWord
    <3>2. Tells(n, s)'
      BY <1>2, <2>1 DEF Tells, Active
    <3>3. QED
      BY <3>1, <3>2
  <2>2. CASE s # <<"comment", c>>
    <3>1. \A e \in DOMAIN log' \ DOMAIN log : log'[e].about # s
      BY <1>2, <2>2
    <3>2. s[1] = "comment" => comment'[s[2]] = comment[s[2]]
      BY <1>1, <1>2, <2>2
    <3>3. QED
      BY <1>1, <1>2, <3>1, <3>2 DEF Untouched, Live, RowStays, Published, Active
  <2>3. QED
    BY <2>1, <2>2
<1>3. CASE DeleteComment(c)
  <2>0. comment[c].post \in Posts
    BY <1>3 DEF RowsInStep, DeleteComment, Active
  <2> DEFINE n == Len(log) + 1
  <2>1. /\ comment' = [comment EXCEPT ![c] = [status |-> "deleted", post |-> comment[c].post]]
        /\ n \in Nat /\ DOMAIN log' = DOMAIN log \cup {n}
        /\ \A e \in DOMAIN log : e \in Nat /\ e < n
        /\ log'[n].about = <<"comment", c>> /\ log'[n].op = "deleted" /\ UNCHANGED <<post, reaction>>
    BY <1>3, <2>0, CommentDeleted
  <2> HIDE DEF n
  <2>2. comment'[c].status = "deleted" /\ \A d \in Comments \ {c} : comment'[d] = comment[d]
    BY <2>1 DEF TypeOK
  <2>3. n \in DOMAIN log' \ DOMAIN log /\ \A f \in DOMAIN log' : f <= n
    BY <2>1
  <2>4. QED
    BY <1>2, <2>1, <2>2, <2>3
<1>4. ASSUME NEW p \in Posts, CreateComment(c, p)
      PROVE  Untouched(s) \/ \E k : LastWord(s, k) /\ Tells(k, s)'
  <2> DEFINE m == Len(log) + 1
             n == Len(log) + 2
  <2>1. /\ comment' = [comment EXCEPT ![c] = [status |-> "active", post |-> p]]
        /\ m \in Nat /\ n \in Nat /\ m < n /\ DOMAIN log' = DOMAIN log \cup {m, n}
        /\ \A e \in DOMAIN log : e \in Nat /\ e < m
        /\ log'[m].about = <<"comment", c>>
        /\ log'[n].about = <<"comment", c>> /\ log'[n].op = "created" /\ UNCHANGED <<post, reaction>>
    BY <1>4, CommentWritten
  <2> HIDE DEF m, n
  <2>2. comment'[c].status = "active" /\ \A d \in Comments \ {c} : comment'[d] = comment[d]
    BY <2>1 DEF TypeOK
  <2>3. n \in DOMAIN log' \ DOMAIN log /\ \A f \in DOMAIN log' : f <= n
    BY <2>1
  <2>4. QED
    BY <1>2, <2>1, <2>2, <2>3
<1>5. QED
  BY <1>3, <1>4

\* A reaction is announced with what it replaced.
LEMMA ReactionSubjects ==
    ASSUME TypeOK, NEW p \in Posts, NEW t \in Reaction, React(p, t), NEW s \in Subjects, Live(s)'
    PROVE  \/ Untouched(s)
           \/ \E n : LastWord(s, n) /\ Tells(n, s)'
<1> DEFINE l == Len(log) + 1
<1>0. /\ reaction' = [reaction EXCEPT ![p] = t]
      /\ l \in Nat /\ DOMAIN log' = DOMAIN log \cup {l}
      /\ \A e \in DOMAIN log : e \in Nat /\ e < l
      /\ log'[l].about = <<"reaction", p>>
      /\ log'[l].op = IF t = "none" THEN "unset" ELSE "set"
      /\ t # "none" => log'[l].type = t
      /\ UNCHANGED <<post, comment>>
  BY ReactionWritten
<1> HIDE DEF l
<1>1. PICK n :
      /\ reaction' = [reaction EXCEPT ![p] = t]
      /\ n \in Nat /\ DOMAIN log' = DOMAIN log \cup {n}
      /\ \A e \in DOMAIN log : e \in Nat /\ e < n
      /\ log'[n].about = <<"reaction", p>>
      /\ log'[n].op = IF t = "none" THEN "unset" ELSE "set"
      /\ t # "none" => log'[n].type = t
      /\ UNCHANGED <<post, comment>>
  BY <1>0
<1>2. reaction'[p] = t /\ \A q \in Posts \ {p} : reaction'[q] = reaction[q]
  BY <1>1 DEF TypeOK
<1>3. /\ s[1] \in {"post", "comment", "reaction"} /\ s = <<s[1], s[2]>>
      /\ s[1] # "comment" => s[2] \in Posts
  BY SubjectKinds
<1>4. CASE s = <<"reaction", p>>
  <2>1. LastWord(s, n)
    <3>1. n \in DOMAIN log' \ DOMAIN log /\ \A f \in DOMAIN log' : f <= n
      BY <1>1
    <3>2. QED
      BY <1>1, <1>4, <3>1 DEF LastWord
  <2>2. Tells(n, s)'
    BY <1>1, <1>2, <1>4 DEF Tells
  <2>3. QED
    BY <2>1, <2>2
<1>5. CASE s # <<"reaction", p>>
  <2>1. \A e \in DOMAIN log' \ DOMAIN log : log'[e].about # s
    BY <1>1, <1>5
  <2>2. s[1] = "reaction" => reaction'[s[2]] = reaction[s[2]]
    BY <1>2, <1>3, <1>5
  <2>3. QED
    BY <1>1, <1>3, <2>1, <2>2 DEF Untouched, Live, RowStays, Published, Active
<1>6. QED
  BY <1>4, <1>5

\* Every command has the last word on what it changes.
LEMMA CommandSubjects ==
    ASSUME TypeOK, RowsInStep, Command, NEW s \in Subjects, Live(s)'
    PROVE  \/ Untouched(s)
           \/ \E n : LastWord(s, n) /\ Tells(n, s)'
  BY PostSubjects, DraftSubjects, CommentSubjects, ReactionSubjects DEF Command, PostCommand

\* Without a command nothing is said, and what is settled was so, or has been counted last.
LEMMA RowsKeep ==
    ASSUME UNCHANGED <<post, comment, reaction, log>>, NEW s
    PROVE  /\ Live(s)' = Live(s)
           /\ \A e : IsLast(e, s)' = IsLast(e, s) /\ Tells(e, s)' = Tells(e, s)
  BY DEF Live, IsLast, Tells, Published, Active

\* What ranking an event changes of the reactions counted.
LEMMA RankedReactions ==
    ASSUME TypeOK, EventsInStep, NEW e \in DOMAIN log, Ranks(e), NEW p \in Posts,
           log[e].about # <<"reaction", p>>
    PROVE  reactionStates'[p] = reactionStates[p]
<1>0. log[e].post \in Posts
  BY EventTyped
<1>1. CASE log[e].about[1] = "post"
  BY <1>0, <1>1, PostRanked DEF Ranks
<1>2. CASE log[e].about[1] # "post"
  <2>1. RankActivity(log[e])
    BY <1>2 DEF Ranks
  <2>2. log[e].op \in {"set", "unset"} => log[e].about[1] = "reaction"
    BY <1>2, EventTyped DEF EventsInStep
  <2>3. log[e].about[1] = "reaction" => log[e].about = <<"reaction", log[e].post>>
    BY DEF EventsInStep
  <2>4. \/ UNCHANGED reactionStates
        \/ /\ log[e].op \in {"set", "unset"}
           /\ reactionStates' = [reactionStates EXCEPT ![log[e].post] = Left(e)]
    BY <1>0, <2>1, ActivityRanked
  <2>5. CASE UNCHANGED reactionStates
    BY <2>5
  <2>6. CASE /\ log[e].op \in {"set", "unset"}
             /\ reactionStates' = [reactionStates EXCEPT ![log[e].post] = Left(e)]
    <3>1. log[e].post # p
      BY <2>2, <2>3, <2>6
    <3>2. QED
      BY <2>6, <3>1 DEF TypeOK
  <2>7. QED
    BY <2>4, <2>5, <2>6
<1>3. QED
  BY <1>1, <1>2

\* The last event of what is live says how it is.
LEMMA TellsInv ==
    ASSUME TypeOK, RowsInStep, EventsInStep, WorkersInStep, LastTells, [Next]_vars
    PROVE  LastTells'
<1> SUFFICES ASSUME NEW s \in Subjects, Live(s)'
             PROVE  Unsaid(s)' \/ \E e \in DOMAIN log' : IsLast(e, s)' /\ Tells(e, s)'
  BY DEF LastTells
<1>0. Live(s) => Unsaid(s) \/ \E e \in DOMAIN log : IsLast(e, s) /\ Tells(e, s)
  BY DEF LastTells
<1>1. /\ s[1] \in {"post", "comment", "reaction"} /\ s = <<s[1], s[2]>>
      /\ s[1] = "comment" => s[2] \in Comments
      /\ s[1] # "comment" => s[2] \in Posts
  BY SubjectKinds
<1>2. CASE Command
  <2>1. /\ DOMAIN log \subseteq DOMAIN log' /\ \A e \in DOMAIN log : log'[e] = log[e]
        /\ UNCHANGED reactionStates
    BY <1>2, CommandKeeps
  <2>2. ASSUME NEW n, LastWord(s, n), Tells(n, s)'
        PROVE  \E e \in DOMAIN log' : IsLast(e, s)' /\ Tells(e, s)'
    <3>1. n \in DOMAIN log' /\ IsLast(n, s)'
      BY <2>2 DEF LastWord, IsLast
    <3>2. QED
      BY <2>2, <3>1
  <2>3. CASE Untouched(s)
    <3>1. Live(s) /\ RowStays(s) /\ \A e \in DOMAIN log' \ DOMAIN log : log'[e].about # s
      BY <2>3 DEF Untouched
    <3>2. Unsaid(s) => Unsaid(s)'
      BY <2>1, <3>1 DEF Unsaid, RowStays
    <3>3. ASSUME NEW e \in DOMAIN log, IsLast(e, s), Tells(e, s)
          PROVE  e \in DOMAIN log' /\ IsLast(e, s)' /\ Tells(e, s)'
      <4>1. e \in DOMAIN log' /\ IsLast(e, s)'
        BY <2>1, <3>1, <3>3 DEF IsLast
      <4>2. Tells(e, s)'
        BY <1>1, <2>1, <3>1, <3>3 DEF Tells, RowStays, Active
      <4>3. QED
        BY <4>1, <4>2
    <3>4. QED
      BY <1>0, <3>1, <3>2, <3>3
  <2>4. QED
    BY <1>2, <2>2, <2>3, CommandSubjects
<1>3. ASSUME UNCHANGED <<post, comment, reaction, log>>, Unsaid(s) => Unsaid(s)'
      PROVE  Unsaid(s)' \/ \E e \in DOMAIN log' : IsLast(e, s)' /\ Tells(e, s)'
  BY <1>0, <1>3, RowsKeep
<1>4. ASSUME NEW w \in Workers, Handles(w)
      PROVE  Unsaid(s) => Unsaid(s)'
  <2>1. UNCHANGED <<post, comment, reaction, log>>
    BY <1>4, RowsStay
  <2>2. CASE UNCHANGED reactionStates
    BY <2>1, <2>2 DEF Unsaid
  <2>3. ASSUME NEW e \in DOMAIN log, Ranks(e)
        PROVE  Unsaid(s) => Unsaid(s)'
    <3>1. SUFFICES ASSUME Unsaid(s) PROVE Unsaid(s)'
      OBVIOUS
    <3>2. log[e].about # <<"reaction", s[2]>> /\ s[2] \in Posts /\ s[1] = "reaction"
      BY <1>1, <3>1 DEF Unsaid
    <3>3. reactionStates'[s[2]] = reactionStates[s[2]]
      BY <2>3, <3>2, RankedReactions
    <3>4. QED
      BY <2>1, <3>1, <3>3 DEF Unsaid
  <2>4. QED
    BY <1>4, <2>2, <2>3, HandlerRanks
<1>5. CASE Restart
  <2>1. Unsaid(s) => Unsaid(s)'
    BY <1>1, <1>5, RowsStay DEF Unsaid, Restart
  <2>2. QED
    BY <1>3, <1>5, <2>1, RowsStay
<1>6. CASE Reads
  <2>1. Unsaid(s) => Unsaid(s)'
    BY <1>6, RowsStay, ReadsKeep DEF Unsaid
  <2>2. QED
    BY <1>3, <1>6, <2>1, RowsStay
<1>7. QED
  BY <1>2, <1>3, <1>4, <1>5, <1>6, RowsStay DEF Next, Handling, Handles, Reads

\* Whoever ranks the last event, in its turn, has the ranking say how the subject is.
LEMMA LastRanked ==
    ASSUME TypeOK, RowsInStep, EventsInStep, LastTells,
           NEW s \in Subjects, Live(s), NEW e \in DOMAIN log, IsLast(e, s), Ranks(e), ~OutOfOrder(e),
           UNCHANGED <<post, comment, reaction, log>>
    PROVE  Settled(s)'
<1>1. Tells(e, s)
  <2>1. Unsaid(s) \/ \E f \in DOMAIN log : IsLast(f, s) /\ Tells(f, s)
    BY DEF LastTells
  <2>2. ~Unsaid(s)
    BY DEF Unsaid, IsLast
  <2>3. PICK f \in DOMAIN log : IsLast(f, s) /\ Tells(f, s)
    BY <2>1, <2>2
  <2>4. f <= e /\ e <= f /\ e \in Nat /\ f \in Nat
    BY <2>3, EventTyped DEF IsLast
  <2>5. e = f
    BY <2>4
  <2>6. QED
    BY <2>3, <2>5
<1>2. /\ s[1] \in {"post", "comment", "reaction"} /\ s = <<s[1], s[2]>>
      /\ s[1] = "comment" => s[2] \in Comments
      /\ s[1] # "comment" => s[2] \in Posts
  BY SubjectKinds
<1>3. log[e].about = s /\ log[e].op # "notify" /\ log[e].post \in Posts
  BY EventTyped DEF IsLast
<1>4. log[e].about[1] # "post" => rank[log[e].post].known
  BY DEF OutOfOrder
<1>5. CASE s[1] = "post"
  <2>1. log[e].op = "changed" /\ log[e].date = post[s[2]].date /\ post[s[2]].date > 0
    BY <1>1, <1>2, <1>5 DEF Tells, Live, RowsInStep
  <2>2. rank'[s[2]].known /\ rank'[s[2]].date = log[e].date
    BY <1>2, <1>3, <1>5, <2>1, RankedDates
  <2>3. QED
    BY <1>5, <2>1, <2>2 DEF Settled
<1>6. CASE s[1] = "comment"
  <2>1. commentStates' = [commentStates EXCEPT ![s[2]] = Score(e)]
    <3>1. RankActivity(log[e]) /\ log[e].about[1] = "comment" /\ log[e].about[2] = s[2]
          /\ log[e].op \notin {"set", "unset"}
      BY <1>2, <1>3, <1>6 DEF Ranks, EventsInStep
    <3>2. QED
      BY <1>3, <1>4, <3>1, ActivityRanked
  <2>2. commentStates'[s[2]] = Score(e)
    BY <1>2, <1>6, <2>1 DEF TypeOK
  <2>3. log[e].op = "created" <=> Active(s[2])
    BY <1>1, <1>6 DEF Tells
  <2>4. QED
    BY <1>6, <2>2, <2>3 DEF Settled, Score, CommentScore, Active
<1>7. CASE s[1] = "reaction"
  <2>0. log[e].about = <<"reaction", log[e].post>> /\ log[e].op \in {"set", "unset"} /\ s[2] = log[e].post
    BY <1>2, <1>3, <1>7 DEF EventsInStep
  <2>1. reactionStates' = [reactionStates EXCEPT ![s[2]] = Left(e)]
    <3>1. RankActivity(log[e]) /\ log[e].about[1] # "comment" /\ rank[log[e].post].known
      BY <1>4, <2>0 DEF Ranks
    <3>2. QED
      BY <1>3, <2>0, <3>1, ActivityRanked
  <2>2. reactionStates'[s[2]] = Left(e)
    BY <1>2, <1>7, <2>1 DEF TypeOK
  <2>3. reaction[s[2]] = IF log[e].op = "unset" THEN "none" ELSE log[e].type
    BY <1>1, <1>7 DEF Tells
  <2>4. QED
    BY <1>7, <2>0, <2>2, <2>3 DEF Settled, Left
<1>8. QED
  BY <1>2, <1>5, <1>6, <1>7

\* Another subject's event leaves what is settled.
LEMMA OthersSettled ==
    ASSUME TypeOK, EventsInStep, NEW s \in Subjects, NEW e \in DOMAIN log, Ranks(e), log[e].about # s,
           UNCHANGED <<post, comment, reaction, log>>, Settled(s)
    PROVE  Settled(s)'
<1>1. /\ s[1] \in {"post", "comment", "reaction"} /\ s = <<s[1], s[2]>>
      /\ s[1] = "comment" => s[2] \in Comments
      /\ s[1] # "comment" => s[2] \in Posts
  BY SubjectKinds
<1>2. CASE s[1] = "post"
  BY <1>1, <1>2, RankedDates DEF Settled
<1>3. CASE s[1] = "comment"
  BY <1>1, <1>3, RankedDates DEF Settled, Active
<1>4. CASE s[1] = "reaction"
  BY <1>1, <1>4, RankedReactions DEF Settled
<1>5. QED
  BY <1>1, <1>2, <1>3, <1>4

\* Where all came in order, the last event of what is live is due, or counted.
LEMMA CountsInv ==
    ASSUME TypeOK, RowsInStep, EventsInStep, WorkersInStep, LastTells, LastCounts, [Next]_vars
    PROVE  LastCounts'
<1> SUFFICES ASSUME NEW s \in Subjects \ disordered', Live(s)', NEW e \in DOMAIN log', IsLast(e, s)'
             PROVE  e \in pending' \/ Settled(s)'
  BY DEF LastCounts
<1>0. s \notin disordered /\ Live(s) /\ e \in DOMAIN log /\ IsLast(e, s) => e \in pending \/ Settled(s)
  BY DEF LastCounts
<1>1. s \in Subjects
  OBVIOUS
<1>2. /\ s[1] \in {"post", "comment", "reaction"} /\ s = <<s[1], s[2]>>
      /\ s[1] = "comment" => s[2] \in Comments
      /\ s[1] # "comment" => s[2] \in Posts
  BY <1>1, SubjectKinds
<1>3. CASE Command
  <2>1. /\ DOMAIN log \subseteq DOMAIN log' /\ \A f \in DOMAIN log : log'[f] = log[f]
        /\ pending \subseteq pending'
        /\ \A f \in DOMAIN log' \ DOMAIN log : f \in Nat /\ f \in pending'
        /\ UNCHANGED <<rank, commentStates, reactionStates, disordered>>
    BY <1>3, CommandKeeps
  <2>2. CASE e \notin DOMAIN log
    BY <2>1, <2>2
  <2>3. CASE e \in DOMAIN log
    <3>1. ASSUME NEW n, LastWord(s, n)
          PROVE  FALSE
      <4>1. n \in DOMAIN log' \ DOMAIN log /\ n <= e /\ e <= n /\ n \in Nat /\ e \in Nat
        BY <2>1, <2>3, <3>1, EventTyped DEF LastWord, IsLast
      <4>2. n = e
        BY <4>1
      <4>3. QED
        BY <2>3, <4>1, <4>2
    <3>2. Live(s) /\ RowStays(s)
      BY <1>1, <1>3, <3>1, CommandSubjects DEF Untouched
    <3>3. IsLast(e, s)
      BY <2>1, <2>3 DEF IsLast
    <3>4. Settled(s) => Settled(s)'
      BY <1>2, <2>1, <3>2 DEF Settled, RowStays, Active
    <3>5. QED
      BY <1>0, <2>1, <2>3, <3>2, <3>3, <3>4
  <2>4. QED
    BY <2>2, <2>3
<1>4. ASSUME UNCHANGED <<post, comment, reaction, log>>
      PROVE  Live(s) /\ IsLast(e, s) /\ e \in DOMAIN log /\ log[e].about = s /\ log[e].op # "notify"
  <2>1. Live(s) /\ IsLast(e, s)
    BY <1>4, RowsKeep
  <2>2. QED
    BY <1>4, <2>1 DEF IsLast
<1>5. ASSUME NEW w \in Workers, Handles(w)
      PROVE  e \in pending' \/ Settled(s)'
  <2>0. UNCHANGED <<post, comment, reaction, log>>
    BY <1>5, RowsStay
  <2>1. Live(s) /\ IsLast(e, s) /\ e \in DOMAIN log /\ log[e].about = s /\ log[e].op # "notify"
    BY <1>4, <2>0
  <2>2. CASE /\ UNCHANGED <<rank, commentStates, reactionStates, disordered>>
             /\ \A f \in pending \ pending' : log[f].op = "notify"
    <3>1. Settled(s) => Settled(s)'
      BY <2>0, <2>2 DEF Settled, Active
    <3>2. QED
      BY <1>0, <2>1, <2>2, <3>1
  <2>3. ASSUME NEW f \in DOMAIN log, Ranks(f), Ranked(f), log[f].op # "notify", pending \ {f} \subseteq pending'
        PROVE  e \in pending' \/ Settled(s)'
    <3>1. /\ disordered \subseteq disordered'
          /\ log[f].about = s => ~OutOfOrder(f)
      BY <2>3 DEF Ranked
    <3>2. e \in pending \/ Settled(s)
      BY <1>0, <2>1, <3>1
    <3>3. CASE log[f].about # s
      <4>1. Settled(s) => Settled(s)'
        BY <1>1, <2>0, <2>3, <3>3, OthersSettled
      <4>2. e # f
        BY <2>1, <3>3
      <4>3. QED
        BY <2>3, <3>2, <4>1, <4>2
    <3>4. CASE f = e
      BY <1>1, <2>0, <2>1, <2>3, <3>1, <3>4, LastRanked
    <3>5. CASE log[f].about = s /\ f # e
      <4>1. f <= e /\ f \in Nat /\ e \in Nat
        BY <2>1, <2>3, <3>5, EventTyped DEF IsLast
      <4>2. e > f
        BY <3>5, <4>1
      <4>3. e \in pending
        BY <2>1, <3>1, <3>5, <4>2 DEF OutOfOrder
      <4>4. QED
        BY <2>3, <3>5, <4>3
    <3>6. QED
      BY <3>3, <3>4, <3>5
  <2>4. QED
    BY <1>5, <2>2, <2>3, HandlerRanks
<1>6. CASE Restart
  <2>0. UNCHANGED <<post, comment, reaction, log>>
    BY <1>6, RowsStay
  <2>1. s[1] = "post"
    BY <1>1, <1>6 DEF Restart
  <2>2. post[s[2]].status = "published" /\ s[2] \in Posts
    BY <1>2, <1>4, <2>0, <2>1 DEF Live, Published
  <2>3. rank'[s[2]].known /\ rank'[s[2]].date = post[s[2]].date
    BY <1>6, <2>2, Seeded DEF Restart, Published
  <2>4. QED
    BY <2>0, <2>1, <2>3 DEF Settled
<1>7. CASE Reads
  <2>0. UNCHANGED <<post, comment, reaction, log, pending, rank, commentStates, reactionStates, disordered>>
    BY <1>7, RowsStay, ReadsKeep
  <2>1. Live(s) /\ IsLast(e, s) /\ e \in DOMAIN log
    BY <1>4, <2>0
  <2>2. Settled(s) => Settled(s)'
    BY <2>0 DEF Settled, Active
  <2>3. QED
    BY <1>0, <2>0, <2>1, <2>2
<1>8. QED
  BY <1>3, <1>5, <1>6, <1>7 DEF Next, Handling, Handles, Reads

-----------------------------------------------------------------------------
(* The theorems *)

\* The empty system is in step.
LEMMA InitInv == Init => IInv
<1> SUFFICES ASSUME Init PROVE IInv
  OBVIOUS
<1>1. log = <<>> /\ DOMAIN log = {} /\ Len(log) = 0 /\ log \in Seq(Event)
  BY DEF Init
<1>2. TypeOK
  <2>1. 0 \in 0..MaxChanges /\ MaxFaults \in 0..MaxFaults /\ 0 <= MaxEvents
    BY ProjectionsAssumption
  <2>2. post \in [Posts -> Post]
    BY <2>1 DEF Init, Post
  <2>3. comment \in [Comments -> [status : {"none", "active", "deleted"}, post : Posts \cup {NoPost}]]
    BY DEF Init
  <2>4. worker \in [Workers -> WorkerType]
    BY IdleTyped DEF Init
  <2>5. rank \in [Posts -> Snapshot]
    BY <2>1 DEF Init, Snapshot, Unknown
  <2>6. QED
    BY <1>1, <2>1, <2>2, <2>3, <2>4, <2>5 DEF Init, TypeOK, WorkerType, Reaction, NoText
<1>3. EventsInStep /\ WorkersInStep
  BY <1>1 DEF Init, EventsInStep, WorkersInStep, At, Idle
<1>4. RowsInStep
  BY <1>1 DEF Init, RowsInStep, Published, Unknown
<1>5. IndexInStep
  BY DEF Init, IndexInStep, At, Idle, loadSearchDocumentByPostID, Published
<1>6. InboxInStep /\ RankedOrDue
  BY <1>1 DEF Init, InboxInStep, RankedOrDue, Published
<1>7. ScoresAddUp
  <2>1. \A p \in Posts : {c \in Comments : comment[c].post = p /\ commentStates[c] # 0} = {}
    BY DEF Init
  <2>2. Cardinality({}) = 0
    BY FS_EmptySet
  <2>3. QED
    <3>1. \A p \in Posts : rank[p].comments = 0 /\ rank[p].reactions = 0 /\ Weight(reactionStates[p]) = 0
      BY DEF Init, Unknown, Weight
    <3>2. CommentScore * 0 = 0
      BY DEF CommentScore
    <3>3. QED
      BY <2>1, <2>2, <3>1, <3>2 DEF ScoresAddUp
<1>8. LastTells /\ LastCounts
  <2>1. ASSUME NEW s \in Subjects, Live(s)
        PROVE  Unsaid(s)
    <3>1. /\ s[1] \in {"post", "comment", "reaction"}
          /\ s[1] = "comment" => s[2] \in Comments
          /\ s[1] # "comment" => s[2] \in Posts
      BY SubjectKinds
    <3>2. s[1] = "reaction"
      BY <2>1, <3>1 DEF Init, Live, Published
    <3>3. QED
      BY <1>1, <3>1, <3>2 DEF Init, Unsaid
  <2>2. QED
    BY <1>1, <2>1 DEF LastTells, LastCounts
<1>9. QED
  BY <1>2, <1>3, <1>4, <1>5, <1>6, <1>7, <1>8 DEF IInv

\* No step leaves the types.
LEMMA TypeInv ==
    ASSUME TypeOK, RowsInStep, WorkersInStep, [Next]_vars
    PROVE  TypeOK'
  BY CommandTypes, HandlingTypes, OtherTypes DEF Next, Handling

\* Every step preserves the inductive invariant.
LEMMA NextInv == IInv /\ [Next]_vars => IInv'
  BY TypeInv, EventsInv, WorkersInv, RowsInv, IndexInv, InboxInv, RankedOrDueInv, ScoresInv,
     TellsInv,
     CountsInv DEF IInv

\* Types, rows and events in step, what is due for what is missing, and the last word on
\* each subject, whatever the relay hands out and however often.
THEOREM Invariance == Spec => []IInv
<1>1. Init => IInv
  BY InitInv
<1>2. IInv /\ [Next]_vars => IInv'
  BY NextInv
<1>3. QED
  BY <1>1, <1>2, PTL DEF Spec

\* Every command, handler and restart keeps rows, events and projections of their types.
THEOREM TypeCorrect == Spec => []TypeOK
<1>1. IInv => TypeOK
  BY DEF IInv
<1>2. QED
  BY <1>1, Invariance, PTL

\* UpsertPost reads the post anew for each event, so the last handler to write an index entry
\* writes the text as it is, whichever event it had.
THEOREM IndexIsTrue == Spec => []IndexTrue
<1>1. IInv => IndexTrue
  BY DEF IInv, IndexTrue, IndexInStep, Quiet
<1>2. QED
  BY <1>1, Invariance, PTL

\* UpsertPostSnapshot keeps the date a published post has, and an event is due as long as it
\* has none; the query of the feed leaves out what is not published.
THEOREM FeedIsTrue == Spec => []FeedTrue
<1>1. ASSUME IInv PROVE FeedTrue
  <2>0. \A p \in Posts : post[p] \in Post /\ rank[p] \in Snapshot
    BY <1>1 DEF IInv, TypeOK
  <2>1. \A p \in loadRankedPosts : Published(p)
    <3>1. TAKE p \in loadRankedPosts
    <3>2. p \in Posts /\ rank[p].date > 0 /\ post[p].status \in {"draft", "published"}
      BY DEF loadRankedPosts, ListFeed
    <3>3. post[p].status \in {"none", "draft"} => rank[p].date = 0
      BY <1>1, <3>2 DEF IInv, RowsInStep
    <3>4. QED
      BY <3>2, <3>3 DEF Published
  <2>2. ASSUME Quiet, NEW p \in Posts, Published(p)
        PROVE  p \in loadRankedPosts /\ (<<"post", p>> \notin disordered => rank[p].date = post[p].date)
    <3>1. rank[p].known /\ rank[p].date > 0
      BY <1>1, <2>2 DEF IInv, RankedOrDue, Quiet
    <3>2. p \in loadRankedPosts
      BY <2>2, <3>1 DEF loadRankedPosts, ListFeed, Published
    <3>3. ASSUME <<"post", p>> \notin disordered
          PROVE  rank[p].date = post[p].date
      <4>1. PICK s : s = <<"post", p>>
        OBVIOUS
      <4>2. s \in Subjects \ disordered /\ Live(s) /\ ~Unsaid(s) /\ s[1] = "post" /\ s[2] = p
        BY <2>2, <3>3, <4>1 DEF Subjects, Live, Unsaid
      <4>3. PICK e \in DOMAIN log : IsLast(e, s)
        BY <1>1, <4>2 DEF IInv, LastTells
      <4>4. Settled(s)
        BY <1>1, <2>2, <4>2, <4>3 DEF IInv, LastCounts, Quiet
      <4>5. QED
        BY <4>2, <4>4 DEF Settled
    <3>4. QED
      BY <3>2, <3>3
  <2>3. QED
    BY <2>1, <2>2 DEF FeedTrue
<1>2. QED
  BY <1>1, Invariance, PTL

\* ApplyCommentDelta and ApplyReactionDelta replace what a comment or a reaction was counted
\* with, so a score is that of what is there, each once.
THEOREM CountsOnce == Spec => []CountedOnce
<1>1. ASSUME IInv PROVE CountedOnce
  <2> SUFFICES ASSUME NEW p \in Posts, Published(p), rank[p].known
               PROVE  /\ rank[p].comments = CommentScore *
                           Cardinality({c \in {d \in Comments : comment[d].post = p} : commentStates[c] # 0})
                      /\ rank[p].reactions = Weight(reactionStates[p])
                      /\ Quiet =>
                           /\ \A c \in {d \in Comments : comment[d].post = p} :
                                \/ <<"comment", c>> \in disordered
                                \/ Active(c) <=> commentStates[c] # 0
                           /\ <<"reaction", p>> \in disordered \/ reactionStates[p] = reaction[p]
    BY DEF CountedOnce
  <2>1. post[p].status = "published"
    BY DEF Published
  <2>2. {c \in {d \in Comments : comment[d].post = p} : commentStates[c] # 0} =
          {c \in Comments : comment[c].post = p /\ commentStates[c] # 0}
    OBVIOUS
  <2>3. /\ rank[p].comments =
             CommentScore * Cardinality({c \in Comments : comment[c].post = p /\ commentStates[c] # 0})
        /\ rank[p].reactions = Weight(reactionStates[p])
    BY <1>1, <2>1 DEF IInv, ScoresAddUp
  <2>4. ASSUME Quiet, NEW s \in Subjects, Live(s), s \notin disordered
        PROVE  Unsaid(s) \/ Settled(s)
    <3>1. Unsaid(s) \/ \E e \in DOMAIN log : IsLast(e, s)
      BY <1>1, <2>4 DEF IInv, LastTells
    <3>2. \A e \in DOMAIN log : IsLast(e, s) => Settled(s)
      BY <1>1, <2>4 DEF IInv, LastCounts, Quiet
    <3>3. QED
      BY <3>1, <3>2
  <2>5. ASSUME Quiet, NEW c \in Comments, comment[c].post = p, <<"comment", c>> \notin disordered
        PROVE  Active(c) <=> commentStates[c] # 0
    <3>1. PICK s : s = <<"comment", c>>
      OBVIOUS
    <3>2. comment[c].status # "none"
      BY <1>1, <2>5 DEF IInv, RowsInStep, NoPost, Posts
    <3>3. s \in Subjects /\ Live(s) /\ ~Unsaid(s) /\ s[1] = "comment" /\ s[2] = c
      BY <2>1, <2>5, <3>1, <3>2 DEF Subjects, Live, Unsaid
    <3>4. Settled(s)
      BY <2>4, <2>5, <3>1, <3>3
    <3>5. QED
      BY <3>3, <3>4 DEF Settled
  <2>6. ASSUME Quiet, <<"reaction", p>> \notin disordered
        PROVE  reactionStates[p] = reaction[p]
    <3>1. PICK s : s = <<"reaction", p>>
      OBVIOUS
    <3>2. s \in Subjects /\ Live(s) /\ s[1] = "reaction" /\ s[2] = p
      BY <2>1, <3>1 DEF Subjects, Live
    <3>3. Unsaid(s) \/ Settled(s)
      BY <2>4, <2>6, <3>1, <3>2
    <3>4. QED
      BY <3>2, <3>3 DEF Settled, Unsaid
  <2>7. QED
    BY <2>2, <2>3, <2>5, <2>6
<1>2. QED
  BY <1>1, Invariance, PTL

\* The unique dedup_key lets one row of an event in, and the event is done with only once
\* there is one.
THEOREM NotifiesOnce == Spec => []NotifiedOnce
<1>1. ASSUME IInv PROVE NotifiedOnce
  <2> SUFFICES ASSUME Quiet, NEW e \in DOMAIN log, log[e].op = "notify"
               PROVE  Cardinality(findExisting(e)) = 1
    BY DEF NotifiedOnce
  <2>1. findExisting(e) # {}
    BY <1>1 DEF IInv, InboxInStep, Quiet
  <2>2. \A m, n \in findExisting(e) : m = n
    BY <1>1 DEF IInv, InboxInStep, findExisting
  <2>3. PICK n : findExisting(e) = {n}
    BY <2>1, <2>2
  <2>4. QED
    BY <2>3, FS_Singleton
<1>2. QED
  BY <1>1, Invariance, PTL

\* Save only inserts, and marking as read keeps the row: nothing takes a notification away or
\* makes it unread.
THEOREM ReadStays == Spec => ReadStaysRead
<1>1. ASSUME IInv, [Next]_vars
      PROVE  [\A n \in inbox : \E m \in inbox' : m.event = n.event /\ (n.read => m.read)]_vars
  <2>0. TypeOK
    BY <1>1 DEF IInv
  <2>1. CASE inbox \subseteq inbox'
    BY <2>1
  <2>2. ASSUME NEW n \in inbox, MarkMyNotificationRead(n)
        PROVE  \A k \in inbox : \E m \in inbox' : m.event = k.event /\ (k.read => m.read)
    <3> DEFINE now == [n EXCEPT !.read = TRUE]
    <3>1. inbox' = (inbox \ {n}) \cup {now} /\ now.event = n.event /\ now.read
      BY <2>0, <2>2, ReadTyped DEF MarkMyNotificationRead
    <3> HIDE DEF now
    <3>2. QED
      BY <3>1
  <2>3. CASE MarkAllMyNotificationsRead
    <3> DEFINE Now(n) == [n EXCEPT !.read = TRUE]
    <3>1. inbox' = {Now(n) : n \in inbox}
      BY <2>3 DEF MarkAllMyNotificationsRead
    <3>2. \A n \in inbox : Now(n).event = n.event /\ Now(n).read
      BY <2>0, ReadTyped
    <3> HIDE DEF Now
    <3>3. QED
      BY <3>1, <3>2
  <2>4. ASSUME NEW w \in Workers, Handles(w)
        PROVE  inbox \subseteq inbox'
    BY <2>4
       DEF Handles, UpsertPost, RankPostChanged, SaveNotification, HandlerFails, Load,
           DeleteFromIndex,
                RankActivityChanged, FindNotification, InsertNotification
  <2>5. CASE Command
    BY <1>1, <2>1, <2>5, CommandKeeps DEF IInv
  <2>6. CASE Restart
    BY <2>1, <2>6 DEF Restart
  <2>7. CASE UNCHANGED vars
    BY <2>7
  <2>8. QED
    BY <1>1, <2>1, <2>2, <2>3, <2>4, <2>5, <2>6, <2>7 DEF Next, Handling, Handles
<1>2. QED
  BY <1>1, Invariance, PTL DEF Spec, ReadStaysRead

=============================================================================
