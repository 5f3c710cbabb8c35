------------------------------- MODULE Cache -------------------------------
(***************************************************************************)
(* The cache of the process.  It keeps two things that know nothing of     *)
(* each other: views of the rows, loaded by the requests that miss them    *)
(* and dropped by the events of later changes, and the sessions of the     *)
(* users.  The values are in Ristretto, which can only find a key; the     *)
(* keys of a prefix are in an index beside it, and nothing keeps the two   *)
(* in step but the order of the calls.                                     *)
(*                                                                         *)
(* The views are the pages of one list, dropped by their prefix, and       *)
(* details, dropped by their keys; what the rows say is a version.  The    *)
(* sessions are those of one user, behind the lock of that user.           *)
(***************************************************************************)
EXTENDS Naturals

CONSTANTS
    Clients,        \* who sends requests, one at a time
    Workers,        \* of the relay
    Pages, Details, \* keys of the views
    Tokens,         \* keys of the sessions of the user
    None,           \* no process, no key, no value
    MaxChanges      \* bound: of the changes of the rows

Views == Pages \cup Details
Keys  == Views \cup Tokens

ASSUME CacheAssumption ==
    /\ MaxChanges \in Nat
    /\ None \notin Clients \cup Workers \cup Keys
    /\ None \notin 0..MaxChanges
    /\ Clients \cap Workers = {}
    /\ Pages \cap Details = {} /\ Views \cap Tokens = {}

VARIABLES
    rows,       \* the version of the rows
    pending,    \* how many events the relay has yet to take
    stored,     \* stored[k]: the value of key k in Ristretto
    index,      \* the keys of the prefix index
    op,         \* op[p]: the call process p is in
    flight,     \* flight[v]: who loads view v for all who wait for it
    lock,       \* who has the lock of the user
    raced       \* history: the cached views an event may pass by

vars == <<rows, pending, stored, index, op, flight, lock, raced>>

Processes == Clients \cup Workers
Versions  == 0..MaxChanges
Steps     == {"missed", "join", "wait", "lead", "recheck", "load", "set", "index",
              "delete", "unindex", "scan"}

(* A call: its next step, the key it is about, the keys it has yet to      *)
(* delete, and the value it has loaded.                                    *)
Idle == [step |-> "idle", key |-> None, rest |-> {}, copy |-> 0]

Cached(k) == stored[k] # None

At(p, step, k) == op[p].step = step /\ op[p].key = k

Goto(p, step) == op' = [op EXCEPT ![p].step = step]

Calls(p, step, key, rest) ==
    /\ op[p] = Idle
    /\ op' = [op EXCEPT ![p] = [step |-> step, key |-> key, rest |-> rest, copy |-> 0]]

Returns(p) == op' = [op EXCEPT ![p] = Idle]

------------------------------------------------------------------------------
(* The adapter.                                                            *)

addKeyToIndexes(k) ==
    /\ index' = index \cup {k}
    /\ raced' = IF k \in Views /\ Cached(k) /\ stored[k] # rows THEN raced \cup {k} ELSE raced \ {k}

\* The key goes whether or not its value has come meanwhile.
removeKeyFromIndexes(k) ==
    /\ index' = index \ {k}
    /\ raced' = IF Cached(k) THEN raced \cup ({k} \cap Views) ELSE raced

Drop(k) ==
    /\ stored' = [stored EXCEPT ![k] = None]
    /\ raced' = raced \ {k}

\* A key whose time is over is no longer found; its place in the index stays.
Expire(k) ==
    /\ Cached(k)
    /\ Drop(k)
    /\ UNCHANGED <<rows, pending, index, op, flight, lock>>

\* Ristretto makes room, or cleans up a key whose time is over, and tells the adapter.
OnEvict(k) ==
    /\ Cached(k) \/ k \in index
    /\ Drop(k)
    /\ index' = index \ {k}
    /\ UNCHANGED <<rows, pending, op, flight, lock>>

Set(p, k) ==
    /\ At(p, "set", k)
    /\ \/ stored' = [stored EXCEPT ![k] = op[p].copy]
       \/ UNCHANGED stored        \* the policy of Ristretto does not admit it
    /\ Goto(p, "index")
    /\ UNCHANGED <<rows, pending, index, flight, lock, raced>>

\* Delete, for every key in turn: the value, then the place in the index.
Delete(p, k) ==
    /\ op[p].step = "delete"
    /\ k \in op[p].rest
    /\ Drop(k)
    /\ op' = [op EXCEPT ![p] = [step |-> "unindex", key |-> k, rest |-> op[p].rest \ {k}, copy |-> 0]]
    /\ UNCHANGED <<rows, pending, index, flight, lock>>

------------------------------------------------------------------------------
(* A view is read; one that is found is the answer at once.                *)

\* The load is over: who led it and who waited for it have their answer.
Landed(v) ==
    /\ flight' = [flight EXCEPT ![v] = None]
    /\ op' = [p \in Processes |-> IF p = flight[v] \/ At(p, "wait", v) THEN Idle ELSE op[p]]

GetMisses(c, v) ==
    /\ ~Cached(v)
    /\ Calls(c, "missed", v, {})
    /\ UNCHANGED <<rows, pending, stored, index, flight, lock, raced>>

UnindexMissed(c, v) ==
    /\ At(c, "missed", v)
    /\ removeKeyFromIndexes(v)
    /\ Goto(c, "join")
    /\ UNCHANGED <<rows, pending, stored, flight, lock>>

Lead(c, v) ==
    /\ At(c, "join", v)
    /\ flight[v] = None
    /\ flight' = [flight EXCEPT ![v] = c]
    /\ Goto(c, "lead")
    /\ UNCHANGED <<rows, pending, stored, index, lock, raced>>

Wait(c, v) ==
    /\ At(c, "join", v)
    /\ flight[v] # None
    /\ Goto(c, "wait")
    /\ UNCHANGED <<rows, pending, stored, index, flight, lock, raced>>

GetAgain(c, v) ==
    /\ At(c, "lead", v)
    /\ \/ Cached(v)  /\ Landed(v)
       \/ ~Cached(v) /\ Goto(c, "recheck") /\ UNCHANGED flight
    /\ UNCHANGED <<rows, pending, stored, index, lock, raced>>

UnindexAgain(c, v) ==
    /\ At(c, "recheck", v)
    /\ removeKeyFromIndexes(v)
    /\ Goto(c, "load")
    /\ UNCHANGED <<rows, pending, stored, flight, lock>>

\* No transaction holds the rows until the view is stored.
Load(c, v) ==
    /\ At(c, "load", v)
    /\ op' = [op EXCEPT ![c] = [step |-> "set", key |-> v, rest |-> {}, copy |-> rows]]
    /\ UNCHANGED <<rows, pending, stored, index, flight, lock, raced>>

\* A query fails or the request of the leader is cancelled, or the buffer of
\* Ristretto is full: all who wait get the error.
LoadFails(c, v) ==
    /\ At(c, "load", v) \/ At(c, "set", v)
    /\ Landed(v)
    /\ UNCHANGED <<rows, pending, stored, index, lock, raced>>

IndexView(c, v) ==
    /\ At(c, "index", v)
    /\ addKeyToIndexes(v)
    /\ Landed(v)
    /\ UNCHANGED <<rows, pending, stored, lock>>

ReadView(c, v) ==
    \/ GetMisses(c, v) \/ UnindexMissed(c, v) \/ Lead(c, v) \/ Wait(c, v) \/ GetAgain(c, v)
    \/ UnindexAgain(c, v) \/ Load(c, v) \/ LoadFails(c, v) \/ Set(c, v) \/ IndexView(c, v)

------------------------------------------------------------------------------
(* The rows change, and the event of the change drops the views.           *)

Change ==
    /\ rows < MaxChanges
    /\ rows' = rows + 1
    /\ pending' = pending + 1
    /\ UNCHANGED <<stored, index, op, flight, lock, raced>>

\* Fault: the details are dropped by their prefix as well, but have none.
PagesInIndex == index \cap Pages

\* The pages are those the index has; a detail is dropped by its key.
KeysOfEvent == (index \cap Pages) \cup Details

Handle(w) ==
    /\ pending > 0
    /\ pending' = pending - 1
    /\ IF KeysOfEvent = {} THEN op[w] = Idle /\ UNCHANGED op
       ELSE Calls(w, "delete", None, KeysOfEvent)
    /\ UNCHANGED <<rows, stored, index, flight, lock, raced>>

Unindex(w, v) ==
    /\ At(w, "unindex", v)
    /\ removeKeyFromIndexes(v)
    /\ IF op[w].rest = {} THEN Returns(w) ELSE Goto(w, "delete")
    /\ UNCHANGED <<rows, pending, stored, flight, lock>>

DropViews(w, v) == Delete(w, v) \/ Unindex(w, v)

------------------------------------------------------------------------------
(* The sessions, one call at a time.                                       *)

withUserLock(c) == lock = None /\ lock' = c

Save(c, t) ==
    /\ withUserLock(c)
    /\ Calls(c, "set", t, {})
    /\ UNCHANGED <<rows, pending, stored, index, flight, raced>>

SaveRejected(c, t) ==
    /\ At(c, "set", t)
    /\ Returns(c)
    /\ lock' = None
    /\ UNCHANGED <<rows, pending, stored, index, flight, raced>>

IndexSession(c, t) ==
    /\ At(c, "index", t)
    /\ addKeyToIndexes(t)
    /\ Returns(c)
    /\ lock' = None
    /\ UNCHANGED <<rows, pending, stored, flight>>

\* Fault: a session is looked for without the lock.
ExistsUnlocked(c, t) ==
    /\ ~Cached(t)
    /\ Calls(c, "unindex", t, {})
    /\ UNCHANGED <<rows, pending, stored, index, flight, lock, raced>>

\* A session that is found ends the call at once.
ExistsNot(c, t) ==
    /\ ~Cached(t)
    /\ withUserLock(c)
    /\ Calls(c, "unindex", t, {})
    /\ UNCHANGED <<rows, pending, stored, index, flight, raced>>

DeleteSession(c, t) ==
    /\ withUserLock(c)
    /\ Calls(c, "delete", None, {t})
    /\ UNCHANGED <<rows, pending, stored, index, flight, raced>>

\* The sessions of the user are those the index has.
DeleteByUser(c) ==
    /\ withUserLock(c)
    /\ index \cap Tokens # {}
    /\ Calls(c, "delete", None, index \cap Tokens)
    /\ UNCHANGED <<rows, pending, stored, index, flight, raced>>

UnindexSession(c, t) ==
    /\ At(c, "unindex", t)
    /\ removeKeyFromIndexes(t)
    /\ IF op[c].rest = {} THEN Returns(c) /\ lock' = None ELSE Goto(c, "delete") /\ UNCHANGED lock
    /\ UNCHANGED <<rows, pending, stored, flight>>

\* Keys the index has are looked for until one is found.
ExistsByUser(c) ==
    /\ withUserLock(c)
    /\ index \cap Tokens # {}
    /\ Calls(c, "scan", None, index \cap Tokens)
    /\ UNCHANGED <<rows, pending, stored, index, flight, raced>>

\* The lock is held, so nothing stores the key between its miss and its removal.
ScanSession(c, t) ==
    /\ op[c].step = "scan"
    /\ t \in op[c].rest
    /\ IF Cached(t) THEN UNCHANGED <<index, raced>> ELSE removeKeyFromIndexes(t)
    /\ IF Cached(t) \/ op[c].rest = {t}
       THEN Returns(c) /\ lock' = None
       ELSE op' = [op EXCEPT ![c].rest = @ \ {t}] /\ UNCHANGED lock
    /\ UNCHANGED <<rows, pending, stored, flight>>

UseSession(c, t) ==
    \/ Save(c, t) \/ Set(c, t) \/ SaveRejected(c, t) \/ IndexSession(c, t)
    \/ ExistsNot(c, t) \/ DeleteSession(c, t) \/ Delete(c, t) \/ UnindexSession(c, t)
    \/ ScanSession(c, t)

------------------------------------------------------------------------------
Init ==
    /\ rows = 0
    /\ pending = 0
    /\ stored = [k \in Keys |-> None]
    /\ index = {}
    /\ op = [p \in Processes |-> Idle]
    /\ flight = [v \in Views |-> None]
    /\ lock = None
    /\ raced = {}

Next ==
    \/ Change
    \/ \E k \in Keys : Expire(k) \/ OnEvict(k)
    \/ \E c \in Clients : DeleteByUser(c) \/ ExistsByUser(c)
    \/ \E c \in Clients, v \in Views : ReadView(c, v)
    \/ \E c \in Clients, t \in Tokens : UseSession(c, t)
    \/ \E w \in Workers : Handle(w)
    \/ \E w \in Workers, v \in Views : DropViews(w, v)

Spec == Init /\ [][Next]_vars

------------------------------------------------------------------------------
TypeOK ==
    /\ rows \in Versions
    /\ pending \in Versions
    /\ stored \in [Keys -> Versions \cup {None}]
    /\ index \subseteq Keys
    /\ op \in [Processes -> [step : Steps \cup {"idle"}, key : Keys \cup {None},
                             rest : SUBSET Keys, copy : Versions]]
    /\ flight \in [Views -> Clients \cup {None}]
    /\ lock \in Clients \cup {None}
    /\ raced \subseteq Views

OutOfDate(v) == Cached(v) /\ stored[v] # rows

\* A cached view is older than the rows only while the event of a change is under
\* way, or when it was loaded before the change and indexed after it, or when a
\* lookup that had missed it took its key out of the index after it was stored.
StaleOnlyByRace ==
    \A v \in Views : OutOfDate(v) =>
        \/ pending > 0 \/ \E w \in Workers : v \in op[w].rest
        \/ \E c \in Clients : At(c, "index", v)
        \/ v \in raced

\* Whoever takes the lock to delete the sessions of the user finds all of them.
SessionsFound ==
    lock = None => \A t \in Tokens : Cached(t) => t \in index

\* The prefix of the list finds every page that is stored.
PagesFound ==
    \A v \in Pages : Cached(v) => v \in index \/ \E c \in Clients : At(c, "index", v)

------------------------------------------------------------------------------
(* The inductive invariant.                                                *)

Loading  == {"lead", "recheck", "load", "set", "index"}
Deleting == {"delete", "unindex", "scan"}

\* Only one process loads a view, and only whoever has the lock is about a session.
OneLeader ==
    \A v \in Views :
        /\ flight[v] # None => op[flight[v]].key = v /\ op[flight[v]].step \in Loading
        /\ \A p \in Processes : op[p].key = v /\ op[p].step \in Loading => flight[v] = p

LockHeld ==
    \A p \in Processes : op[p].key \in Tokens \/ op[p].rest \cap Tokens # {} => lock = p

\* A call that has keys yet to delete, or to look for, is about to.
RestIsDeleted == \A p \in Processes : op[p].rest # {} => op[p].step \in Deleting

\* A session that the index does not have is about to be in it, or to be deleted.
SessionsIndexed ==
    \A t \in Tokens :
        /\ Cached(t) /\ t \notin index => \E p \in Processes : At(p, "index", t)
        /\ \A p \in Processes : At(p, "unindex", t) => ~Cached(t)

PagesIndexed ==
    \A v \in Pages :
        Cached(v) /\ v \notin index => v \in raced \/ \E c \in Clients : At(c, "index", v)

IInv ==
    /\ TypeOK
    /\ pending <= rows
    /\ OneLeader
    /\ LockHeld
    /\ RestIsDeleted
    /\ SessionsIndexed
    /\ PagesIndexed
    /\ StaleOnlyByRace
=============================================================================
