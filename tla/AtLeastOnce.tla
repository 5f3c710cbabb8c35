---------------------------- MODULE AtLeastOnce ----------------------------
(***************************************************************************)
(* What the transactional outbox promises its producers: an event whose    *)
(* transaction committed stays outstanding until every handler of it has   *)
(* run to the end once, or an administrator threw it away.  Handlers may   *)
(* run any number of times, also after the event was retired: delivery is  *)
(* at least once.  Nothing is said about order.                            *)
(***************************************************************************)
CONSTANT Events

VARIABLES committed,    \* events whose transaction committed
          outstanding,  \* committed events the outbox still keeps
          handled,      \* events all of whose handlers succeeded at least once
          dropped       \* events discarded by an administrator

vars == <<committed, outstanding, handled, dropped>>

Init ==
    /\ committed = {}
    /\ outstanding = {}
    /\ handled = {}
    /\ dropped = {}

Commit(S) ==
    /\ S # {}
    /\ S \cap committed = {}
    /\ committed' = committed \cup S
    /\ outstanding' = outstanding \cup S
    /\ UNCHANGED <<handled, dropped>>

Handle(e) ==
    /\ e \in committed
    /\ handled' = handled \cup {e}
    /\ UNCHANGED <<committed, outstanding, dropped>>

Retire(e) ==
    /\ e \in outstanding \cap handled
    /\ outstanding' = outstanding \ {e}
    /\ UNCHANGED <<committed, handled, dropped>>

Discard(e) ==
    /\ e \in outstanding
    /\ outstanding' = outstanding \ {e}
    /\ dropped' = dropped \cup {e}
    /\ UNCHANGED <<committed, handled>>

Next ==
    \/ \E S \in SUBSET Events : Commit(S)
    \/ \E e \in Events : Handle(e) \/ Retire(e) \/ Discard(e)

Spec == Init /\ [][Next]_vars
=============================================================================
