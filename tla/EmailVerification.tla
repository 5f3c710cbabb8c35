-------------------------- MODULE EmailVerification --------------------------
(***************************************************************************)
(* One user's email verification: sign-up and later requests issue tokens, *)
(* the handler mails and activates them, confirming one marks the user     *)
(* verified and deletes all the user's tokens, and the user may delete the *)
(* account meanwhile.                                                      *)
(***************************************************************************)
EXTENDS MailTokens

VARIABLES
    account     \* "none", "unverified", "verified" or "deleted"

emailVars == <<mailVars, account>>

Account == {"none", "unverified", "verified", "deleted"}

EmailTypeOK == MailTypeOK /\ account \in Account

EmailInit == MailInit /\ account = "none"

\* SignUp stores the user, issues the first token and appends its event, in one transaction.
SignUp ==
    /\ account = "none"
    /\ account' = "unverified"
    /\ Issue

\* Nothing is issued for a verified or deleted user.
RequestEmailVerification ==
    /\ account = "unverified"
    /\ Issue
    /\ UNCHANGED account

\* One transaction: the token is checked, the user marked, every token of the user deleted.
ConfirmEmailVerification(t) ==
    /\ Usable(token[t])
    /\ account \in {"unverified", "verified"}
    /\ account' = "verified"
    /\ token' = [k \in Tokens |-> NoToken]
    /\ UNCHANGED <<now, issued, pending, job, sweep, repeats, faults, mailed>>

\* The tokens of a deleted account stay where they are.
DeleteAccount ==
    /\ account \in {"unverified", "verified"}
    /\ account' = "deleted"
    /\ UNCHANGED mailVars

EmailNext ==
    \/ SignUp
    \/ RequestEmailVerification
    \/ \E t \in Tokens : ConfirmEmailVerification(t)
    \/ DeleteAccount
    \/ MailStep /\ UNCHANGED account

EmailSpec == EmailInit /\ [][EmailNext]_emailVars

\* The relay keeps delivering an event until a delivery of it ends without an error.
Fairness ==
    \A w \in Deliverers :
        /\ WF_emailVars(Handling(w) /\ UNCHANGED account)
        /\ \A t \in Tokens : SF_emailVars(t \in pending /\ Deliver(w, t) /\ UNCHANGED account)

FairSpec == EmailSpec /\ Fairness

-----------------------------------------------------------------------------
(* Properties *)

\* Nobody is verified without a mail having reached the address
\* (account/service.go ConfirmEmailVerification).
VerifiedByMail == account = "verified" => mailed # {}

EmailInv == MailInv /\ account \in Account /\ VerifiedByMail

\* A token on its way becomes usable, unless a newer one supersedes it, the user is gone
\* or verified, or its time runs out first (outbox relay, mail_delivery_handler.go).
\* It takes a Grace of at least TTL, or the cleanup job may be quicker than the mail, and
\* no second delivery beside the first, whose write of a stale row could undo it.
EventuallyUsable ==
    \A t \in Tokens :
        (issued = t /\ account = "unverified" /\ token[t].present /\ ~Expired(token[t]))
            ~> (\/ Usable(token[t]) \/ issued # t \/ account # "unverified"
                \/ token[t].present /\ Expired(token[t]))

=============================================================================
