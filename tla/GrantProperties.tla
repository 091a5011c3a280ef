--------------------------- MODULE GrantProperties ---------------------------
(***************************************************************************)
(* What should be true of GrantLifecycle: the properties that hold, and,   *)
(* in the last section, what the repository's documents and comments say   *)
(* that the code does not do.                                              *)
(***************************************************************************)
EXTENDS GrantLifecycle

Update == [kind : {"joined", "left", "request"}, chat : Chats]

\* Every variable keeps to the values its column, key or Telegram can have.
TypeOK ==
    /\ member \in SUBSET Chats
    /\ asked \in SUBSET Chats
    /\ banned \in SUBSET Chats
    /\ updates \in SUBSET Update
    /\ required \in [Policies -> SUBSET Chats]
    /\ active \in SUBSET Policies
    /\ grant \in [Policies -> Grants]
    /\ cache \in [Chats -> {"none", "in", "out"}]

Contract == INSTANCE GrantContract WITH
    status   <- [p \in Policies |-> grant[p].status],
    deadline <- [p \in Policies |-> grant[p].deadline]

\* The handlers, jobs and commands together keep the contract: access is
\* revoked only when a grace period has run out, which only a grant that gave
\* access or was already warned is given.
RefinesContract == Contract!Spec

\* A grant becomes ACTIVE only while the user is in every channel it requires;
\* the join request handler alone may go by the cached verdict instead.
ActivatedOnlyIfCompliant ==
    [][\A p \in Policies :
          grant[p].status # "ACTIVE" /\ grant'[p].status = "ACTIVE" =>
             \/ Compliant(p, member')
             \/ /\ [kind |-> "request", chat |-> Protected[p]]
                      \in updates \ updates'
                /\ Compliant(p, member \cup {c \in Chats : cache[c] = "in"})
      ]_vars

\* As long as Telegram and the database answer and every policy stays active,
\* the members of a protected chat are on record with a grant that is not
\* revoked: approvals write a grant, and revocations remove the user.
MemberOnRecord == \A p \in Policies :
    Protected[p] \in member => grant[p].status \notin {"NONE", "REVOKED"}

\* The cascade of the expiry watcher is complete: when a grant is revoked, no
\* grant that requires the chat the user was removed from stays ACTIVE, and
\* none of them is left in GRACE without a deadline.
KickCascades ==
    [][\A p \in Policies :
          grant[p].status # "REVOKED" /\ grant'[p].status = "REVOKED" =>
             \A q \in DependentsOf({p}) :
                /\ grant'[q].status # "ACTIVE"
                /\ ~(/\ grant'[q].status = "GRACE"
                     /\ grant'[q].deadline = NoDeadline)
      ]_vars

\* A grace period with a deadline ends once the user stops leaving channels:
\* the grant is revoked, restored or under review, never in GRACE for ever.
GraceEnds ==
    <>[](\A u \in updates : u.kind # "left") =>
       \A p \in Policies : p \in Due \cup Running ~> p \notin Due \cup Running

\* A channel the user stays out of is noticed for every ACTIVE grant of an
\* active policy that requires it, even if no update told the bot: the daily
\* scan sees it once the cached verdict on that channel has expired.
StragglersNoticed == \A p \in Policies, c \in Chats :
    (p \in active \cap HasStatus({"ACTIVE"}) /\ c \in required[p] \ member)
        ~> (\/ p \notin active \cap HasStatus({"ACTIVE"})
            \/ c \notin required[p] \ member)

-----------------------------------------------------------------------------
(* Said of the code, and not so.                                           *)

\* README.md:18: whoever no longer meets the requirements loses access.
AccessEventuallyRevoked == \A p \in Policies :
    (Protected[p] \in member /\ ~Compliant(p, member))
        ~> (Protected[p] \notin member \/ Compliant(p, member))

\* chat_member.py:396: a GRACE without deadline waits for the source policy to
\* be revoked, or restored, which ends it or sets the deadline.
PreventiveGraceEnds == \A p \in Policies :
    (grant[p].status = "GRACE" /\ grant[p].deadline = NoDeadline)
        ~> ~(grant[p].status = "GRACE" /\ grant[p].deadline = NoDeadline)
=============================================================================
