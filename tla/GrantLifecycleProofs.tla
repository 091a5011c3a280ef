------------------------ MODULE GrantLifecycleProofs ------------------------
(***************************************************************************)
(* Theorems about GrantLifecycle for every set of policies and chats, every*)
(* assignment of required channels and every length of the grace period.   *)
(***************************************************************************)
EXTENDS GrantProperties, TLAPS

-----------------------------------------------------------------------------
(* The records handlers write.                                             *)

\* Each of the rows a handler writes afresh is a row of the table.
LEMMA NewRows ==
    /\ NoGrant \in Grants /\ Activated \in Grants
    /\ \A C \in SUBSET Chats : OnNotice(C) \in Grants
    /\ \A c \in Chats : Threatened(c) \in Grants
BY ConstantsAssumption DEF NoGrant, Activated, OnNotice, Threatened, Grants,
   GrantStatus, Deadlines, NoDeadline

\* The columns of a row may be changed one by one.
LEMMA RowColumns ==
    ASSUME NEW g \in Grants
    PROVE  /\ g.status \in GrantStatus /\ g.deadline \in Deadlines
           /\ g.missing \in SUBSET Chats
BY DEF Grants

LEMMA MissingRow ==
    ASSUME NEW g \in Grants, NEW C \in SUBSET Chats
    PROVE  [g EXCEPT !.missing = C] \in Grants
BY DEF Grants

LEMMA ReviewedRow ==
    ASSUME NEW g \in Grants, NEW s \in GrantStatus, NEW C \in SUBSET Chats
    PROVE  [g EXCEPT !.status = s, !.missing = C] \in Grants
BY DEF Grants

LEMMA RevokedRow ==
    ASSUME NEW g \in Grants
    PROVE  \A C \in SUBSET Chats :
              [g EXCEPT !.status = "REVOKED", !.deadline = NoDeadline,
                        !.missing = C] \in Grants
BY DEF Grants, GrantStatus, Deadlines

-----------------------------------------------------------------------------
(* What a handler may do to a row.  Legal is the contract seen from one row.*)

Move(g, h) ==
    \/ h.status = g.status /\ h.deadline = g.deadline
    \/ h.status = "ACTIVE" /\ h.deadline = NoDeadline
    \/ /\ \/ g.status = "NEEDS_REVIEW"
          \/ g.status = "GRACE" /\ g.deadline <= 0
       /\ h.status = "ACTIVE" /\ h.deadline = g.deadline
    \/ /\ g.status \in {"ACTIVE", "GRACE"}
       /\ h.status = "GRACE" /\ h.deadline = Grace
    \/ /\ g.status = "ACTIVE"
       /\ h.status = "GRACE" /\ h.deadline = NoDeadline
    \/ h.status = "NEEDS_REVIEW" /\ h.deadline = g.deadline
    \/ /\ g.status = "GRACE" /\ g.deadline = 0
       /\ h.status = "REVOKED" /\ h.deadline = NoDeadline

Legal(g, h) == h \in Grants /\ Move(g, h)

LegalStep == /\ grant' \in [Policies -> Grants]
             /\ \A p \in Policies : Legal(grant[p], grant'[p])

\* Leaving a row alone, restoring it, in part if its deadline is not running,
\* warning it or changing its missing channels is legal.
LEMMA LegalRows ==
    ASSUME TypeOK, NEW p \in Policies
    PROVE  /\ Legal(grant[p], grant[p])
           /\ Legal(grant[p], Activated)
           /\ p \in HasStatus({"GRACE", "NEEDS_REVIEW"}) \ Running =>
                 Legal(grant[p], HalfRestored(p))
           /\ \A C \in SUBSET Chats :
                 Legal(grant[p], [grant[p] EXCEPT !.missing = C])
           /\ \A C \in SUBSET Chats :
                 grant[p].status \in {"ACTIVE", "GRACE"} =>
                    Legal(grant[p], OnNotice(C))
           /\ \A c \in Chats :
                 grant[p].status = "ACTIVE" => Legal(grant[p], Threatened(c))
           /\ \A C \in SUBSET Chats :
                 Legal(grant[p], [grant[p] EXCEPT !.status = "NEEDS_REVIEW",
                                                  !.missing = C])
<1>1. grant[p] \in Grants
    BY DEF TypeOK
<1>2. Legal(grant[p], grant[p]) /\ Legal(grant[p], Activated)
    BY <1>1, NewRows DEF Legal, Move, Activated
<1>3. ASSUME p \in HasStatus({"GRACE", "NEEDS_REVIEW"}) \ Running
      PROVE  Legal(grant[p], HalfRestored(p))
  <2>1. /\ \/ grant[p].status = "NEEDS_REVIEW"
           \/ grant[p].status = "GRACE" /\ ~(grant[p].deadline > 0)
        /\ grant[p].deadline \in Deadlines
      BY <1>1, <1>3 DEF HasStatus, Running, Grants
  <2>2. grant[p].deadline > 0 \/ grant[p].deadline <= 0
      BY <2>1, ConstantsAssumption DEF Deadlines, NoDeadline
  <2>3. HalfRestored(p) \in Grants
      BY <1>1 DEF HalfRestored, Grants, GrantStatus
  <2>4. /\ HalfRestored(p).status = "ACTIVE"
        /\ HalfRestored(p).deadline = grant[p].deadline
      BY <1>1 DEF HalfRestored, Grants
  <2>5. QED BY <2>1, <2>2, <2>3, <2>4 DEF Legal, Move
<1>4. ASSUME NEW C \in SUBSET Chats
      PROVE  /\ Legal(grant[p], [grant[p] EXCEPT !.missing = C])
             /\ grant[p].status \in {"ACTIVE", "GRACE"} =>
                   Legal(grant[p], OnNotice(C))
             /\ Legal(grant[p], [grant[p] EXCEPT !.status = "NEEDS_REVIEW",
                                                 !.missing = C])
  <2>1. Legal(grant[p], [grant[p] EXCEPT !.missing = C])
      BY <1>1, MissingRow DEF Legal, Move, Grants
  <2>2. grant[p].status \in {"ACTIVE", "GRACE"} =>
           Legal(grant[p], OnNotice(C))
      BY NewRows DEF Legal, Move, OnNotice
  <2>3. Legal(grant[p], [grant[p] EXCEPT !.status = "NEEDS_REVIEW",
                                         !.missing = C])
      BY <1>1, ReviewedRow DEF Legal, Move, Grants, GrantStatus
  <2>4. QED BY <2>1, <2>2, <2>3
<1>5. ASSUME NEW c \in Chats, grant[p].status = "ACTIVE"
      PROVE  Legal(grant[p], Threatened(c))
    BY <1>5, NewRows DEF Legal, Move, Threatened
<1>6. QED BY <1>2, <1>3, <1>4, <1>5

\* A session that commits legal rows, or rolls back, is a legal step.
LEMMA CommitLegal ==
    ASSUME TypeOK, NEW new,
           new = [p \in Policies |-> new[p]],
           \A p \in Policies : Legal(grant[p], new[p]),
           Commit(new)
    PROVE  LegalStep
<1>1. new \in [Policies -> Grants]
    BY DEF Legal
<1>2. QED BY <1>1, LegalRows DEF Commit, LegalStep, TypeOK

LEMMA RestoredLegal ==
    ASSUME TypeOK, NEW S, Commit(Restored(S))
    PROVE  LegalStep
<1>1. \A p \in Policies : Legal(grant[p], Restored(S)[p])
    BY LegalRows DEF Restored
<1>2. Restored(S) = [p \in Policies |-> Restored(S)[p]]
    BY DEF Restored
<1>3. QED BY <1>1, <1>2, CommitLegal

LEMMA UnchangedLegal ==
    ASSUME TypeOK, grant' = grant
    PROVE  LegalStep
BY LegalRows DEF LegalStep, TypeOK

-----------------------------------------------------------------------------
(* The rest of the state.                                                  *)

LEMMA RecordedType ==
    ASSUME NEW base \in [Chats -> {"none", "in", "out"}], NEW C, NEW seen
    PROVE  Recorded(base, C, seen) \in [Chats -> {"none", "in", "out"}]
BY DEF Recorded

LEMMA PendingType ==
    ASSUME updates \in SUBSET Update, NEW taken, NEW chats \in SUBSET Chats
    PROVE  Pending(taken, chats) \in SUBSET Update
BY DEF Pending, Joined, Update

LEMMA ViewType ==
    ASSUME NEW present \in SUBSET Chats, NEW seen \in Views(present)
    PROVE  seen \in SUBSET Chats
BY DEF Views

-----------------------------------------------------------------------------
(* Type correctness.                                                       *)

LEMMA InitType == Init => TypeOK
BY ConstantsAssumption, NewRows DEF Init, TypeOK

\* What the user does.
LEMMA UserStep ==
    ASSUME TypeOK, User
    PROVE  TypeOK' /\ LegalStep
<1>1. PICK c \in Chats : user_joins(c) \/ user_leaves(c) \/ user_asks(c)
    BY DEF User
<1>2. LegalStep
    BY <1>1, UnchangedLegal DEF user_joins, user_leaves, user_asks
<1>3. CASE user_joins(c)
    BY <1>2, <1>3 DEF TypeOK, Update, Joined, user_joins, rules
<1>4. CASE user_leaves(c)
    BY <1>2, <1>4 DEF TypeOK, Update, user_leaves, rules
<1>5. CASE user_asks(c)
    BY <1>2, <1>5, ConstantsAssumption DEF TypeOK, Update, user_asks, rules
<1>6. QED BY <1>1, <1>2, <1>3, <1>4, <1>5

\* The join request handler.
LEMMA JoinRequestStep ==
    ASSUME TypeOK, NEW p \in Policies, join_request_handler(p)
    PROVE  TypeOK' /\ LegalStep
<1>1. PICK seen \in Views(member) :
         /\ join_request_compliant(p, seen) \/ join_request_missing(p, seen)
         /\ cache' = Recorded(cache, required[p], CachedView(seen))
    BY DEF join_request_handler
<1>2. cache' \in [Chats -> {"none", "in", "out"}]
    BY <1>1, RecordedType DEF TypeOK
<1>3. /\ member' \in SUBSET Chats /\ asked' \in SUBSET Chats
      /\ banned' \in SUBSET Chats
    BY <1>1, ConstantsAssumption
       DEF TypeOK, join_request_compliant, join_request_missing, Admit, world
<1>4. LegalStep
  <2>1. CASE join_request_compliant(p, seen)
      BY <2>1, RestoredLegal, UnchangedLegal DEF join_request_compliant
  <2>2. CASE join_request_missing(p, seen)
    <3> DEFINE new == [grant EXCEPT
                         ![p].status  = "NEEDS_REVIEW",
                         ![p].missing = required[p] \ CachedView(seen)]
    <3>1. new = [q \in Policies |-> new[q]] /\ Commit(new)
        BY <2>2 DEF join_request_missing, TypeOK
    <3>2. required[p] \ CachedView(seen) \in SUBSET Chats
        BY DEF TypeOK
    <3>3. \A q \in Policies : Legal(grant[q], new[q])
        BY <3>2, LegalRows DEF TypeOK
    <3> HIDE DEF new
    <3>4. QED BY <3>1, <3>3, CommitLegal
  <2>3. QED BY <1>1, <2>1, <2>2
<1>5. updates' \in SUBSET Update
    BY <1>3, PendingType DEF TypeOK, join_request_handler
<1>6. QED BY <1>2, <1>3, <1>4, <1>5
          DEF TypeOK, LegalStep, join_request_handler, rules

LEMMA UnguardedStep ==
    ASSUME TypeOK, NEW c \in Chats, approve_unguarded(c)
    PROVE  TypeOK' /\ LegalStep
<1>1. PICK ok \in SUBSET ({c} \cap Approvable) :
         /\ Admit(ok)
         /\ updates' = Pending({[kind |-> "request", chat |-> c]}, ok)
    BY DEF approve_unguarded
<1>2. updates' \in SUBSET Update
    BY <1>1, PendingType DEF TypeOK
<1>3. LegalStep
    BY UnchangedLegal DEF approve_unguarded
<1>4. QED BY <1>1, <1>2, <1>3 DEF TypeOK, approve_unguarded, Admit, rules

\* The Check button.
LEMMA CheckStep ==
    ASSUME TypeOK, NEW p \in Policies, check_callback(p)
    PROVE  TypeOK' /\ LegalStep
<1> DEFINE new(seen) == [grant EXCEPT
        ![p].status  = IF grant[p].deadline = NoDeadline
                       THEN "NEEDS_REVIEW" ELSE @,
        ![p].missing = required[p] \ seen]
<1>1. PICK seen \in Views(member),
           ok \in SUBSET ({Protected[p]} \cap Approvable) :
         /\ Commit(Restored({p})) \/ Commit(new(seen))
         /\ Admit(ok)
         /\ updates' = Pending({}, ok)
         /\ cache' = Recorded(cache, required[p], seen)
    BY DEF check_callback, check_compliant, check_missing
<1>2. ok \in SUBSET Chats
    BY ConstantsAssumption
<1>3. updates' \in SUBSET Update
    BY <1>1, <1>2, PendingType DEF TypeOK
<1>4. cache' \in [Chats -> {"none", "in", "out"}]
    BY <1>1, RecordedType DEF TypeOK
<1>5. ASSUME Commit(new(seen)) PROVE LegalStep
  <2>1. required[p] \ seen \in SUBSET Chats
      BY DEF TypeOK
  <2>2. new(seen) = [q \in Policies |-> new(seen)[q]]
      BY DEF TypeOK
  <2>3. Legal(grant[p], new(seen)[p])
    <3>1. CASE grant[p].deadline = NoDeadline
        BY <2>1, <3>1, LegalRows DEF TypeOK
    <3>2. CASE grant[p].deadline # NoDeadline
      <4>1. new(seen)[p] = [grant[p] EXCEPT !.missing = required[p] \ seen]
          BY <3>2 DEF TypeOK, Grants
      <4>2. QED BY <2>1, <4>1, LegalRows
    <3>3. QED BY <3>1, <3>2
  <2>4. \A q \in Policies : Legal(grant[q], new(seen)[q])
      BY <2>3, LegalRows DEF TypeOK
  <2> DEFINE table == new(seen)
  <2>5. /\ Commit(table) /\ table = [q \in Policies |-> table[q]]
        /\ \A q \in Policies : Legal(grant[q], table[q])
      BY <1>5, <2>2, <2>4
  <2> HIDE DEF table
  <2>6. QED BY <2>5, CommitLegal
<1>6. LegalStep
    BY <1>1, <1>5, RestoredLegal
<1>7. QED BY <1>1, <1>2, <1>3, <1>4, <1>6
          DEF TypeOK, LegalStep, check_callback, Admit, rules

\* The cache after a loop, whichever verdicts it saw.
LEMMA SweptType ==
    ASSUME NEW base \in [Chats -> {"none", "in", "out"}], NEW Q, NEW seen,
           NEW S, NEW ok, SweptCache(base, Q, seen, S, ok)
    PROVE  cache' \in [Chats -> {"none", "in", "out"}]
BY RecordedType DEF SweptCache

\* chat_member_handler, the branches that touch no grant of the chat.
LEMMA UnaffectingStep ==
    ASSUME TypeOK, NEW c \in Chats,
           left_unaffecting(c) \/ joined_unaffecting(c)
    PROVE  TypeOK' /\ LegalStep
<1>1. CASE left_unaffecting(c)
  <2>1. LegalStep
      BY <1>1, UnchangedLegal DEF left_unaffecting
  <2>2. QED BY <1>1, <2>1 DEF TypeOK, LegalStep, left_unaffecting, world, rules
<1>2. CASE joined_unaffecting(c)
  <2>1. PICK seen \in Views(member), looked \in SUBSET Waiting(c) :
           cache' = Recorded([cache EXCEPT ![c] = "none"],
                             RequiredBy(looked), seen)
      BY <1>2 DEF joined_unaffecting
  <2>2. [cache EXCEPT ![c] = "none"] \in [Chats -> {"none", "in", "out"}]
      BY DEF TypeOK
  <2>3. cache' \in [Chats -> {"none", "in", "out"}]
      BY <2>1, <2>2, RecordedType
  <2>4. LegalStep
      BY <1>2, UnchangedLegal DEF joined_unaffecting
  <2>5. QED BY <1>2, <2>3, <2>4
            DEF TypeOK, LegalStep, joined_unaffecting, world, rules
<1>3. QED BY <1>1, <1>2

\* The branch for a leave that affects grants.
LEMMA LeftStep ==
    ASSUME TypeOK, NEW c \in Chats, left_required_channel(c)
    PROVE  TypeOK' /\ LegalStep
<1>1. PICK seen \in Views(member) :
        LET Q         == Affected(c)
            graced    == {p \in Q \cap HasStatus({"ACTIVE", "GRACE"}) :
                             ~Compliant(p, seen)}
            prevented == (DependentsOf(graced) \cap HasStatus({"ACTIVE"}))
                             \ graced
        IN  /\ \E threat \in [prevented -> ProtectedBy(graced)] :
                  /\ \A p \in prevented : threat[p] \in required[p]
                  /\ Commit([p \in Policies |->
                                AfterLeave(p, Q, seen, graced, threat)])
            /\ cache' = Recorded(cache, RequiredBy(Q), seen)
    BY DEF left_required_channel
<1> DEFINE Q         == Affected(c)
           graced    == {p \in Q \cap HasStatus({"ACTIVE", "GRACE"}) :
                            ~Compliant(p, seen)}
           prevented == (DependentsOf(graced) \cap HasStatus({"ACTIVE"}))
                            \ graced
<1>2. PICK threat \in [prevented -> ProtectedBy(graced)] :
         Commit([p \in Policies |-> AfterLeave(p, Q, seen, graced, threat)])
    BY <1>1
<1> DEFINE new == [p \in Policies |-> AfterLeave(p, Q, seen, graced, threat)]
<1>3. ASSUME NEW p \in Policies
      PROVE  Legal(grant[p], AfterLeave(p, Q, seen, graced, threat))
  <2>1. required[p] \ seen \in SUBSET Chats
      BY DEF TypeOK
  <2>2. CASE p \in graced
      BY <2>1, <2>2, LegalRows DEF AfterLeave, HasStatus
  <2>3. CASE p \notin graced /\ p \in prevented
    <3>1. threat[p] \in Chats
        BY <2>3, ConstantsAssumption DEF ProtectedBy, Affected, HasStatus
    <3>2. QED BY <2>3, <3>1, LegalRows DEF AfterLeave, HasStatus
  <2>4. CASE p \notin graced /\ p \notin prevented
    <3>1. CASE p \in Q /\ ~Compliant(p, seen)
        BY <2>1, <2>4, <3>1, LegalRows DEF AfterLeave
    <3>2. CASE ~(p \in Q /\ ~Compliant(p, seen))
        BY <2>4, <3>2, LegalRows DEF AfterLeave
    <3>3. QED BY <3>1, <3>2
  <2>5. QED BY <2>2, <2>3, <2>4
<1>4. LegalStep
  <2>1. Commit(new) /\ new = [p \in Policies |-> new[p]]
        /\ \A p \in Policies : Legal(grant[p], new[p])
      BY <1>2, <1>3
  <2> HIDE DEF new
  <2>2. QED BY <2>1, CommitLegal
<1>5. cache' \in [Chats -> {"none", "in", "out"}]
    BY <1>1, RecordedType DEF TypeOK
<1>6. QED BY <1>4, <1>5
          DEF TypeOK, LegalStep, left_required_channel, world, rules

\* The branch for a join that affects grants.
LEMMA JoinedOutcome ==
    ASSUME TypeOK, NEW c \in Chats, NEW Q, NEW seen, NEW S,
           NEW ok \in SUBSET Approvable, NEW failed,
           joined_outcome(c, Q, seen, S, ok, failed), UNCHANGED rules
    PROVE  TypeOK' /\ LegalStep
<1>1. ok \in SUBSET Chats
    BY DEF TypeOK, Approvable
<1>2. updates' \in SUBSET Update
    BY <1>1, PendingType DEF TypeOK, joined_outcome
<1>3. cache' \in [Chats -> {"none", "in", "out"}]
    BY SweptType DEF TypeOK, joined_outcome
<1>4. LegalStep
  <2>1. CASE failed
      BY <2>1, UnchangedLegal DEF joined_outcome
  <2>2. CASE ~failed
      BY <2>2, RestoredLegal DEF joined_outcome
  <2>3. QED BY <2>1, <2>2
<1>5. QED BY <1>1, <1>2, <1>3, <1>4
          DEF TypeOK, LegalStep, joined_outcome, Admit, rules

\* However the second and third loop go, the handler ends in one such outcome.
LEMMA JoinedEnds ==
    ASSUME NEW c, NEW A, NEW seen, NEW S, NEW ok \in SUBSET Approvable,
           joined_cascade(c, A, seen, S, ok)
    PROVE  \E Q, T : \E more \in SUBSET Approvable : \E failed \in BOOLEAN :
              joined_outcome(c, Q, seen, T, more, failed)
<1>1. PICK reached, fit :
         \/ joined_outcome(c, A \cup reached, seen, S \cup fit, ok, TRUE)
         \/ joined_again(c, A, S \cup fit, seen, ok, reached)
    BY DEF joined_cascade
<1>2. CASE joined_again(c, A, S \cup fit, seen, ok, reached)
  <2>1. PICK again : \E more \in SUBSET (Approvable \ ok) :
           joined_outcome(c, A \cup reached, seen, (S \cup fit) \cup again,
                          ok \cup more, FALSE)
      BY <1>2 DEF joined_again
  <2>2. QED BY <2>1
<1>3. QED BY <1>1, <1>2

LEMMA JoinedStep ==
    ASSUME TypeOK, NEW c \in Chats, joined_required_channel(c)
    PROVE  TypeOK' /\ LegalStep
<1>1. PICK seen \in Views(member), S \in SUBSET Affected(c),
           ok \in SUBSET Approvable :
         joined_cascade(c, Affected(c), seen, S, ok)
    BY DEF joined_required_channel
<1>2. PICK Q, T : \E more \in SUBSET Approvable : \E failed \in BOOLEAN :
         joined_outcome(c, Q, seen, T, more, failed)
    BY <1>1, JoinedEnds
<1>3. UNCHANGED rules
    BY DEF joined_required_channel
<1>4. QED BY <1>2, <1>3, JoinedOutcome

\* The watchers and the scan.
LEMMA ExpiryStep ==
    ASSUME TypeOK, grace_expiry_watcher
    PROVE  TypeOK' /\ LegalStep
<1> DEFINE cascade(kicked, late) == late \cup ((DependentsOf(kicked) \ Due)
               \cap HasStatus({"ACTIVE", "GRACE", "NEEDS_REVIEW"}))
           absent(p, kicked, late, seen) ==
               IF p \in cascade(kicked, late) /\ ~Compliant(p, seen)
               THEN required[p] \ seen ELSE grant[p].missing
           row(p, kicked, late, seen) ==
               IF p \in Due
               THEN AfterExpiry(p, absent(p, kicked, late, seen))
               ELSE IF p \in cascade(kicked, late) /\ ~Compliant(p, seen)
               THEN AfterKick(p, absent(p, kicked, late, seen))
               ELSE grant[p]
<1>1. PICK kicked \in SUBSET Due : \E halfway \in SUBSET (Due \ kicked),
           late \in SUBSET (DependentsOf(kicked) \cap Due) :
         /\ member' = member \ ProtectedBy(kicked \cup halfway)
         /\ banned' = banned \cup ProtectedBy(halfway)
         /\ \E seen \in Views(member \ ProtectedBy(kicked)) :
               /\ Commit([p \in Policies |-> row(p, kicked, late, seen)])
               /\ cache' = Recorded(cache, RequiredBy(cascade(kicked, late)),
                                    seen)
    BY DEF grace_expiry_watcher
<1>2. PICK halfway \in SUBSET (Due \ kicked),
           late \in SUBSET (DependentsOf(kicked) \cap Due) :
         /\ member' = member \ ProtectedBy(kicked \cup halfway)
         /\ banned' = banned \cup ProtectedBy(halfway)
         /\ \E seen \in Views(member \ ProtectedBy(kicked)) :
               /\ Commit([p \in Policies |-> row(p, kicked, late, seen)])
               /\ cache' = Recorded(cache, RequiredBy(cascade(kicked, late)),
                                    seen)
    BY <1>1
<1>3. PICK seen \in Views(member \ ProtectedBy(kicked)) :
         /\ Commit([p \in Policies |-> row(p, kicked, late, seen)])
         /\ cache' = Recorded(cache, RequiredBy(cascade(kicked, late)), seen)
    BY <1>2
<1>4. ASSUME NEW p \in Policies
      PROVE  Legal(grant[p], row(p, kicked, late, seen))
  <2> DEFINE gone == absent(p, kicked, late, seen)
  <2>1. gone \in SUBSET Chats
      BY DEF TypeOK, Grants
  <2> HIDE DEF gone
  <2>2. CASE p \in Due
    <3>1. grant[p] \in Grants
        BY DEF TypeOK
    <3>2. row(p, kicked, late, seen) = AfterExpiry(p, gone)
        BY <2>2 DEF gone
    <3>3. Legal(grant[p], AfterExpiry(p, gone))
        BY <2>1, <2>2, <3>1, RevokedRow
           DEF Legal, Move, Due, HasStatus, Grants, AfterExpiry
    <3>4. QED BY <3>2, <3>3
  <2>3. CASE /\ p \notin Due /\ p \in cascade(kicked, late)
             /\ ~Compliant(p, seen)
    <3>1. grant[p].status \in {"ACTIVE", "GRACE", "NEEDS_REVIEW"}
        BY <2>3 DEF HasStatus
    <3>2. row(p, kicked, late, seen) = AfterKick(p, gone)
        BY <2>3 DEF gone
    <3>3. Legal(grant[p], AfterKick(p, gone))
        BY <2>1, <3>1, LegalRows DEF AfterKick
    <3>4. QED BY <3>2, <3>3
  <2>4. CASE /\ p \notin Due
             /\ ~(p \in cascade(kicked, late) /\ ~Compliant(p, seen))
      BY <2>4, LegalRows
  <2>5. QED BY <2>2, <2>3, <2>4
<1>5. LegalStep
  <2> DEFINE new == [p \in Policies |-> row(p, kicked, late, seen)]
  <2>1. /\ Commit(new) /\ new = [p \in Policies |-> new[p]]
        /\ \A p \in Policies : Legal(grant[p], new[p])
      BY <1>3, <1>4
  <2> HIDE DEF new
  <2>2. QED BY <2>1, CommitLegal
<1>6. cache' \in [Chats -> {"none", "in", "out"}]
    BY <1>3, RecordedType DEF TypeOK
<1>7. ProtectedBy(halfway) \in SUBSET Chats
    BY ConstantsAssumption DEF ProtectedBy, Due, HasStatus
<1>8. QED BY <1>2, <1>5, <1>6, <1>7
          DEF TypeOK, LegalStep, grace_expiry_watcher, rules

\* The restoration watcher commits whole and half restored rows, or nothing.
RestorationTable(whole, halved) ==
    [p \in Policies |-> IF p \in whole THEN Activated
                        ELSE IF p \in halved THEN HalfRestored(p)
                        ELSE grant[p]]

LEMMA RestorationCommits ==
    ASSUME grace_restoration_watcher
    PROVE  \E seen \in Views(member), whole \in SUBSET Policies :
           \E halved, C :
              /\ halved \subseteq HasStatus({"GRACE", "NEEDS_REVIEW"}) \ Running
              /\ \A p \in whole \cup halved : Compliant(p, seen)
              /\ Commit(RestorationTable(whole, halved)) \/ UNCHANGED grant
              /\ cache' = Recorded(cache, C, seen)
<1> DEFINE fine(seen, S) == {p \in S : Compliant(p, seen)}
<1>1. PICK seen \in Views(member), looked \in SUBSET Running :
         \E reached \in SUBSET CascadeOf(fine(seen, looked)) :
            LET first  == fine(seen, looked)
                halved == fine(seen, reached) \ Running
                whole  == first \cup (fine(seen, reached) \cap Running)
            IN  /\ \/ Commit(RestorationTable(whole, halved))
                   \/ UNCHANGED grant
                /\ cache' = Recorded(cache, RequiredBy(looked \cup reached), seen)
    BY DEF grace_restoration_watcher, RestorationTable
<1>2. PICK reached \in SUBSET CascadeOf(fine(seen, looked)) :
         LET first  == fine(seen, looked)
             halved == fine(seen, reached) \ Running
             whole  == first \cup (fine(seen, reached) \cap Running)
         IN  /\ \/ Commit(RestorationTable(whole, halved))
                \/ UNCHANGED grant
             /\ cache' = Recorded(cache, RequiredBy(looked \cup reached), seen)
    BY <1>1
<1> DEFINE halved == fine(seen, reached) \ Running
           whole  == fine(seen, looked) \cup (fine(seen, reached) \cap Running)
<1>3. whole \in SUBSET Policies
    BY DEF Running, HasStatus
<1>4. halved \subseteq HasStatus({"GRACE", "NEEDS_REVIEW"}) \ Running
    BY DEF CascadeOf
<1>5. \A p \in whole \cup halved : Compliant(p, seen)
    OBVIOUS
<1>6. QED BY <1>2, <1>3, <1>4, <1>5

LEMMA RestorationStep ==
    ASSUME TypeOK, grace_restoration_watcher
    PROVE  TypeOK' /\ LegalStep
<1>1. PICK seen, whole, halved, C :
         /\ halved \subseteq HasStatus({"GRACE", "NEEDS_REVIEW"}) \ Running
         /\ Commit(RestorationTable(whole, halved)) \/ UNCHANGED grant
         /\ cache' = Recorded(cache, C, seen)
    BY RestorationCommits
<1> DEFINE new == RestorationTable(whole, halved)
<1>2. new = [p \in Policies |-> new[p]] /\ \A p \in Policies : Legal(grant[p], new[p])
    BY <1>1, LegalRows DEF RestorationTable
<1> HIDE DEF new
<1>3. LegalStep
    BY <1>1, <1>2, CommitLegal, UnchangedLegal DEF new
<1>4. cache' \in [Chats -> {"none", "in", "out"}]
    BY <1>1, RecordedType DEF TypeOK
<1>5. QED BY <1>3, <1>4
          DEF TypeOK, LegalStep, grace_restoration_watcher, world, rules

LEMMA ScanStep ==
    ASSUME TypeOK, daily_compliance_scan
    PROVE  TypeOK' /\ LegalStep
<1> DEFINE row(p, view) == IF p \in Scanned /\ ~Compliant(p, view)
                           THEN OnNotice(required[p] \ view) ELSE grant[p]
<1>1. PICK seen \in Views(member) :
         /\ Commit([p \in Policies |-> row(p, CachedView(seen))])
         /\ cache' = Recorded(cache, RequiredBy(Scanned), CachedView(seen))
    BY DEF daily_compliance_scan
<1> DEFINE view == CachedView(seen)
           new  == [p \in Policies |-> row(p, view)]
<1>2. ASSUME NEW p \in Policies
      PROVE  Legal(grant[p], row(p, view))
  <2>1. required[p] \ view \in SUBSET Chats
      BY DEF TypeOK
  <2> HIDE DEF view
  <2>2. QED BY <2>1, LegalRows DEF Scanned, HasStatus
<1>3. LegalStep
  <2>1. /\ Commit(new) /\ new = [p \in Policies |-> new[p]]
        /\ \A p \in Policies : Legal(grant[p], new[p])
      BY <1>1, <1>2
  <2> HIDE DEF new
  <2>2. QED BY <2>1, CommitLegal
<1>4. cache' \in [Chats -> {"none", "in", "out"}]
    BY <1>1, RecordedType DEF TypeOK
<1>5. QED BY <1>3, <1>4
          DEF TypeOK, LegalStep, daily_compliance_scan, world, rules

\* What administrators do.
LEMMA SyncStep ==
    ASSUME TypeOK, admin_user_sync_command
    PROVE  TypeOK' /\ LegalStep
<1> DEFINE wiped == RequiredBy(Policies) \cup ProtectedBy(Policies)
           clean == [c \in Chats |-> IF c \in wiped THEN "none" ELSE cache[c]]
<1>1. PICK seen \in Views(member) :
         /\ Commit([p \in Policies |-> AfterSync(p, seen)])
         /\ cache' = Recorded(clean, RequiredBy(Policies), seen)
    BY DEF admin_user_sync_command
<1> DEFINE new == [p \in Policies |-> AfterSync(p, seen)]
<1>2. ASSUME NEW p \in Policies
      PROVE  Legal(grant[p], AfterSync(p, seen))
  <2>1. required[p] \ seen \in SUBSET Chats
      BY DEF TypeOK
  <2>2. QED BY <2>1, LegalRows DEF AfterSync
<1>3. LegalStep
  <2>1. /\ Commit(new) /\ new = [p \in Policies |-> new[p]]
        /\ \A p \in Policies : Legal(grant[p], new[p])
      BY <1>1, <1>2
  <2> HIDE DEF new
  <2>2. QED BY <2>1, CommitLegal
<1>4. cache' \in [Chats -> {"none", "in", "out"}]
  <2>1. clean \in [Chats -> {"none", "in", "out"}]
      BY DEF TypeOK
  <2> HIDE DEF clean
  <2>2. QED BY <1>1, <2>1, RecordedType
<1>5. QED BY <1>3, <1>4
          DEF TypeOK, LegalStep, admin_user_sync_command, world, rules

LEMMA AddChannelStep ==
    ASSUME TypeOK, NEW p \in Policies, NEW c \in Chats,
           add_channel(p, c)
    PROVE  TypeOK' /\ LegalStep
<1>1. PICK seen \in Views(member) :
         /\ grant' = IF grant[p].status = "ACTIVE" /\ c \notin CachedView(seen)
                     THEN [grant EXCEPT ![p] = OnNotice({c})] ELSE grant
         /\ cache' = IF grant[p].status = "ACTIVE"
                     THEN Recorded(cache, {c}, CachedView(seen)) ELSE cache
    BY DEF add_channel, Notified
<1>2. LegalStep
  <2>1. CASE grant' = grant
      BY <2>1, UnchangedLegal
  <2>2. CASE grant[p].status = "ACTIVE"
             /\ grant' = [grant EXCEPT ![p] = OnNotice({c})]
    <3>1. Legal(grant[p], OnNotice({c}))
        BY <2>2, LegalRows
    <3>2. QED BY <2>2, <3>1, LegalRows DEF LegalStep, Legal, TypeOK
  <2>3. QED BY <1>1, <2>1, <2>2
<1>3. cache' \in [Chats -> {"none", "in", "out"}]
    BY <1>1, RecordedType DEF TypeOK
<1>4. required' \in [Policies -> SUBSET Chats]
    BY DEF TypeOK, add_channel
<1>5. QED BY <1>2, <1>3, <1>4 DEF TypeOK, LegalStep, add_channel, world

LEMMA RemoveChannelStep ==
    ASSUME TypeOK, NEW p \in Policies, NEW c \in Chats,
           remove_channel(p, c)
    PROVE  TypeOK' /\ LegalStep
<1> DEFINE rest == grant[p].missing \ {c}
<1>1. grant' = [grant EXCEPT ![p].missing = rest]
    BY DEF remove_channel, TypeOK
<1>2. Legal(grant[p], [grant[p] EXCEPT !.missing = rest])
  <2>1. rest \in SUBSET Chats
      BY DEF TypeOK, Grants
  <2>2. QED BY <2>1, LegalRows
<1> HIDE DEF rest
<1>3. LegalStep
    BY <1>1, <1>2, LegalRows DEF LegalStep, Legal, TypeOK
<1>4. required' \in [Policies -> SUBSET Chats]
    BY DEF TypeOK, remove_channel
<1>5. QED BY <1>3, <1>4 DEF TypeOK, LegalStep, remove_channel, world

LEMMA AdminStep ==
    ASSUME TypeOK, Admin
    PROVE  TypeOK' /\ LegalStep
<1>1. CASE admin_user_sync_command
    BY <1>1, SyncStep
<1>2. CASE \E p \in Policies, c \in Chats :
              add_channel(p, c) \/ remove_channel(p, c)
    BY <1>2, AddChannelStep, RemoveChannelStep
<1>3. ASSUME NEW p \in Policies,
             admin_deactivate_policy(p) \/ reactivate_policy(p)
      PROVE  TypeOK' /\ LegalStep
  <2>1. LegalStep
      BY <1>3, UnchangedLegal DEF admin_deactivate_policy, reactivate_policy
  <2>2. QED BY <1>3, <2>1 DEF TypeOK, LegalStep, admin_deactivate_policy,
                              reactivate_policy, world
<1>4. QED BY <1>1, <1>2, <1>3 DEF Admin

\* What is left: lost updates, expiring verdicts.
LEMMA LossStep ==
    ASSUME TypeOK,
           \/ \E u \in updates : throttled(u)
           \/ \E c \in Chats : cache_expires(c)
    PROVE  TypeOK' /\ LegalStep
<1>1. LegalStep
    BY UnchangedLegal DEF throttled, cache_expires
<1>2. CASE \E u \in updates : throttled(u)
    BY <1>1, <1>2 DEF TypeOK, LegalStep, throttled, world, rules
<1>3. CASE \E c \in Chats : cache_expires(c)
    BY <1>1, <1>3 DEF TypeOK, LegalStep, cache_expires, world, rules
<1>4. QED BY <1>2, <1>3

LEMMA TickStep ==
    ASSUME TypeOK, Tick
    PROVE  /\ TypeOK'
           /\ \A p \in Policies :
                 /\ grant'[p].status = grant[p].status
                 /\ grant'[p].deadline = Elapsed(grant[p].deadline)
<1>1. ASSUME NEW p \in Policies
      PROVE  /\ grant'[p] \in Grants
             /\ grant'[p].status = grant[p].status
             /\ grant'[p].deadline = Elapsed(grant[p].deadline)
  <2>1. grant'[p] = [grant[p] EXCEPT !.deadline = Elapsed(grant[p].deadline)]
      BY DEF Tick, TypeOK, Grants
  <2>2. grant[p] \in Grants
      BY DEF TypeOK
  <2>3. Elapsed(grant[p].deadline) \in Deadlines
      BY <2>2, ConstantsAssumption
         DEF Grants, Deadlines, NoDeadline, Elapsed
  <2>4. QED BY <2>1, <2>2, <2>3 DEF Grants
<1>2. grant' \in [Policies -> Grants]
    BY <1>1 DEF Tick
<1>3. QED BY <1>1, <1>2 DEF TypeOK, Tick, world, rules

-----------------------------------------------------------------------------
(* What a step of the system does with rows.                               *)

\* Every step but the clock's moves each row legally.
LEMMA NextStep ==
    ASSUME TypeOK, Next
    PROVE  TypeOK' /\ (LegalStep \/ Tick)
<1>1. CASE User
    BY <1>1, UserStep
<1>2. CASE Handler
  <2>1. CASE \E p \in Policies : join_request_handler(p)
      BY <2>1, JoinRequestStep
  <2>2. ASSUME NEW c \in Chats,
               \/ approve_unguarded(c)
               \/ left_unaffecting(c)   \/ left_required_channel(c)
               \/ joined_unaffecting(c) \/ joined_required_channel(c)
        PROVE  TypeOK' /\ LegalStep
      BY <2>2, UnguardedStep, UnaffectingStep, LeftStep, JoinedStep
  <2>3. QED BY <1>2, <2>1, <2>2 DEF Handler
<1>3. CASE \E p \in Policies : check_callback(p)
    BY <1>3, CheckStep
<1>4. CASE Jobs
    BY <1>4, ExpiryStep, RestorationStep, ScanStep DEF Jobs
<1>5. CASE Admin
    BY <1>5, AdminStep
<1>6. CASE Tick
    BY <1>6, TickStep
<1>7. CASE \/ \E u \in updates : throttled(u)
           \/ \E c \in Chats : cache_expires(c)
    BY <1>7, LossStep
<1>8. QED BY <1>1, <1>2, <1>3, <1>4, <1>5, <1>6, <1>7 DEF Next

LEMMA Stutter ==
    ASSUME TypeOK, UNCHANGED vars PROVE TypeOK' /\ grant' = grant
BY DEF TypeOK, vars, world, rules

\* Every variable keeps to its type in every reachable state, however many
\* policies and chats there are.
THEOREM TypeCorrect == Spec => []TypeOK
<1>1. Init => TypeOK
    BY InitType
<1>2. TypeOK /\ [Next]_vars => TypeOK'
    BY NextStep, Stutter
<1>3. QED BY <1>1, <1>2, PTL DEF Spec

-----------------------------------------------------------------------------
(* The contract.                                                           *)

LEMMA LegalChange ==
    ASSUME LegalStep PROVE Contract!Change
<1>1. ASSUME NEW p \in Policies
      PROVE  \/ Contract!Keep(p) \/ Contract!Approve(p)
             \/ Contract!ApproveHalf(p) \/ Contract!Warn(p)
             \/ Contract!Threaten(p) \/ Contract!Review(p)
             \/ Contract!Revoke(p)
  <2>1. Move(grant[p], grant'[p])
      BY DEF LegalStep, Legal
  <2>2. QED BY <2>1 DEF Move, Contract!Keep, Contract!Approve, Contract!ApproveHalf,
            Contract!Warn, Contract!Threaten, Contract!Review, Contract!Revoke,
            Contract!None, NoDeadline
<1>2. QED BY <1>1 DEF Contract!Change

\* The handlers, jobs and commands together implement the contract: for every
\* set of policies, whatever they require, and under every fault modelled, a
\* grant is revoked only when the grace period it was given has run out.
THEOREM Implements == Spec => RefinesContract
<1>1. Init => Contract!Init
    BY DEF Init, NoGrant, Contract!Init, Contract!None, NoDeadline
<1>2. TypeOK /\ [Next]_vars =>
         [Contract!Next]_<<[p \in Policies |-> grant[p].status],
                           [p \in Policies |-> grant[p].deadline]>>
  <2>1. ASSUME TypeOK, Next, LegalStep PROVE Contract!Next
      BY <2>1, LegalChange DEF Contract!Next
  <2>2. ASSUME TypeOK, Tick PROVE Contract!Next
    <3>1. Contract!Tick
        BY <2>2, TickStep DEF Contract!Tick, Contract!Left, Elapsed
    <3>2. QED BY <3>1 DEF Contract!Next
  <2>3. ASSUME TypeOK, UNCHANGED vars
        PROVE  UNCHANGED <<[p \in Policies |-> grant[p].status],
                           [p \in Policies |-> grant[p].deadline]>>
      BY <2>3, Stutter
  <2>4. QED BY <2>1, <2>2, <2>3, NextStep
<1>3. QED BY <1>1, <1>2, TypeCorrect, PTL
          DEF Spec, RefinesContract, Contract!Spec
=============================================================================
