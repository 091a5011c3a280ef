-------------------------- MODULE GrantActionProofs --------------------------
(***************************************************************************)
(* What single steps of GrantLifecycle do to a grant: who makes it ACTIVE, *)
(* who revokes it, and whom an approval lets in.  From these follow the    *)
(* action properties of GrantProperties and MemberOnRecord.                *)
(***************************************************************************)
EXTENDS GrantLifecycleProofs

-----------------------------------------------------------------------------
(* Three things the steps are asked.                                       *)

\* No row is revoked, and none disappears.
Spares == \A p \in Policies :
    grant'[p].status \in {"NONE", "REVOKED"} =>
       grant'[p].status = grant[p].status

\* Who becomes ACTIVE complies, or did by the cache the request was judged by.
Earned(p) ==
    \/ Compliant(p, member')
    \/ /\ [kind |-> "request", chat |-> Protected[p]] \in updates \ updates'
       /\ Compliant(p, member \cup {c \in Chats : cache[c] = "in"})

Earns == \A p \in Policies :
    grant[p].status # "ACTIVE" /\ grant'[p].status = "ACTIVE" => Earned(p)

\* Undisturbed, an approval for an active policy finds or leaves a grant that
\* is not revoked, also when the handler fails afterwards.
Registers == ~Faults =>
    \A p \in Policies \cap active :
       Protected[p] \in member' \ member =>
          grant'[p].status \notin {"NONE", "REVOKED"}

\* The rows of a commit of restored grants.
LEMMA RestoringRows ==
    ASSUME TypeOK, NEW S, Commit(Restored(S))
    PROVE  /\ Spares
           /\ \A p \in Policies :
                 grant[p].status # "ACTIVE" /\ grant'[p].status = "ACTIVE" =>
                    p \in S
           /\ ~Faults => \A p \in Policies \cap S : grant'[p].status = "ACTIVE"
BY DEF Commit, Restored, Activated, Spares

LEMMA UnchangedRows ==
    ASSUME grant' = grant, member' \subseteq member
    PROVE  Spares /\ Earns /\ Registers
BY DEF Spares, Earns, Registers

\* Where membership is looked up, nobody absent is seen.
LEMMA ViewsPresent ==
    ASSUME NEW present, NEW seen \in Views(present)
    PROVE  seen \subseteq present
BY DEF Views

\* One loop: whatever its order, each grant it restores complies in the end.
\* For the restored grants that did not would, taken together, have no first.
LEMMA SweepCompliant ==
    ASSUME NEW Q, NEW seen, NEW S, NEW ok, Sweep(Q, seen, S, ok)
    PROVE  \A p \in S : Compliant(p, seen \cup ok)
<1> DEFINE T == {p \in S : ~Compliant(p, seen \cup ok)}
<1>1. SUFFICES ASSUME T # {} PROVE FALSE
    OBVIOUS
<1>2. PICK p \in T : Compliant(p, seen \cup (ok \cap ProtectedBy(S \ T)))
    BY <1>1 DEF Sweep
<1>3. Compliant(p, seen \cup ok)
    BY <1>2 DEF Compliant
<1>4. QED BY <1>2, <1>3

-----------------------------------------------------------------------------
(* Steps of the user and of one handler.                                   *)

LEMMA UserRows ==
    ASSUME TypeOK, User
    PROVE  Spares /\ Earns /\ Registers
<1>1. PICK c \in Chats : user_joins(c) \/ user_leaves(c) \/ user_asks(c)
    BY DEF User
<1>2. grant' = grant /\ \A p \in Policies : Protected[p] \notin member' \ member
    BY <1>1 DEF user_joins, user_leaves, user_asks, ProtectedBy
<1>3. QED BY <1>2 DEF Spares, Earns, Registers

LEMMA UnguardedRows ==
    ASSUME TypeOK, NEW c \in Chats, approve_unguarded(c)
    PROVE  Spares /\ Earns /\ Registers
<1>1. /\ grant' = grant /\ member' \subseteq member \cup {c}
      /\ c \notin ProtectedBy(active)
    BY DEF approve_unguarded, Admit
<1>2. QED BY <1>1 DEF Spares, Earns, Registers, ProtectedBy

\* The join request handler: the one step that may trust a cached verdict.
LEMMA JoinRequestRows ==
    ASSUME TypeOK, NEW p \in Policies, join_request_handler(p)
    PROVE  Spares /\ Earns /\ Registers
<1> DEFINE request == [kind |-> "request", chat |-> Protected[p]]
<1>1. PICK seen \in Views(member) :
         join_request_compliant(p, seen) \/ join_request_missing(p, seen)
    BY DEF join_request_handler
<1>2. request \in updates \ updates'
    BY DEF join_request_handler, Pending, Joined
<1>3. CachedView(seen) \subseteq member \cup {c \in Chats : cache[c] = "in"}
    BY <1>1, ViewsPresent DEF CachedView
<1>4. CASE join_request_compliant(p, seen)
  <2>1. Compliant(p, member \cup {c \in Chats : cache[c] = "in"})
      BY <1>3, <1>4 DEF join_request_compliant, Compliant
  <2>2. CASE Admit({Protected[p]}) /\ Commit(Restored({p}))
    <3>1. Spares
        BY <2>2, RestoringRows
    <3>2. Earns
        BY <1>2, <2>1, <2>2, RestoringRows DEF Earns, Earned
    <3>3. ASSUME ~Faults, NEW q \in Policies,
                 Protected[q] \in member' \ member
          PROVE  grant'[q].status \notin {"NONE", "REVOKED"}
      <4>1. Protected[q] = Protected[p]
          BY <2>2, <3>3 DEF Admit
      <4>2. q = p
          BY <4>1, ConstantsAssumption
      <4>3. QED BY <2>2, <3>3, <4>2, RestoringRows
    <3>4. QED BY <3>1, <3>2, <3>3 DEF Registers
  <2>3. CASE UNCHANGED <<world, grant>>
      BY <2>3, UnchangedRows DEF world
  <2>4. QED BY <1>4, <2>2, <2>3 DEF join_request_compliant
<1>5. CASE join_request_missing(p, seen)
    BY <1>5, UnchangedRows
       DEF join_request_missing, Commit, Spares, Earns, Registers, TypeOK,
           Grants, world
<1>6. QED BY <1>1, <1>4, <1>5

LEMMA CheckRows ==
    ASSUME TypeOK, NEW p \in Policies, check_callback(p)
    PROVE  Spares /\ Earns /\ Registers
<1>1. PICK seen \in Views(member), ok \in SUBSET ({Protected[p]} \cap Approvable) :
         /\ check_compliant(p, seen, ok) \/ check_missing(p, seen, ok)
         /\ Admit(ok)
    BY DEF check_callback
<1>2. member' = member \cup ok /\ seen \subseteq member'
    BY <1>1, ViewsPresent DEF Admit
<1>3. CASE check_compliant(p, seen, ok)
  <2>1. Commit(Restored({p})) /\ Compliant(p, member')
      BY <1>2, <1>3 DEF check_compliant, Compliant
  <2>2. Spares /\ Earns
      BY <2>1, RestoringRows DEF Earns, Earned
  <2>3. ASSUME ~Faults, NEW q \in Policies, Protected[q] \in member' \ member
        PROVE  grant'[q].status \notin {"NONE", "REVOKED"}
    <3>1. q = p
        BY <1>1, <1>2, <2>3, ConstantsAssumption
    <3>2. QED BY <2>1, <2>3, <3>1, RestoringRows
  <2>4. QED BY <2>2, <2>3 DEF Registers
<1>4. CASE check_missing(p, seen, ok)
    BY <1>2, <1>4 DEF check_missing, Commit, Spares, Earns, Registers,
       TypeOK, Grants
<1>5. QED BY <1>1, <1>3, <1>4
-----------------------------------------------------------------------------
(* chat_member_handler                                                     *)

\* What the loops after a join end with: grants T of the user, all compliant
\* by then, that are restored or, if the handler fails, left as they were, and
\* only chats of T opened to the user.
LEMMA LoopRows ==
    ASSUME TypeOK, NEW seen \in Views(member),
           NEW T \in SUBSET HasStatus({"ACTIVE", "GRACE", "NEEDS_REVIEW"}),
           NEW ok \in SUBSET ProtectedBy(T),
           \A p \in T : Compliant(p, seen \cup ok),
           Admit(ok), Commit(Restored(T)) \/ UNCHANGED grant
    PROVE  Spares /\ Earns /\ Registers
<1>1. member' = member \cup ok /\ seen \cup ok \subseteq member'
    BY ViewsPresent DEF Admit
<1>2. \A p \in T : p \in Policies /\ Compliant(p, member')
    BY <1>1 DEF Compliant, HasStatus
<1>3. Spares /\ Earns
  <2>1. CASE Commit(Restored(T))
      BY <1>2, <2>1, RestoringRows DEF Earns, Earned
  <2>2. CASE UNCHANGED grant
      BY <2>2 DEF Spares, Earns
  <2>3. QED BY <2>1, <2>2
<1>4. ASSUME NEW q \in Policies, Protected[q] \in member' \ member
      PROVE  grant'[q].status \notin {"NONE", "REVOKED"}
  <2>1. PICK p \in T : Protected[q] = Protected[p]
      BY <1>1, <1>4 DEF ProtectedBy
  <2>2. q = p
      BY <1>2, <2>1, ConstantsAssumption
  <2>3. grant[q].status \in {"ACTIVE", "GRACE", "NEEDS_REVIEW"}
      BY <2>1, <2>2 DEF HasStatus
  <2>4. QED BY <1>3, <2>3 DEF Spares
<1>5. QED BY <1>3, <1>4 DEF Registers

\* Where no affected grant is found the handler restores and approves nothing.
LEMMA JoinedUnaffectingRows ==
    ASSUME TypeOK, NEW c \in Chats, joined_unaffecting(c)
    PROVE  Spares /\ Earns /\ Registers
BY UnchangedRows DEF joined_unaffecting, world

\* The third loop adds grants that comply with what it and the others approved.
LEMMA AgainRows ==
    ASSUME NEW c, NEW A, NEW reached, NEW seen, NEW ok,
           A \subseteq HasStatus({"ACTIVE", "GRACE", "NEEDS_REVIEW"}),
           NEW S \in SUBSET HasStatus({"ACTIVE", "GRACE", "NEEDS_REVIEW"}),
           ok \in SUBSET ProtectedBy(S),
           \A p \in S : Compliant(p, seen \cup ok),
           joined_again(c, A, S, seen, ok, reached)
    PROVE  \E T \in SUBSET HasStatus({"ACTIVE", "GRACE", "NEEDS_REVIEW"}) :
           \E all \in SUBSET ProtectedBy(T) :
              /\ \A p \in T : Compliant(p, seen \cup all)
              /\ Admit(all) /\ Commit(Restored(T))
<1> DEFINE late == (A \ S) \cap HasStatus({"GRACE", "NEEDS_REVIEW"})
<1>1. PICK again \in SUBSET late :
      \E more \in SUBSET (Approvable \ ok) :
         /\ Sweep(late, seen \cup ok, again, more)
         /\ joined_outcome(c, A \cup reached, seen, S \cup again,
                           ok \cup more, FALSE)
    BY DEF joined_again
<1>2. PICK more \in SUBSET (Approvable \ ok) :
         /\ Sweep(late, seen \cup ok, again, more)
         /\ joined_outcome(c, A \cup reached, seen, S \cup again,
                           ok \cup more, FALSE)
    BY <1>1
<1> DEFINE T == S \cup again
           all == ok \cup more
<1>3. T \in SUBSET HasStatus({"ACTIVE", "GRACE", "NEEDS_REVIEW"})
    OBVIOUS
<1> HIDE DEF late
<1>4. all \in SUBSET ProtectedBy(T)
    BY <1>2 DEF Sweep, ProtectedBy
<1>5. ASSUME NEW p \in T PROVE Compliant(p, seen \cup all)
  <2>1. CASE p \in S
      BY <2>1 DEF Compliant
  <2>2. CASE p \in again
    <3>1. Compliant(p, (seen \cup ok) \cup more)
        BY <1>2, <2>2, SweepCompliant
    <3>2. QED BY <3>1 DEF Compliant
  <2>3. QED BY <2>1, <2>2
<1>6. Admit(all) /\ Commit(Restored(T))
    BY <1>2 DEF joined_outcome
<1> HIDE DEF T, all
<1>7. QED BY <1>3, <1>4, <1>5, <1>6

LEMMA JoinedRows ==
    ASSUME TypeOK, NEW c \in Chats, joined_required_channel(c)
    PROVE  Spares /\ Earns /\ Registers
<1> DEFINE A == Affected(c)
           Mine == HasStatus({"ACTIVE", "GRACE", "NEEDS_REVIEW"})
<1>1. PICK seen \in Views(member), S \in SUBSET A, ok \in SUBSET Approvable :
         Sweep(A, seen, S, ok) /\ joined_cascade(c, A, seen, S, ok)
    BY DEF joined_required_channel
<1>2. A \subseteq Mine /\ S \in SUBSET Mine
    BY DEF Affected
<1>3. /\ ok \in SUBSET ProtectedBy(S)
      /\ \A p \in S : Compliant(p, seen \cup ok)
    BY <1>1, SweepCompliant DEF Sweep
<1>4. PICK turned \in SUBSET (A \ S) :
      \E reached \in SUBSET JoinCascade(A, S, turned) :
         LET fit == {p \in reached : Compliant(p, seen \cup ok)}
         IN  \/ joined_outcome(c, A \cup reached, seen, S \cup fit, ok, TRUE)
             \/ joined_again(c, A, S \cup fit, seen, ok, reached)
    BY <1>1 DEF joined_cascade
<1>5. PICK reached \in SUBSET JoinCascade(A, S, turned) :
         LET fit == {p \in reached : Compliant(p, seen \cup ok)}
         IN  \/ joined_outcome(c, A \cup reached, seen, S \cup fit, ok, TRUE)
             \/ joined_again(c, A, S \cup fit, seen, ok, reached)
    BY <1>4
<1> DEFINE fit == {p \in reached : Compliant(p, seen \cup ok)}
           kept == S \cup fit
<1>6. /\ kept \in SUBSET Mine /\ ok \in SUBSET ProtectedBy(kept)
      /\ \A p \in kept : Compliant(p, seen \cup ok)
    BY <1>2, <1>3 DEF JoinCascade, HasStatus, ProtectedBy
<1>7. \/ joined_outcome(c, A \cup reached, seen, kept, ok, TRUE)
      \/ joined_again(c, A, kept, seen, ok, reached)
    BY <1>5
<1> HIDE DEF A, kept
<1>8. CASE joined_outcome(c, A \cup reached, seen, kept, ok, TRUE)
    BY <1>6, <1>8, LoopRows DEF joined_outcome
<1>9. CASE joined_again(c, A, kept, seen, ok, reached)
  <2>1. PICK T \in SUBSET Mine : \E all \in SUBSET ProtectedBy(T) :
           /\ \A p \in T : Compliant(p, seen \cup all)
           /\ Admit(all) /\ Commit(Restored(T))
      BY <1>2, <1>6, <1>9, AgainRows
  <2>2. QED BY <2>1, LoopRows
<1>10. QED BY <1>7, <1>8, <1>9

\* A leave makes no grant ACTIVE and revokes none.
LEMMA LeftRows ==
    ASSUME TypeOK, NEW c \in Chats, left_required_channel(c)
    PROVE  Spares /\ Earns /\ Registers
<1>1. PICK seen, graced, threat :
         Commit([p \in Policies |->
                    AfterLeave(p, Affected(c), seen, graced, threat)])
    BY DEF left_required_channel
<1>2. ASSUME NEW p \in Policies
      PROVE  LET row == AfterLeave(p, Affected(c), seen, graced, threat)
             IN  row.status = "GRACE" \/ row.status = grant[p].status
    BY DEF AfterLeave, OnNotice, Threatened, TypeOK, Grants
<1>3. \A p \in Policies :
         grant'[p].status = "GRACE" \/ grant'[p].status = grant[p].status
    BY <1>1, <1>2 DEF Commit
<1>4. QED BY <1>3 DEF left_required_channel, world, Spares, Earns, Registers

-----------------------------------------------------------------------------
(* The jobs and the administrators.                                        *)

\* The expiry watcher revokes what is due, and nothing else; undisturbed it
\* also removes the user from each chat, and warns every dependent grant.
LEMMA ExpiryRows ==
    ASSUME TypeOK, grace_expiry_watcher
    PROVE  /\ Earns
           /\ \A p \in Policies \ Due :
                 grant'[p].status \in {"NONE", "REVOKED"} =>
                    grant'[p].status = grant[p].status
           /\ member' \subseteq member
           /\ ~Faults => member' = member \ ProtectedBy(Due)
           /\ ~Faults => \A p \in Due : \A q \in DependentsOf({p}) :
                 /\ grant'[q].status # "ACTIVE"
                 /\ ~(/\ grant'[q].status = "GRACE"
                      /\ grant'[q].deadline = NoDeadline)
<1> DEFINE cascade(kicked, late) == late \cup ((DependentsOf(kicked) \ Due)
               \cap HasStatus({"ACTIVE", "GRACE", "NEEDS_REVIEW"}))
           absent(p, kicked, late, seen) ==
               IF p \in cascade(kicked, late) /\ ~Compliant(p, seen)
               THEN required[p] \ seen ELSE grant[p].missing
           row(p, kicked, late, seen) ==
               IF p \in Due
               THEN AfterExpiry(p, absent(p, kicked, late, seen))
               ELSE IF p \in cascade(kicked, late) /\ ~Compliant(p, seen)
               THEN AfterKick(p, absent(p, kicked, late, seen))
               ELSE grant[p]
<1>1. PICK kicked \in SUBSET Due : \E halfway \in SUBSET (Due \ kicked),
           late \in SUBSET (DependentsOf(kicked) \cap Due) :
         /\ Faults \/ kicked = Due
         /\ member' = member \ ProtectedBy(kicked \cup halfway)
         /\ \E seen \in Views(member \ ProtectedBy(kicked)) :
               Commit([p \in Policies |-> row(p, kicked, late, seen)])
    BY DEF grace_expiry_watcher
<1>2. PICK halfway \in SUBSET (Due \ kicked),
           late \in SUBSET (DependentsOf(kicked) \cap Due),
           seen \in Views(member \ ProtectedBy(kicked)) :
         /\ Faults \/ kicked = Due
         /\ member' = member \ ProtectedBy(kicked \cup halfway)
         /\ Commit([p \in Policies |-> row(p, kicked, late, seen)])
    BY <1>1
<1> DEFINE warned == cascade(kicked, late)
           gone(p) == absent(p, kicked, late, seen)
<1>3. ASSUME NEW p \in Policies
      PROVE  /\ p \in Due => row(p, kicked, late, seen).status = "REVOKED"
             /\ p \notin Due /\ p \in warned /\ ~Compliant(p, seen) =>
                   /\ row(p, kicked, late, seen) = AfterKick(p, gone(p))
                   /\ grant[p].status \in {"ACTIVE", "GRACE", "NEEDS_REVIEW"}
             /\ p \notin Due /\ ~(p \in warned /\ ~Compliant(p, seen)) =>
                   row(p, kicked, late, seen) = grant[p]
    BY DEF AfterExpiry, HasStatus, Due, TypeOK, Grants
<1>4. ASSUME NEW p \in Policies,
             grant[p].status \in {"ACTIVE", "GRACE", "NEEDS_REVIEW"}
      PROVE  /\ AfterKick(p, gone(p)).status \in {"GRACE", "NEEDS_REVIEW"}
             /\ AfterKick(p, gone(p)).status = "GRACE" =>
                   AfterKick(p, gone(p)).deadline # NoDeadline
  <2>1. grant[p] \in Grants /\ Grace # NoDeadline
      BY ConstantsAssumption DEF TypeOK, NoDeadline
  <2> HIDE DEF gone
  <2>2. QED BY <1>4, <2>1 DEF AfterKick, OnNotice, Grants
<1> DEFINE new == [p \in Policies |-> row(p, kicked, late, seen)]
<1>5. \A p \in Policies : new[p] = row(p, kicked, late, seen)
    OBVIOUS
<1>6. Commit(new)
    BY <1>2
<1> HIDE DEF row, gone, new
<1>7. Earns /\ \A p \in Policies \ Due :
                  grant'[p].status \in {"NONE", "REVOKED"} =>
                     grant'[p].status = grant[p].status
  <2>1. \A p \in Policies : new[p].status # "ACTIVE"
                             \/ new[p].status = grant[p].status
      BY <1>3, <1>4, <1>5
  <2>2. \A p \in Policies \ Due : new[p].status \in {"NONE", "REVOKED"} =>
                                   new[p].status = grant[p].status
      BY <1>3, <1>4, <1>5
  <2>3. QED BY <1>6, <2>1, <2>2 DEF Commit, Earns
<1>8. ~Faults => kicked = Due /\ halfway = {} /\ member' = member \ ProtectedBy(Due)
    BY <1>2
<1>9. ASSUME ~Faults, NEW p \in Due, NEW q \in DependentsOf({p})
      PROVE  /\ grant'[q].status # "ACTIVE"
             /\ ~(/\ grant'[q].status = "GRACE"
                  /\ grant'[q].deadline = NoDeadline)
  <2>1. q \in Policies /\ Protected[p] \in required[q] /\ q \in DependentsOf(Due)
      BY DEF DependentsOf, ProtectedBy, Requiring, Due, HasStatus
  <2>2. ~Compliant(q, seen)
    <3>1. Protected[p] \notin seen
        BY <1>2, <1>8, <1>9, ViewsPresent DEF ProtectedBy
    <3>2. QED BY <2>1, <3>1 DEF Compliant
  <2>3. grant' = new
      BY <1>6, <1>9 DEF Commit
  <2>4. CASE q \in Due
      BY <1>3, <1>5, <2>1, <2>3, <2>4
  <2>5. CASE q \notin Due /\ grant[q].status \in {"ACTIVE", "GRACE", "NEEDS_REVIEW"}
    <3>1. q \in warned
        BY <1>8, <1>9, <2>1, <2>5 DEF HasStatus
    <3>2. grant'[q] = AfterKick(q, gone(q))
        BY <1>3, <1>5, <2>1, <2>2, <2>3, <2>5, <3>1
    <3>3. QED BY <1>4, <2>1, <2>5, <3>2
  <2>6. CASE /\ q \notin Due
             /\ grant[q].status \notin {"ACTIVE", "GRACE", "NEEDS_REVIEW"}
      BY <1>3, <1>5, <2>1, <2>3, <2>6
  <2>7. QED BY <2>4, <2>5, <2>6
<1>10. member' \subseteq member
    BY <1>2
<1>11. QED BY <1>7, <1>8, <1>9, <1>10

\* The restoration watcher restores, wholly or by half, grants it has just
\* looked up.
LEMMA RestorationRows ==
    ASSUME TypeOK, grace_restoration_watcher
    PROVE  Spares /\ Earns /\ Registers
<1>1. PICK seen \in Views(member), whole \in SUBSET Policies :
      \E halved :
         /\ \A p \in whole \cup halved : Compliant(p, seen)
         /\ Commit(RestorationTable(whole, halved)) \/ UNCHANGED grant
    BY RestorationCommits
<1>2. PICK halved :
         /\ \A p \in whole \cup halved : Compliant(p, seen)
         /\ Commit(RestorationTable(whole, halved)) \/ UNCHANGED grant
    BY <1>1
<1>3. seen \subseteq member' /\ member' = member
    BY ViewsPresent DEF grace_restoration_watcher, world
<1>4. ASSUME NEW p \in Policies
      PROVE  \/ p \in whole \cup halved /\ grant'[p].status = "ACTIVE"
             \/ grant'[p] = grant[p]
  <2>1. grant[p] \in Grants
      BY DEF TypeOK
  <2>2. HalfRestored(p).status = "ACTIVE" /\ Activated.status = "ACTIVE"
      BY <2>1 DEF HalfRestored, Activated, Grants
  <2>3. QED BY <1>2, <2>2 DEF Commit, RestorationTable
<1>5. Spares /\ Earns
    BY <1>2, <1>3, <1>4 DEF Spares, Earns, Earned, Compliant
<1>6. QED BY <1>3, <1>5 DEF Registers

LEMMA ScanRows ==
    ASSUME TypeOK, daily_compliance_scan
    PROVE  Spares /\ Earns /\ Registers
<1>1. PICK seen \in Views(member) :
         Commit([p \in Policies |->
                    IF p \in Scanned /\ ~Compliant(p, CachedView(seen))
                    THEN OnNotice(required[p] \ CachedView(seen)) ELSE grant[p]])
    BY DEF daily_compliance_scan
<1>2. \A p \in Policies :
         grant'[p].status = "GRACE" \/ grant'[p].status = grant[p].status
    BY <1>1 DEF Commit, OnNotice
<1>3. QED BY <1>2 DEF daily_compliance_scan, world, Spares, Earns, Registers

LEMMA SyncRows ==
    ASSUME TypeOK, admin_user_sync_command
    PROVE  Spares /\ Earns /\ Registers
<1>1. PICK seen \in Views(member) :
         Commit([p \in Policies |-> AfterSync(p, seen)])
    BY DEF admin_user_sync_command
<1>2. ASSUME NEW p \in Policies
      PROVE  LET row == AfterSync(p, seen)
             IN  /\ row.status \in {"NONE", "REVOKED"} =>
                       row.status = grant[p].status
                 /\ row.status = "ACTIVE" /\ grant[p].status # "ACTIVE" =>
                       Compliant(p, seen)
    BY DEF AfterSync, Activated, TypeOK, Grants
<1>3. seen \subseteq member' /\ member' = member
    BY ViewsPresent DEF admin_user_sync_command, world
<1>4. \A p \in Policies :
         /\ grant'[p].status \in {"NONE", "REVOKED"} =>
               grant'[p].status = grant[p].status
         /\ grant'[p].status = "ACTIVE" /\ grant[p].status # "ACTIVE" =>
               Compliant(p, seen)
    BY <1>1, <1>2 DEF Commit
<1>5. QED BY <1>3, <1>4 DEF Spares, Earns, Earned, Registers, Compliant

\* Every other command keeps the statuses, or warns.
LEMMA AdminRows ==
    ASSUME TypeOK, Admin
    PROVE  Spares /\ Earns /\ Registers
<1>1. ASSUME NEW p \in Policies, NEW c \in Chats,
             add_channel(p, c) \/ remove_channel(p, c)
      PROVE  Spares /\ Earns /\ Registers
  <2>1. member' = member
      BY <1>1 DEF add_channel, remove_channel, world
  <2>2. \A q \in Policies :
           grant'[q].status = "GRACE" \/ grant'[q].status = grant[q].status
      BY <1>1 DEF add_channel, remove_channel, OnNotice, TypeOK, Grants
  <2>3. QED BY <2>1, <2>2 DEF Spares, Earns, Registers
<1>2. ASSUME NEW p \in Policies,
             admin_deactivate_policy(p) \/ reactivate_policy(p)
      PROVE  Spares /\ Earns /\ Registers
    BY <1>2, UnchangedRows DEF admin_deactivate_policy, reactivate_policy, world
<1>3. QED BY <1>1, <1>2, SyncRows DEF Admin

-----------------------------------------------------------------------------
(* Any step.                                                               *)

LEMMA StepRows ==
    ASSUME TypeOK, Next
    PROVE  Earns /\ ((Spares /\ Registers) \/ grace_expiry_watcher)
<1>1. CASE User
    BY <1>1, UserRows
<1>2. CASE Handler
  <2>1. CASE \E p \in Policies : join_request_handler(p)
      BY <2>1, JoinRequestRows
  <2>2. ASSUME NEW c \in Chats, left_unaffecting(c)
        PROVE  Spares /\ Earns /\ Registers
      BY <2>2, UnchangedRows DEF left_unaffecting, world
  <2>3. ASSUME NEW c \in Chats,
               \/ approve_unguarded(c)  \/ left_required_channel(c)
               \/ joined_unaffecting(c) \/ joined_required_channel(c)
        PROVE  Spares /\ Earns /\ Registers
      BY <2>3, UnguardedRows, LeftRows, JoinedUnaffectingRows, JoinedRows
  <2>4. QED BY <1>2, <2>1, <2>2, <2>3 DEF Handler
<1>3. CASE \E p \in Policies : check_callback(p)
    BY <1>3, CheckRows
<1>4. CASE Jobs
    BY <1>4, ExpiryRows, RestorationRows, ScanRows DEF Jobs
<1>5. CASE Admin
    BY <1>5, AdminRows
<1>6. CASE Tick
  <2>1. \A p \in Policies : grant'[p].status = grant[p].status
      BY <1>6, TickStep
  <2>2. QED BY <1>6, <2>1 DEF Tick, world, Spares, Earns, Registers
<1>7. CASE \/ \E u \in updates : throttled(u)
           \/ \E c \in Chats : cache_expires(c)
    BY <1>7, UnchangedRows DEF throttled, cache_expires, world
<1>8. QED BY <1>1, <1>2, <1>3, <1>4, <1>5, <1>6, <1>7 DEF Next

-----------------------------------------------------------------------------
(* The theorems.                                                           *)

\* Whatever fails, in whichever order loops look at grants: only a user who is
\* in every required channel, or was by the cache a join request is judged by,
\* gets an ACTIVE grant.
THEOREM ActivationEarned == Spec => ActivatedOnlyIfCompliant
<1> DEFINE Fine == \A p \in Policies :
        grant[p].status # "ACTIVE" /\ grant'[p].status = "ACTIVE" =>
           \/ Compliant(p, member')
           \/ /\ [kind |-> "request", chat |-> Protected[p]]
                    \in updates \ updates'
              /\ Compliant(p, member \cup {c \in Chats : cache[c] = "in"})
<1>1. TypeOK /\ [Next]_vars => [Fine]_vars
  <2> SUFFICES ASSUME TypeOK, Next PROVE Fine
      OBVIOUS
  <2>1. QED BY StepRows DEF Earns, Earned
<1>2. QED BY <1>1, TypeCorrect, PTL DEF Spec, ActivatedOnlyIfCompliant

\* While Telegram and the database answer: a revocation warns every grant that
\* requires the chat, however many grants fall due in the same run.
THEOREM CascadeComplete ==
    ASSUME ~Faults
    PROVE  Spec => KickCascades
<1> DEFINE Cascades == \A p \in Policies :
        grant[p].status # "REVOKED" /\ grant'[p].status = "REVOKED" =>
           \A q \in DependentsOf({p}) :
              /\ grant'[q].status # "ACTIVE"
              /\ ~(/\ grant'[q].status = "GRACE"
                   /\ grant'[q].deadline = NoDeadline)
<1>1. TypeOK /\ [Next]_vars => [Cascades]_vars
  <2> SUFFICES ASSUME TypeOK, Next PROVE Cascades
      OBVIOUS
  <2>1. CASE Spares
      BY <2>1 DEF Spares
  <2>2. CASE grace_expiry_watcher
    <3>1. \A p \in Policies \ Due : grant'[p].status = "REVOKED" =>
                                     grant[p].status = "REVOKED"
        BY <2>2, ExpiryRows
    <3>2. QED BY <2>2, <3>1, ExpiryRows
  <2>3. QED BY <2>1, <2>2, StepRows
<1>2. QED BY <1>1, TypeCorrect, PTL DEF Spec, KickCascades

\* A policy no administrator switches off stays active, so that
\* approve_unguarded never opens its chat; that and the invariant make
\* MemberOnRecord inductive, for those policies.
Standing == Policies \ Toggled

OnRecord(p) == Protected[p] \in member => grant[p].status \notin {"NONE", "REVOKED"}

RecordInv == TypeOK /\ Standing \subseteq active /\ \A p \in Standing : OnRecord(p)

LEMMA StandingActive ==
    ASSUME Next, Standing \subseteq active
    PROVE  Standing \subseteq active'
<1>1. CASE User
    BY <1>1 DEF User, user_joins, user_leaves, user_asks, rules
<1>2. CASE Handler
    BY <1>2 DEF Handler, join_request_handler, approve_unguarded,
       left_unaffecting, left_required_channel, joined_unaffecting,
       joined_required_channel, rules
<1>3. CASE \E p \in Policies : check_callback(p)
    BY <1>3 DEF check_callback, rules
<1>4. CASE Jobs
    BY <1>4 DEF Jobs, grace_expiry_watcher, grace_restoration_watcher,
       daily_compliance_scan, rules
<1>5. CASE Admin
    BY <1>5 DEF Admin, admin_user_sync_command, add_channel, remove_channel,
       admin_deactivate_policy, reactivate_policy, rules, Standing
<1>6. CASE \/ Tick \/ \E u \in updates : throttled(u)
           \/ \E c \in Chats : cache_expires(c)
    BY <1>6 DEF Tick, throttled, cache_expires, rules
<1>7. QED BY <1>1, <1>2, <1>3, <1>4, <1>5, <1>6 DEF Next

LEMMA RecordStep ==
    ASSUME ~Faults, RecordInv, [Next]_vars
    PROVE  RecordInv'
<1>1. TypeOK /\ Standing \subseteq active /\ \A p \in Standing : OnRecord(p)
    BY DEF RecordInv
<1>2. TypeOK'
    BY <1>1, NextStep, Stutter
<1>3. CASE UNCHANGED vars
    BY <1>1, <1>2, <1>3 DEF RecordInv, OnRecord, vars, world, rules
<1>4. CASE Next
  <2>1. Standing \subseteq active'
      BY <1>1, <1>4, StandingActive
  <2>2. CASE Spares /\ Registers
    <3>1. ASSUME NEW p \in Standing, Protected[p] \in member'
          PROVE  grant'[p].status \notin {"NONE", "REVOKED"}
      <4>1. CASE Protected[p] \in member
          BY <1>1, <2>2, <4>1 DEF OnRecord, Spares, Standing
      <4>2. CASE Protected[p] \notin member
          BY <1>1, <2>2, <3>1, <4>2 DEF Registers, Standing
      <4>3. QED BY <4>1, <4>2
    <3>2. QED BY <1>2, <2>1, <3>1 DEF RecordInv, OnRecord
  <2>3. CASE grace_expiry_watcher
    <3>1. /\ member' = member \ ProtectedBy(Due)
          /\ \A p \in Policies \ Due :
                grant'[p].status \in {"NONE", "REVOKED"} =>
                   grant'[p].status = grant[p].status
        BY <1>1, <2>3, ExpiryRows
    <3>2. \A p \in Due : Protected[p] \notin member'
        BY <3>1 DEF ProtectedBy
    <3>3. ASSUME NEW p \in Standing PROVE OnRecord(p)'
        BY <1>1, <3>1, <3>2 DEF OnRecord, Standing
    <3>4. QED BY <1>2, <2>1, <3>3 DEF RecordInv
  <2>4. QED BY <1>1, <1>4, <2>2, <2>3, StepRows
<1>5. QED BY <1>3, <1>4

\* While Telegram and the database answer, and for every policy administrators
\* leave active, whatever they do to the others and to any requirements:
\* nobody is in the protected chat without a grant, or with a revoked one.
THEOREM StandingRecorded ==
    ASSUME ~Faults
    PROVE  Spec => [](\A p \in Policies \ Toggled :
              Protected[p] \in member =>
                 grant[p].status \notin {"NONE", "REVOKED"})
<1>1. Init => RecordInv
    BY InitType DEF Init, RecordInv, OnRecord, Standing, NoGrant
<1>2. RecordInv /\ [Next]_vars => RecordInv'
    BY RecordStep
<1>3. RecordInv => \A p \in Policies \ Toggled :
         Protected[p] \in member => grant[p].status \notin {"NONE", "REVOKED"}
    BY DEF RecordInv, OnRecord, Standing
<1>4. QED BY <1>1, <1>2, <1>3, PTL DEF Spec

\* The same for all policies, where none is ever deactivated.
THEOREM MembersRecorded ==
    ASSUME ~Faults, Toggled = {}
    PROVE  Spec => []MemberOnRecord
<1>1. (\A p \in Policies \ Toggled :
          Protected[p] \in member => grant[p].status \notin {"NONE", "REVOKED"})
         => MemberOnRecord
    BY DEF MemberOnRecord
<1>2. QED BY <1>1, StandingRecorded, PTL
=============================================================================
