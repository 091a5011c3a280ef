--------------------------- MODULE GrantLifecycle ---------------------------
(***************************************************************************)
(* The life of one user's grants: how Telegram updates, the Check button,  *)
(* the three scheduled jobs and the administrators' commands change the    *)
(* rows of membership_grants, what the bot does to the user's membership   *)
(* of the protected chats, and the cached membership verdicts the          *)
(* decisions are taken on.                                                 *)
(*                                                                         *)
(* One user is enough: every handler and job filters its rows by user_id,  *)
(* and rows of two users meet in no decision.  A handler is one step here; *)
(* what its awaits interleave with belongs to the modules on races.        *)
(* A loop over grants is described by the set it ends with.                *)
(***************************************************************************)
EXTENDS Integers, FiniteSets

CONSTANTS
    Policies,       \* rows of access_policies
    Chats,          \* Telegram chats, protected or required
    Protected,      \* Protected[p]: the chat policy p protects
    InitRequired,   \* InitRequired[p]: the channels p requires at the start
    Editable,       \* bound: the <<policy, chat>> requirements admins edit
    Toggled,        \* bound: the policies admins deactivate and reactivate
    Grace,          \* GRACE_PERIOD_MINUTES, in clock ticks
    MaxPending,     \* bound: updates of the user awaiting their handler
    Faults,         \* may Telegram calls fail and transactions roll back?
    Throttling      \* may ThrottlingMiddleware drop an update?

ASSUME ConstantsAssumption ==
    /\ Protected \in [Policies -> Chats]
    /\ \A p, q \in Policies : Protected[p] = Protected[q] => p = q
    /\ InitRequired \in [Policies -> SUBSET Chats]
    /\ Editable \subseteq Policies \X Chats
    /\ Toggled \subseteq Policies
    /\ Grace \in Nat \ {0}
    /\ MaxPending \in Nat
    /\ Faults \in BOOLEAN
    /\ Throttling \in BOOLEAN

VARIABLES
    member,    \* the chats the user is in, as Telegram knows it
    asked,     \* the chats with a join request of the user still pending
    banned,    \* the chats the user was banned from and not unbanned
    updates,   \* Telegram updates about the user no handler has taken yet
    required,  \* required[p]: the channels of policy p (policy_channels)
    active,    \* the policies whose is_active is true
    grant,     \* grant[p]: the user's row for policy p
    cache      \* cache[c]: the Redis verdict on the user's membership of c

world  == <<member, asked, banned>>
rules  == <<required, active>>
vars   == <<world, updates, rules, grant, cache>>

-----------------------------------------------------------------------------
(* Grants.  A deadline is the time left until grace_expires_at: 0 once it  *)
(* has passed, NoDeadline for NULL.  Status "NONE" is the absent row.      *)

GrantStatus == {"NONE", "ACTIVE", "GRACE", "REVOKED", "NEEDS_REVIEW"}
NoDeadline  == -1
Deadlines   == {NoDeadline} \cup 0..Grace
Grants      == [status : GrantStatus, deadline : Deadlines,
                missing : SUBSET Chats]

NoGrant == [status |-> "NONE", deadline |-> NoDeadline, missing |-> {}]

\* What every restoring handler writes.
Activated == [status |-> "ACTIVE", deadline |-> NoDeadline, missing |-> {}]

OnNoticeShort(absent) ==      \* slip: one tick too few
    [status |-> "GRACE", deadline |-> Grace - 1, missing |-> absent]

OnNoticeLong(absent) ==       \* slip: one tick too many
    [status |-> "GRACE", deadline |-> Grace + 1, missing |-> absent]

\* A grace period that starts, or starts again, now.
OnNotice(absent) ==
    [status |-> "GRACE", deadline |-> Grace, missing |-> absent]

\* The preventive cascade: GRACE without grace_expires_at.
Threatened(chat) ==
    [status |-> "GRACE", deadline |-> NoDeadline, missing |-> {chat}]

HasStatus(S) == {p \in Policies : grant[p].status \in S}
DueOrUnset   == {p \in HasStatus({"GRACE"}) : grant[p].deadline <= 0}
                              \* slip: a NULL grace_expires_at has passed
Due          == {p \in HasStatus({"GRACE"}) : grant[p].deadline = 0}
Running      == {p \in HasStatus({"GRACE"}) : grant[p].deadline > 0}

-----------------------------------------------------------------------------
(* Who protects and who requires what.                                     *)

ProtectedBy(S)  == {Protected[p] : p \in S}
RequiredBy(S)   == UNION {required[p] : p \in S}
Requiring(c)    == {p \in Policies : c \in required[p]}
DependentsOf(S) == UNION {Requiring(c) : c \in ProtectedBy(S)}

-----------------------------------------------------------------------------
(* Membership checks.  A failing get_chat_member reads as "not a member".  *)

ViewsFailOpen(present) ==     \* slip: errors read as "member"
    IF Faults THEN {present, Chats} ELSE {present}

Views(present)    == IF Faults THEN SUBSET present ELSE {present}
Compliant(p, seen) == required[p] \subseteq seen

CachedViewOptimist(seen) ==   \* slip: a verdict not cached reads as "in"
    {c \in Chats : cache[c] # "out"}

\* The view a check takes when it does not invalidate the cache first.
CachedView(seen) ==
    {c \in Chats : cache[c] = "in" \/ (cache[c] = "none" /\ c \in seen)}

\* The cache once the chats in C were looked up with the result `seen`.
Recorded(base, C, seen) ==
    [c \in Chats |-> IF c \in C THEN (IF c \in seen THEN "in" ELSE "out")
                                ELSE base[c]]

-----------------------------------------------------------------------------
(* Steps handlers share.                                                   *)

\* The session commits; or it fails, and whatever Telegram was already told
\* stays.  A send_message outside try and a crash before the commit end so.
Commit(new) == grant' = new \/ (Faults /\ grant' = grant)

\* Join requests approve_chat_join_request can still accept.
Approvable == asked \ banned

Admit(chats) == /\ member' = member \cup chats
                /\ asked'  = asked \ chats
                /\ UNCHANGED banned

Joined(chats) == [kind : {"joined"}, chat : chats]

\* The pending updates after `taken` was handled and `chats` admitted the user.
Pending(taken, chats) ==
    LET rest == updates \ taken
        all  == rest \cup Joined(chats)
    IN  IF Cardinality(all) <= MaxPending THEN all ELSE rest

\* One loop "for grant in Q: invalidate, check; if compliant: ACTIVE, approve"
\* restores S and gets `ok` approved.  The order of Q is the database's: an
\* approval helps the grants looked at after it, so S is any set holding every
\* grant compliant from the start and supported, step by step, from within.
Sweep(Q, seen, S, ok) ==
    /\ {p \in Q : Compliant(p, seen)} \subseteq S
    /\ ok \subseteq Approvable \cap ProtectedBy(S)
    /\ Faults \/ ok = Approvable \cap ProtectedBy(S)
    /\ \A T \in SUBSET S : T # {} =>
          \E p \in T : Compliant(p, seen \cup (ok \cap ProtectedBy(S \ T)))

\* What such a loop leaves in the cache: the verdict on a chat approved on
\* the way may be from before or after the approval.
SweptCache(base, Q, seen, S, ok) ==
    \E known \in {seen \cup late : late \in SUBSET ok} :
        /\ \A p \in S : Compliant(p, known)
        /\ cache' = Recorded(base, RequiredBy(Q), known)

RestoredRows(S) ==            \* slip: only rows that exist
    [p \in Policies |-> IF p \in S /\ grant[p].status # "NONE"
                        THEN Activated ELSE grant[p]]

RestoredStatus(S) ==          \* slip: grace_expires_at is not reset
    [p \in Policies |-> IF p \in S
                        THEN [grant[p] EXCEPT !.status  = "ACTIVE",
                                              !.missing = {}]
                        ELSE grant[p]]

Restored(S) == [p \in Policies |-> IF p \in S THEN Activated ELSE grant[p]]

-----------------------------------------------------------------------------
(* The user, and Telegram's delivery of updates.                           *)

user_joins(c) ==
    /\ c \notin member \cup ProtectedBy(Policies)
    /\ Cardinality(updates) < MaxPending
    /\ member'  = member \cup {c}
    /\ updates' = updates \cup Joined({c})
    /\ UNCHANGED <<asked, banned, rules, grant, cache>>

user_leaves(c) ==
    /\ c \in member
    /\ Cardinality(updates) < MaxPending
    /\ member'  = member \ {c}
    /\ updates' = updates \cup {[kind |-> "left", chat |-> c]}
    /\ UNCHANGED <<asked, banned, rules, grant, cache>>

user_asks(c) ==
    /\ c \in ProtectedBy(Policies) \ (member \cup asked \cup banned)
    /\ Cardinality(updates) < MaxPending
    /\ asked'   = asked \cup {c}
    /\ updates' = updates \cup {[kind |-> "request", chat |-> c]}
    /\ UNCHANGED <<member, banned, rules, grant, cache>>

throttled(u) ==
    /\ Throttling
    /\ updates' = updates \ {u}
    /\ UNCHANGED <<world, rules, grant, cache>>

-----------------------------------------------------------------------------
(* join_request_handler                                                    *)

approve_unguarded(c) ==
    /\ [kind |-> "request", chat |-> c] \in updates
    /\ c \notin ProtectedBy(active)
    /\ \E ok \in SUBSET ({c} \cap Approvable) :
          /\ Faults \/ ok = {c} \cap Approvable
          /\ Admit(ok)
          /\ updates' = Pending({[kind |-> "request", chat |-> c]}, ok)
    /\ UNCHANGED <<rules, grant, cache>>

join_request_compliant(p, seen) ==
    /\ Compliant(p, CachedView(seen))
    /\ \/ /\ Protected[p] \in Approvable
          /\ Admit({Protected[p]})
          /\ Commit(Restored({p}))
       \/ /\ Faults \/ Protected[p] \notin Approvable
          /\ UNCHANGED <<world, grant>>

join_request_missing(p, seen) ==
    /\ ~Compliant(p, CachedView(seen))
    /\ Commit([grant EXCEPT ![p].status  = "NEEDS_REVIEW",
                            ![p].missing = required[p] \ CachedView(seen)])
    /\ UNCHANGED world

join_request_handler(p) ==
    /\ p \in active
    /\ [kind |-> "request", chat |-> Protected[p]] \in updates
    /\ \E seen \in Views(member) :
          /\ join_request_compliant(p, seen) \/ join_request_missing(p, seen)
          /\ cache' = Recorded(cache, required[p], CachedView(seen))
    /\ updates' = Pending({[kind |-> "request", chat |-> Protected[p]]},
                          member' \ member)
    /\ UNCHANGED rules

-----------------------------------------------------------------------------
(* The Check button: check_callback.  confirm_callback, the button of a    *)
(* grace period, ends in check_callback and leaves the same state.         *)

check_compliant(p, seen, ok) ==
    /\ Compliant(p, seen)
    /\ Faults \/ ok = {Protected[p]} \cap Approvable
    /\ Commit(Restored({p}))

\* A grant with a deadline keeps its status, any other goes under review.
check_missing(p, seen, ok) ==
    /\ ~Compliant(p, seen) /\ ok = {}
    /\ Commit([grant EXCEPT
          ![p].status  = IF grant[p].deadline = NoDeadline
                         THEN "NEEDS_REVIEW" ELSE @,
          ![p].missing = required[p] \ seen])

check_callback(p) ==
    /\ \E seen \in Views(member), ok \in SUBSET ({Protected[p]} \cap Approvable) :
          /\ check_compliant(p, seen, ok) \/ check_missing(p, seen, ok)
          /\ Admit(ok)
          /\ updates' = Pending({}, ok)
          /\ cache' = Recorded(cache, required[p], seen)
    /\ UNCHANGED rules

-----------------------------------------------------------------------------
(* chat_member_handler                                                     *)

Affected(c) ==
    Requiring(c) \cap HasStatus({"ACTIVE", "GRACE", "NEEDS_REVIEW"})

\* A leave that touches no grant changes nothing, the cache included.
left_unaffecting(c) ==
    /\ [kind |-> "left", chat |-> c] \in updates
    /\ Affected(c) = {}
    /\ updates' = updates \ {[kind |-> "left", chat |-> c]}
    /\ UNCHANGED <<world, rules, grant, cache>>

\* Grants a join to c makes the handler look at when it affects none directly:
\* all that wait if c is required nowhere, else those under review.
Waiting(c) == IF Requiring(c) = {} THEN HasStatus({"NEEDS_REVIEW", "GRACE"})
                                   ELSE HasStatus({"NEEDS_REVIEW"})

\* The first of them that complies ends the handler: its missing channels were
\* not loaded with it, assigning them needs a query where none can be awaited
\* (lines 124, 237), and the session rolls back before anything is approved.
joined_unaffecting(c) ==
    /\ [kind |-> "joined", chat |-> c] \in updates
    /\ Affected(c) = {}
    /\ \E seen \in Views(member), looked \in SUBSET Waiting(c) :
          LET fit == {p \in looked : Compliant(p, seen)}
          IN  /\ fit # {} \/ looked = Waiting(c)
              /\ Cardinality(fit) <= 1
              /\ cache' = Recorded([cache EXCEPT ![c] = "none"],
                                   RequiredBy(looked), seen)
    /\ updates' = updates \ {[kind |-> "joined", chat |-> c]}
    /\ UNCHANGED <<world, rules, grant>>

\* The row a leave writes for p, given the chats the checks saw, the grants
\* put into grace and the channel the preventive cascade blames.
AfterLeave(p, Q, seen, graced, threat) ==
    IF p \in graced THEN OnNotice(required[p] \ seen)
    ELSE IF p \in DOMAIN threat THEN Threatened(threat[p])
    ELSE IF p \in Q /\ ~Compliant(p, seen)
         THEN [grant[p] EXCEPT !.missing = required[p] \ seen]
    ELSE grant[p]

left_required_channel(c) ==
    /\ [kind |-> "left", chat |-> c] \in updates
    /\ Affected(c) # {}
    /\ \E seen \in Views(member) :
          LET Q         == Affected(c)
              graced    == {p \in Q \cap HasStatus({"ACTIVE", "GRACE"}) :
                               ~Compliant(p, seen)}
              prevented == (DependentsOf(graced) \cap HasStatus({"ACTIVE"}))
                               \ graced
          IN  /\ \E threat \in [prevented -> ProtectedBy(graced)] :
                    /\ \A p \in prevented : threat[p] \in required[p]
                    /\ Commit([p \in Policies |->
                                  AfterLeave(p, Q, seen, graced, threat)])
              /\ cache' = Recorded(cache, RequiredBy(Q), seen)
    /\ updates' = updates \ {[kind |-> "left", chat |-> c]}
    /\ UNCHANGED <<world, rules>>

\* Grants the second loop after a join may look at: those that require a chat
\* whose grant, one of the affected A, is ACTIVE when its turn comes; S were
\* restored by the first loop, `turned` by the second itself.
JoinCascade(A, S, turned) ==
    (DependentsOf(S \cup turned \cup (A \cap HasStatus({"ACTIVE"}))) \ S)
        \cap HasStatus({"GRACE", "NEEDS_REVIEW"})

\* What the handler leaves after looking at Q, with S compliant and ok approved.
joined_outcome(c, Q, seen, S, ok, failed) ==
    /\ Admit(ok)
    /\ IF failed THEN UNCHANGED grant ELSE Commit(Restored(S))
    /\ SweptCache(cache, Q, seen, S, ok)
    /\ updates' = Pending({[kind |-> "joined", chat |-> c]}, ok)

\* The third loop: once more whatever of the affected grants still waits.
joined_again(c, A, S, seen, ok, reached) ==
    LET late == (A \ S) \cap HasStatus({"GRACE", "NEEDS_REVIEW"})
    IN  \E again \in SUBSET late, more \in SUBSET (Approvable \ ok) :
           /\ Sweep(late, seen \cup ok, again, more)
           /\ joined_outcome(c, A \cup reached, seen, S \cup again,
                             ok \cup more, FALSE)

\* The second loop, which restores those it finds compliant and approves none.
\* It fails, and nothing is stored, at a compliant grant that is not an affected
\* one, whose missing channels are not loaded, or if no earlier message bound
\* the policy its message names.
joined_cascade(c, A, seen, S, ok) ==
    \E turned \in SUBSET (A \ S) :
    \E reached \in SUBSET JoinCascade(A, S, turned) :
       LET fit    == {p \in reached : Compliant(p, seen \cup ok)}
           failed == IF S = {} THEN fit ELSE fit \ A
       IN  /\ turned \subseteq fit \ failed
           /\ \A T \in SUBSET turned : T # {} =>
                 T \cap JoinCascade(A, S, turned \ T) # {}
           /\ Cardinality(failed) <= 1
           /\ IF failed # {}
              THEN joined_outcome(c, A \cup reached, seen, S \cup fit, ok, TRUE)
              ELSE /\ reached = JoinCascade(A, S, turned)
                   /\ joined_again(c, A, S \cup fit, seen, ok, reached)

\* The three loops after a join: the affected grants, the grants requiring a
\* chat whose grant is ACTIVE by now, and the affected ones still waiting.
joined_required_channel(c) ==
    /\ [kind |-> "joined", chat |-> c] \in updates
    /\ Affected(c) # {}
    /\ UNCHANGED rules
    /\ \E seen \in Views(member), S \in SUBSET Affected(c),
          ok \in SUBSET Approvable :
          /\ Sweep(Affected(c), seen, S, ok)
          /\ joined_cascade(c, Affected(c), seen, S, ok)

-----------------------------------------------------------------------------
(* grace_expiry_watcher                                                    *)

AfterKickAll(p, absent) ==    \* slip: grants under review are warned too
    OnNotice(absent)

AfterKickActive(p, absent) == \* slip: the preventive cascade is forgotten
    IF grant[p].status = "ACTIVE" THEN OnNotice(absent)
    ELSE [grant[p] EXCEPT !.missing = absent]

\* The row of a grant that depends on a chat the user was just removed from.
AfterKick(p, absent) ==
    IF grant[p].status = "ACTIVE"
       \/ (grant[p].status = "GRACE" /\ grant[p].deadline = NoDeadline)
    THEN OnNotice(absent)
    ELSE [grant[p] EXCEPT !.missing = absent]

AfterExpiry(p, absent) ==
    [grant[p] EXCEPT !.status   = "REVOKED", !.deadline = NoDeadline,
                     !.missing  = absent]

\* kicked: banned and unbanned.  halfway: the ban succeeded, the unban failed.
\* The row is set to REVOKED before Telegram is called and stays so whatever
\* Telegram answers; the cascade runs only after a complete removal, and looks
\* at a due grant (late) only if that grant's turn is still to come.
grace_expiry_watcher ==
    /\ Due # {}
    /\ UNCHANGED <<asked, updates, rules>>
    /\ \E kicked \in SUBSET Due : \E halfway \in SUBSET (Due \ kicked),
          late \in SUBSET (DependentsOf(kicked) \cap Due) :
          /\ Faults \/ kicked = Due
          /\ member' = member \ ProtectedBy(kicked \cup halfway)
          /\ banned' = banned \cup ProtectedBy(halfway)
          /\ \E seen \in Views(member \ ProtectedBy(kicked)) :
                LET cascade == late \cup ((DependentsOf(kicked) \ Due)
                         \cap HasStatus({"ACTIVE", "GRACE", "NEEDS_REVIEW"}))
                    absent(p) == IF p \in cascade /\ ~Compliant(p, seen)
                                 THEN required[p] \ seen ELSE grant[p].missing
                IN  /\ Commit([p \in Policies |->
                          IF p \in Due THEN AfterExpiry(p, absent(p))
                          ELSE IF p \in cascade /\ ~Compliant(p, seen)
                          THEN AfterKick(p, absent(p))
                          ELSE grant[p]])
                    /\ cache' = Recorded(cache, RequiredBy(cascade), seen)

-----------------------------------------------------------------------------
(* grace_restoration_watcher                                               *)

\* Grants in GRACE for the protected chats p's grant misses.
Blockers(p) ==
    {q \in HasStatus({"GRACE"}) : Protected[q] \in grant[p].missing}

CascadeOf(S) == DependentsOf(S) \cap HasStatus({"GRACE", "NEEDS_REVIEW"})

\* The cascade of a restored grant sets the status of a compliant grant, and
\* then fails, if that grant's missing channels were not loaded: deadline and
\* missing channels stay (lines 229-231), the rest of that cascade is left.
HalfRestored(p) == [grant[p] EXCEPT !.status = "ACTIVE"]

\* `reached` is what the cascades of `first` looked at, `halved` where they
\* failed: each fails at one grant at most, or runs to its end.
CascadesEnd(first, reached, halved) ==
    \E by \in [halved -> first] :
       /\ \A q \in halved : q \in CascadeOf({by[q]})
       /\ \A q, s \in halved : by[q] = by[s] => q = s
       /\ \A p \in first : (\A q \in halved : by[q] # p) =>
             CascadeOf({p}) \subseteq reached

\* looked: the grants not skipped; a blocker restored earlier in the run
\* blocks no more.  The order of the run is left open.  A failing cascade ends
\* its own grant's turn only; but if the failure lost the database session as
\* well, the run ends there and stores nothing.
grace_restoration_watcher ==
    /\ Running # {}
    /\ UNCHANGED <<world, updates, rules>>
    /\ \E seen \in Views(member), looked \in SUBSET Running :
          LET fine(S) == {p \in S : Compliant(p, seen)}
          IN  \E reached \in SUBSET CascadeOf(fine(looked)) :
                LET first   == fine(looked)
                    halved  == fine(reached) \ Running
                    whole   == first \cup (fine(reached) \cap Running)
                    done(T) == fine(T) \cup fine(reached \cap CascadeOf(fine(T)))
                IN  /\ \A T \in SUBSET looked : T # {} =>
                          \E p \in T : Blockers(p) \subseteq done(looked \ T)
                    /\ \/ /\ {p \in Running : Blockers(p) = {}} \subseteq looked
                          /\ CascadesEnd(first, reached, halved)
                          /\ Commit([p \in Policies |->
                                IF p \in whole THEN Activated
                                ELSE IF p \in halved THEN HalfRestored(p)
                                ELSE grant[p]])
                       \/ halved # {} /\ UNCHANGED grant
                    /\ cache' = Recorded(cache, RequiredBy(looked \cup reached), seen)

-----------------------------------------------------------------------------
(* daily_compliance_scan, also run by /admin_compliance_scan               *)

ScannedWarned ==              \* slip: the scan takes grants in GRACE as well
    active \cap HasStatus({"ACTIVE", "GRACE"})

Scanned == active \cap HasStatus({"ACTIVE"})

daily_compliance_scan ==
    /\ UNCHANGED <<world, updates, rules>>
    /\ \E seen \in Views(member) :
          LET view == CachedView(seen)
          IN  /\ Commit([p \in Policies |->
                    IF p \in Scanned /\ ~Compliant(p, view)
                    THEN OnNotice(required[p] \ view) ELSE grant[p]])
              /\ cache' = Recorded(cache, RequiredBy(Scanned), view)

-----------------------------------------------------------------------------
(* Administrators                                                          *)

AfterSyncCached(p, seen) ==   \* slip: the cache is not wiped before
    IF Compliant(p, CachedView(seen)) THEN Activated ELSE grant[p]

AfterSync(p, seen) ==
    IF Compliant(p, seen) THEN Activated
    ELSE IF grant[p].status \in {"ACTIVE", "NEEDS_REVIEW", "NONE"}
    THEN [grant[p] EXCEPT !.status  = "NEEDS_REVIEW",
                          !.missing = required[p] \ seen]
    ELSE grant[p]

admin_user_sync_command ==
    /\ \E seen \in Views(member) :
          LET wiped == RequiredBy(Policies) \cup ProtectedBy(Policies)
          IN  /\ Commit([p \in Policies |-> AfterSync(p, seen)])
              /\ cache' = Recorded(
                    [c \in Chats |-> IF c \in wiped THEN "none" ELSE cache[c]],
                    RequiredBy(Policies), seen)
    /\ UNCHANGED <<world, updates, rules>>

NotifiedAll(p) ==             \* slip: every row of the policy
    grant[p].status # "NONE"

\* add_channel, then notify_existing_users_about_new_channel, which looks at
\* the ACTIVE grants only.
Notified(p) == grant[p].status = "ACTIVE"

add_channel(p, c) ==
    /\ <<p, c>> \in Editable /\ c \notin required[p]
    /\ required' = [required EXCEPT ![p] = @ \cup {c}]
    /\ \E seen \in Views(member) :
          /\ grant' = IF Notified(p) /\ c \notin CachedView(seen)
                      THEN [grant EXCEPT ![p] = OnNotice({c})] ELSE grant
          /\ cache' = IF Notified(p)
                      THEN Recorded(cache, {c}, CachedView(seen)) ELSE cache
    /\ UNCHANGED <<world, updates, active>>

\* remove_channel: the row goes, and with it (ON DELETE CASCADE) its mention
\* among the missing channels.  No grant is looked at again.
remove_channel(p, c) ==
    /\ <<p, c>> \in Editable /\ c \in required[p]
    /\ required' = [required EXCEPT ![p] = @ \ {c}]
    /\ grant' = [grant EXCEPT ![p].missing = @ \ {c}]
    /\ UNCHANGED <<world, updates, active, cache>>

admin_deactivate_policy(p) ==
    /\ p \in Toggled \cap active
    /\ active' = active \ {p}
    /\ UNCHANGED <<world, updates, required, grant, cache>>

reactivate_policy(p) ==
    /\ p \in Toggled \ active
    /\ active' = active \cup {p}
    /\ UNCHANGED <<world, updates, required, grant, cache>>

-----------------------------------------------------------------------------
(* Time                                                                    *)

Elapsed(d) == IF d > 0 THEN d - 1 ELSE d

Tick ==
    /\ \E p \in Policies : grant[p].deadline > 0
    /\ grant' = [p \in Policies |->
                    [grant[p] EXCEPT !.deadline = Elapsed(@)]]
    /\ UNCHANGED <<world, updates, rules, cache>>

cache_expires_out(c) ==       \* slip: positive verdicts have no TTL
    /\ cache[c] = "out"
    /\ cache' = [cache EXCEPT ![c] = "none"]
    /\ UNCHANGED <<world, updates, rules, grant>>

cache_expires(c) ==
    /\ cache[c] # "none"
    /\ cache' = [cache EXCEPT ![c] = "none"]
    /\ UNCHANGED <<world, updates, rules, grant>>

-----------------------------------------------------------------------------
Init ==
    /\ member = {} /\ asked = {} /\ banned = {} /\ updates = {}
    /\ required = InitRequired
    /\ active = Policies
    /\ grant = [p \in Policies |-> NoGrant]
    /\ cache = [c \in Chats |-> "none"]

User ==
    \E c \in Chats : user_joins(c) \/ user_leaves(c) \/ user_asks(c)

\* One handler call for one update.
Handler ==
    \/ \E p \in Policies : join_request_handler(p)
    \/ \E c \in Chats :
          \/ approve_unguarded(c)
          \/ left_unaffecting(c)   \/ left_required_channel(c)
          \/ joined_unaffecting(c) \/ joined_required_channel(c)

Jobs ==
    \/ grace_expiry_watcher
    \/ grace_restoration_watcher
    \/ daily_compliance_scan

Admin ==
    \/ admin_user_sync_command
    \/ \E p \in Policies, c \in Chats : add_channel(p, c) \/ remove_channel(p, c)
    \/ \E p \in Policies : admin_deactivate_policy(p) \/ reactivate_policy(p)

Next ==
    \/ User
    \/ \E u \in updates : throttled(u)
    \/ Handler
    \/ \E p \in Policies : check_callback(p)
    \/ Jobs
    \/ Admin
    \/ Tick
    \/ \E c \in Chats : cache_expires(c)

Spec == Init /\ [][Next]_vars

\* APScheduler runs the jobs again and again, time passes and Redis forgets.
\* Nothing obliges the user or an administrator.
JobFairness ==
    /\ WF_vars(grace_expiry_watcher)
    /\ WF_vars(daily_compliance_scan)
    /\ WF_vars(Tick)
    /\ \A c \in Chats : WF_vars(cache_expires(c))

\* aiogram takes every update, and the third job runs as the others do.
Fairness == JobFairness /\ WF_vars(Handler) /\ WF_vars(grace_restoration_watcher)

JobSpec  == Spec /\ JobFairness
FairSpec == Spec /\ Fairness
=============================================================================
