--------------------------- MODULE MembershipCache ---------------------------
(***************************************************************************)
(* The cached verdicts on one user's memberships, call by call: checks of  *)
(* the same user run beside one another, look into Redis, ask Telegram if  *)
(* nothing is there, and store the answer; some delete the keys first.     *)
(* GrantLifecycle takes a check and its write to Redis as one step.        *)
(***************************************************************************)
EXTENDS Naturals, FiniteSets

CONSTANTS
    Chats,       \* Telegram chats
    Nowhere,     \* no chat
    Checks,      \* the checks that may run beside one another
    Required,    \* Required[s]: the channels check s looks at
    Clearing,    \* the checks whose caller invalidates the cache first
    TTL,         \* the 300 s of a verdict in Redis, in clock ticks
    Patience,    \* bound: ticks between Telegram's answer and its setex
    Horizon      \* bound: how far back the history goes

ASSUME CacheAssumption ==
    /\ Nowhere \notin Chats
    /\ Required \in [Checks -> SUBSET Chats]
    /\ Clearing \subseteq Checks
    /\ TTL \in Nat \ {0}
    /\ Patience \in Nat
    /\ Horizon \in Nat /\ Horizon > TTL + Patience

VARIABLES
    member,      \* the chats the user is in, as Telegram knows it
    cache,       \* cache[c]: the verdict in Redis and the time it has left
    check,       \* check[s]: where check s is, and what it found
    ago          \* history: ago[c][v] is the time since Telegram last would
                 \* have said, or by failing was taken to say, v of chat c

vars == <<member, cache, check, ago>>

Absent    == [is_member |-> FALSE, left |-> 0]
Cached(c) == cache[c].left > 0

\* A check is in one of its two loops ("loop"), asks Telegram about a chat
\* ("ask") or has the answer in hand ("store").  The last two fields are
\* history: the keys it deleted, and the time since it began.
Idle == [at |-> "idle", clear |-> {}, todo |-> {}, missing |-> {},
         chat |-> Nowhere, is_member |-> FALSE, wait |-> 0,
         deleted |-> {}, since |-> 0]

-----------------------------------------------------------------------------
(* invalidate_membership_cache, for each channel before check_compliance.  *)

begin(s) ==
    /\ check[s].at = "idle"
    /\ check' = [check EXCEPT ![s] =
          [Idle EXCEPT !.at    = "loop",
                       !.clear = IF s \in Clearing THEN Required[s] ELSE {},
                       !.todo  = Required[s]]]
    /\ UNCHANGED <<member, cache, ago>>

EmptiedIfOut(c) ==            \* slip: only a verdict that refuses is deleted
    IF cache[c].is_member THEN cache ELSE [cache EXCEPT ![c] = Absent]

Emptied(c) == [cache EXCEPT ![c] = Absent]

\* An error of Redis is logged, and the key stays.
invalidate_membership_cache(s, c) ==
    /\ c \in check[s].clear
    /\ \E gone \in SUBSET {c} :
          /\ cache' = IF c \in gone THEN Emptied(c) ELSE cache
          /\ check' = [check EXCEPT ![s].clear   = @ \ {c},
                                    ![s].deleted = @ \cup gone]
    /\ UNCHANGED <<member, ago>>

-----------------------------------------------------------------------------
(* check_compliance: _check_membership_cached for each channel.            *)

\* Check e takes the verdict on chat c and goes on with its loop.
Judged(e, c, is_member) ==
    [e EXCEPT !.at        = "loop",
              !.todo      = @ \ {c},
              !.missing   = IF is_member THEN @ ELSE @ \cup {c},
              !.chat      = Nowhere,
              !.is_member = FALSE,
              !.wait      = 0]

ToCheck(s) ==
    IF check[s].at = "loop" /\ check[s].clear = {} THEN check[s].todo ELSE {}

found_in_redis(s, c) ==
    /\ c \in ToCheck(s)
    /\ Cached(c)
    /\ check' = [check EXCEPT ![s] = Judged(@, c, cache[c].is_member)]
    /\ UNCHANGED <<member, cache, ago>>

\* Nothing is cached, or the get failed.
not_found(s, c) ==
    /\ c \in ToCheck(s)
    /\ check' = [check EXCEPT ![s].at = "ask", ![s].chat = c]
    /\ UNCHANGED <<member, cache, ago>>

\* Telegram looks the user up, and a failure reads as "not a member".
check_membership_live(s) ==
    /\ check[s].at = "ask"
    /\ \E is_member \in {check[s].chat \in member, FALSE} :
          /\ check' = [check EXCEPT ![s].at        = "store",
                                    ![s].is_member = is_member]
          /\ ago' = [ago EXCEPT ![check[s].chat][is_member] = 0]
    /\ UNCHANGED <<member, cache>>

StoredTwice(is_member) ==     \* slip: a longer TTL
    [is_member |-> is_member, left |-> 2 * TTL]

Stored(is_member) == [is_member |-> is_member, left |-> TTL]

\* The answer is stored, whatever happened since it was given, or an error of
\* Redis is logged; either way the check goes by it.
setex(s) ==
    /\ check[s].at = "store"
    /\ \/ cache' = [cache EXCEPT ![check[s].chat] = Stored(check[s].is_member)]
       \/ cache' = cache
    /\ check' = [check EXCEPT ![s] = Judged(@, @.chat, @.is_member)]
    /\ UNCHANGED <<member, ago>>

\* The caller decides by `missing`, and the check is over.
decide(s) ==
    /\ check[s].at = "loop" /\ check[s].clear = {} /\ check[s].todo = {}
    /\ check' = [check EXCEPT ![s] = Idle]
    /\ UNCHANGED <<member, cache, ago>>

-----------------------------------------------------------------------------
(* The user and the clock.                                                 *)

user_joins(c) ==
    /\ c \notin member
    /\ member' = member \cup {c}
    /\ ago' = [ago EXCEPT ![c][TRUE] = 0]
    /\ UNCHANGED <<cache, check>>

user_leaves(c) ==
    /\ c \in member
    /\ member' = member \ {c}
    /\ ago' = [ago EXCEPT ![c][FALSE] = 0]
    /\ UNCHANGED <<cache, check>>

AgedIfOut(e) ==               \* slip: only a verdict that refuses runs out
    IF e.left > 1 THEN [e EXCEPT !.left = @ - 1]
    ELSE IF e.is_member THEN e ELSE Absent

Aged(e) == IF e.left > 1 THEN [e EXCEPT !.left = @ - 1] ELSE Absent

Later(n) == IF n < Horizon THEN n + 1 ELSE n

\* Answers are stored within Patience.
Tick ==
    /\ \A s \in Checks : check[s].at = "store" => check[s].wait < Patience
    /\ cache' = [c \in Chats |-> Aged(cache[c])]
    /\ check' = [s \in Checks |->
          IF check[s].at = "idle" THEN Idle
          ELSE [check[s] EXCEPT !.since = Later(@),
                                !.wait  = IF check[s].at = "store"
                                          THEN @ + 1 ELSE @]]
    /\ ago' = [c \in Chats |-> [v \in BOOLEAN |->
          IF v = (c \in member) THEN 0 ELSE Later(ago[c][v])]]
    /\ UNCHANGED member

-----------------------------------------------------------------------------
Init ==
    /\ member = {}
    /\ cache  = [c \in Chats |-> Absent]
    /\ check  = [s \in Checks |-> Idle]
    /\ ago    = [c \in Chats |-> [v \in BOOLEAN |-> IF v THEN Horizon ELSE 0]]

Step(s) ==
    \/ begin(s)
    \/ \E c \in Chats :
          \/ invalidate_membership_cache(s, c)
          \/ found_in_redis(s, c) \/ not_found(s, c)
    \/ check_membership_live(s) \/ setex(s)
    \/ decide(s)

User == \E c \in Chats : user_joins(c) \/ user_leaves(c)

Next == (\E s \in Checks : Step(s)) \/ User \/ Tick

Spec == Init /\ [][Next]_vars

\* Time passes, and an answer that arrived is stored.  No check need ever
\* begin or end.
Fairness ==
    /\ WF_vars(Tick)
    /\ \A s \in Checks : WF_vars(setex(s))

FairSpec == Spec /\ Fairness
=============================================================================
