----------------------------- MODULE CacheProofs -----------------------------
(***************************************************************************)
(* For any chats and checks, any TTL and any Patience: how old a verdict   *)
(* can be.  What is in Redis, what an answer on its way there says, and    *)
(* what a check has its verdict from are each bounded by a clock of their  *)
(* own: the time left to the key, the wait of the answer, the time since   *)
(* the check began.  IInv relates the three.                               *)
(***************************************************************************)
EXTENDS CacheProperties, TLAPS

\* Where a check is agrees with what it has still to do.
InOrder(s) ==
    /\ check[s].at = "idle" => check[s] = Idle
    /\ check[s].missing \cap check[s].todo = {}
    /\ check[s].clear \subseteq check[s].todo
    /\ check[s].at \in {"ask", "store"} =>
          check[s].chat \in check[s].todo /\ check[s].clear = {}

\* A verdict in Redis was right no longer ago than its key is old, plus the
\* time its answer waited.
RedisRecent == \A c \in Chats :
    Cached(c) => ago[c][cache[c].is_member] + cache[c].left <= TTL + Patience

\* An answer in hand was right when its wait began.
InHand(s) ==
    check[s].at = "store" => ago[check[s].chat][check[s].is_member] <= check[s].wait

\* What is in Redis under a key that check s deleted was stored since.
Restocked(s) == \A c \in check[s].deleted :
    Cached(c) => ago[c][cache[c].is_member] <= check[s].since + Patience

Recent(s) == \A c \in Verdicts(s) :
    /\ Age(s, c) < check[s].since + TTL + Patience
    /\ c \in check[s].deleted => Age(s, c) <= check[s].since + Patience

CheckOK(s) == InOrder(s) /\ InHand(s) /\ Restocked(s) /\ Recent(s)

IInv == TypeOK /\ RedisRecent /\ \A s \in Checks : CheckOK(s)

LEMMA InitHolds == Init => IInv
  BY CacheAssumption
     DEF Init, IInv, TypeOK, Verdict, Absent, Idle, RedisRecent, CheckOK, InOrder,
         InHand, Restocked, Recent, Verdicts, Cached

-----------------------------------------------------------------------------
(* What all steps but that of the clock have in common.                    *)

Field == [at : {"idle", "loop", "ask", "store"}, clear : SUBSET Chats,
          todo : SUBSET Chats, missing : SUBSET Chats,
          chat : Chats \cup {Nowhere}, is_member : BOOLEAN,
          wait : 0..Patience, deleted : SUBSET Chats, since : 0..Horizon]

\* No verdict is longer ago than before, and what is stored is an answer whose
\* wait is over.
NoOlder == \A c \in Chats : \A v \in BOOLEAN : ago'[c][v] <= ago[c][v]

Stocked(c) ==
    \/ cache'[c] = cache[c]
    \/ cache'[c].left = 0
    \/ cache'[c].left = TTL /\ ago'[c][cache'[c].is_member] <= Patience

Timeless == NoOlder /\ \A c \in Chats : Stocked(c)

LEMMA RedisStays ==
    ASSUME IInv, TypeOK', Timeless
    PROVE  RedisRecent'
<1> SUFFICES ASSUME NEW c \in Chats, Cached(c)'
             PROVE  (ago[c][cache[c].is_member] + cache[c].left <= TTL + Patience)'
    BY DEF RedisRecent
<1>1. /\ cache[c].is_member \in BOOLEAN /\ cache[c].left \in Nat
      /\ cache'[c].is_member \in BOOLEAN /\ cache'[c].left \in Nat
      /\ \A v \in BOOLEAN : ago[c][v] \in Nat /\ ago'[c][v] \in Nat
    BY CacheAssumption DEF IInv, TypeOK, Verdict
<1>2. CASE cache'[c] = cache[c]
    BY <1>1, <1>2, CacheAssumption DEF IInv, RedisRecent, Timeless, NoOlder, Cached
<1>3. CASE cache'[c].left = TTL /\ ago'[c][cache'[c].is_member] <= Patience
    BY <1>1, <1>3, CacheAssumption
<1>4. QED BY <1>1, <1>2, <1>3 DEF Timeless, Stocked, Cached

\* A check that does not move stays as right as it was.
LEMMA OthersStay ==
    ASSUME IInv, TypeOK', Timeless, NEW t \in Checks, check'[t] = check[t]
    PROVE  CheckOK(t)'
<1> USE CacheAssumption
<1>1. CheckOK(t) /\ check[t] \in Field
    BY DEF IInv, TypeOK, Field
<1>2. \A c \in Chats : \A v \in BOOLEAN : ago[c][v] \in Nat /\ ago'[c][v] \in Nat
    BY DEF IInv, TypeOK
<1>3. InOrder(t)'
    BY <1>1 DEF CheckOK, InOrder
<1>4. InHand(t)'
  <2> SUFFICES ASSUME check[t].at = "store"
               PROVE  ago'[check[t].chat][check[t].is_member] <= check[t].wait
      BY DEF InHand
  <2>1. check[t].chat \in Chats /\ check[t].is_member \in BOOLEAN /\ check[t].wait \in Nat
      BY <1>1 DEF CheckOK, InOrder, Field
  <2>2. QED BY <1>1, <1>2, <2>1 DEF CheckOK, InHand, Timeless, NoOlder
<1>5. Restocked(t)'
  <2> SUFFICES ASSUME NEW c \in check[t].deleted, Cached(c)'
               PROVE  ago'[c][cache'[c].is_member] <= check[t].since + Patience
      BY DEF Restocked
  <2>1. /\ c \in Chats /\ check[t].since \in Nat
        /\ cache[c].is_member \in BOOLEAN /\ cache'[c].is_member \in BOOLEAN
        /\ cache[c].left \in Nat /\ cache'[c].left \in Nat
      BY <1>1 DEF Field, IInv, TypeOK, Verdict
  <2>2. CASE cache'[c] = cache[c]
      BY <1>1, <1>2, <2>1, <2>2 DEF CheckOK, Restocked, Cached, Timeless, NoOlder
  <2>3. CASE ago'[c][cache'[c].is_member] <= Patience
      BY <1>2, <2>1, <2>3
  <2>4. QED BY <2>1, <2>2, <2>3 DEF Timeless, Stocked, Cached
<1>6. Recent(t)'
  <2> SUFFICES ASSUME NEW c \in Verdicts(t)
               PROVE  /\ Age(t, c)' < check[t].since + TTL + Patience
                      /\ c \in check[t].deleted =>
                            Age(t, c)' <= check[t].since + Patience
      BY DEF Recent, Verdicts
  <2>1. c \in Chats /\ check[t].since \in Nat
      BY <1>1 DEF Verdicts, Field
  <2>2. Age(t, c)' <= Age(t, c) /\ Age(t, c) \in Nat /\ Age(t, c)' \in Nat
      BY <1>2, <2>1 DEF Age, Timeless, NoOlder
  <2>3. QED BY <1>1, <2>1, <2>2 DEF CheckOK, Recent
<1>7. QED BY <1>3, <1>4, <1>5, <1>6 DEF CheckOK

\* One check moves: the invariant is kept if that check is right afterwards.
LEMMA OneMoves ==
    ASSUME IInv, TypeOK', Timeless, NEW s \in Checks, CheckOK(s)',
           \A t \in Checks : t # s => check'[t] = check[t]
    PROVE  IInv'
  BY RedisStays, OthersStay DEF IInv

-----------------------------------------------------------------------------
(* One lemma per action of a check.                                        *)

LEMMA BeginKeeps ==
    ASSUME IInv, NEW s \in Checks, begin(s)
    PROVE  IInv'
<1> USE CacheAssumption
<1> DEFINE e == [Idle EXCEPT !.at    = "loop",
                             !.clear = IF s \in Clearing THEN Required[s] ELSE {},
                             !.todo  = Required[s]]
<1>1. /\ check' = [check EXCEPT ![s] = e]
      /\ UNCHANGED <<cache, ago, member>>
    BY DEF begin
<1>2. e \in Field /\ e.at = "loop" /\ e.todo = Required[s]
      /\ e.clear \subseteq Required[s] /\ e.missing = {} /\ e.deleted = {}
  <2> DEFINE keys == IF s \in Clearing THEN Required[s] ELSE {}
  <2>1. Idle \in Field /\ Idle.missing = {} /\ Idle.deleted = {}
      BY DEF Idle, Field
  <2>2. keys \subseteq Required[s] /\ keys \in SUBSET Chats
        /\ Required[s] \in SUBSET Chats
      OBVIOUS
  <2> HIDE DEF keys
  <2>3. e = [Idle EXCEPT !.at = "loop", !.clear = keys, !.todo = Required[s]]
      BY DEF keys
  <2>4. QED BY <2>1, <2>2, <2>3 DEF Field
<1> HIDE DEF e
<1>3. TypeOK'
    BY <1>1, <1>2 DEF IInv, TypeOK, Field
<1>4. Timeless
    BY <1>1 DEF IInv, TypeOK, Timeless, NoOlder, Stocked
<1>5. check'[s] = e
    BY <1>1 DEF IInv, TypeOK
<1>6. CheckOK(s)'
    BY <1>2, <1>5 DEF CheckOK, InOrder, InHand, Restocked, Recent, Verdicts
<1>7. QED BY <1>1, <1>3, <1>4, <1>6, OneMoves DEF IInv, TypeOK

LEMMA InvalidateKeeps ==
    ASSUME IInv, NEW s \in Checks, NEW c \in Chats,
           invalidate_membership_cache(s, c)
    PROVE  IInv'
<1> USE CacheAssumption
<1>1. PICK gone \in SUBSET {c} :
         /\ cache' = IF c \in gone THEN Emptied(c) ELSE cache
         /\ check' = [check EXCEPT ![s].clear   = @ \ {c},
                                   ![s].deleted = @ \cup gone]
         /\ UNCHANGED <<member, ago>>
    BY DEF invalidate_membership_cache
<1> DEFINE e == [check[s] EXCEPT !.clear = @ \ {c}, !.deleted = @ \cup gone]
<1>2. /\ check[s] \in Field /\ CheckOK(s) /\ c \in check[s].clear
      /\ check' = [check EXCEPT ![s] = e]
    BY <1>1 DEF IInv, TypeOK, Field, invalidate_membership_cache
<1>3. /\ e \in Field /\ e.at = check[s].at /\ e.todo = check[s].todo
      /\ e.missing = check[s].missing /\ e.chat = check[s].chat
      /\ e.is_member = check[s].is_member /\ e.since = check[s].since
      /\ e.wait = check[s].wait
      /\ e.clear = check[s].clear \ {c} /\ e.deleted = check[s].deleted \cup gone
    BY <1>2 DEF Field
<1> HIDE DEF e
<1>4. TypeOK'
  <2>1. check' \in [Checks -> Field]
      BY <1>2, <1>3 DEF IInv, TypeOK, Field
  <2>2. Absent \in Verdict
      BY DEF Absent, Verdict
  <2>3. cache' \in [Chats -> Verdict]
      BY <1>1, <2>2 DEF IInv, TypeOK, Emptied
  <2>4. QED BY <1>1, <2>1, <2>3 DEF IInv, TypeOK, Field
<1>5. Timeless
  <2>1. NoOlder
      BY <1>1 DEF IInv, TypeOK, NoOlder
  <2>2. \A d \in Chats : Stocked(d)
      BY <1>1 DEF IInv, TypeOK, Stocked, Emptied, Absent
  <2>3. QED BY <2>1, <2>2 DEF Timeless
<1>6. check'[s] = e
    BY <1>2 DEF IInv, TypeOK
<1>7. InOrder(s)'
    BY <1>2, <1>3, <1>6 DEF CheckOK, InOrder, Idle
<1>8. InHand(s)'
    BY <1>1, <1>2, <1>3, <1>6 DEF CheckOK, InHand
<1>9. Restocked(s)'
  <2> SUFFICES ASSUME NEW d \in e.deleted, Cached(d)'
               PROVE  (ago[d][cache[d].is_member] <= check[s].since + Patience)'
      BY <1>6 DEF Restocked
  <2>1. d \in Chats
      BY <1>3 DEF Field
  <2>2. ~(d = c /\ c \in gone)
      BY <1>1, <2>1 DEF IInv, TypeOK, Cached, Emptied, Absent
  <2>3. cache'[d] = cache[d] /\ d \in check[s].deleted
      BY <1>1, <1>3, <2>1, <2>2 DEF IInv, TypeOK, Emptied
  <2>4. QED BY <1>1, <1>2, <1>3, <1>6, <2>3 DEF CheckOK, Restocked, Cached
<1>10. Recent(s)'
  <2>1. Verdicts(s)' = Verdicts(s) /\ c \notin Verdicts(s)
      BY <1>2, <1>3, <1>6 DEF Verdicts, CheckOK, InOrder
  <2>2. \A d \in Verdicts(s) : Age(s, d)' = Age(s, d)
      BY <1>1, <1>3, <1>6 DEF Age
  <2>3. QED BY <1>2, <1>3, <1>6, <2>1, <2>2 DEF CheckOK, Recent
<1>11. CheckOK(s)'
    BY <1>7, <1>8, <1>9, <1>10 DEF CheckOK
<1>12. QED BY <1>2, <1>4, <1>5, <1>11, OneMoves DEF IInv, TypeOK

\* A verdict is taken: enough that it is recent itself.
LEMMA JudgedOK ==
    ASSUME IInv, NEW s \in Checks, NEW c \in check[s].todo, NEW v \in BOOLEAN,
           TypeOK', Timeless, check[s].at # "idle",
           c \notin check[s].clear,
           check' = [check EXCEPT ![s] = Judged(@, c, v)],
           ago[c][v] < check[s].since + TTL + Patience,
           c \in check[s].deleted => ago[c][v] <= check[s].since + Patience,
           Restocked(s)'
    PROVE  IInv'
<1> USE CacheAssumption
<1> DEFINE e == Judged(check[s], c, v)
<1>1. check[s] \in Field /\ CheckOK(s) /\ c \in Chats /\ check'[s] = e
    BY DEF IInv, TypeOK, Field
<1>2. /\ e.at = "loop" /\ e.todo = check[s].todo \ {c}
      /\ e.missing = IF v THEN check[s].missing ELSE check[s].missing \cup {c}
      /\ e.clear = check[s].clear /\ e.deleted = check[s].deleted
      /\ e.since = check[s].since
    BY <1>1 DEF Judged, Field
<1> HIDE DEF e
<1>3. InOrder(s)'
    BY <1>1, <1>2 DEF CheckOK, InOrder
<1>4. InHand(s)'
    BY <1>1, <1>2 DEF InHand
<1>5. Recent(s)'
  <2> SUFFICES ASSUME NEW d \in Verdicts(s)'
               PROVE  (/\ Age(s, d) < check[s].since + TTL + Patience
                       /\ d \in check[s].deleted =>
                             Age(s, d) <= check[s].since + Patience)'
      BY DEF Recent
  <2>1. d \in Chats /\ check[s].since \in Nat
    <3>1. d \in Required[s]
        BY <1>1, <1>2 DEF Verdicts
    <3>2. QED BY <1>1, <3>1 DEF Field
  <2> DEFINE w == d \notin check[s].missing
  <2>0. \A x \in BOOLEAN :
           ago[d][x] \in Nat /\ ago'[d][x] \in Nat /\ ago'[d][x] <= ago[d][x]
      BY <2>1 DEF IInv, TypeOK, Timeless, NoOlder
  <2>2. CASE d = c
    <3>1. c \notin check[s].missing
        BY <1>1 DEF CheckOK, InOrder
    <3>2. Age(s, c)' = ago'[c][v]
        BY <1>1, <1>2, <3>1 DEF Age
    <3>3. QED BY <1>1, <1>2, <2>0, <2>1, <2>2, <3>2
  <2>3. CASE d # c
    <3>1. d \in Verdicts(s)
        BY <1>1, <1>2, <2>3 DEF Verdicts
    <3>2. Age(s, d)' <= Age(s, d) /\ Age(s, d) \in Nat /\ Age(s, d)' \in Nat
      <4>1. (d \notin e.missing) = w
          BY <1>2, <2>3
      <4>2. Age(s, d)' = ago'[d][w] /\ Age(s, d) = ago[d][w]
          BY <1>1, <4>1 DEF Age
      <4>3. w \in BOOLEAN
          OBVIOUS
      <4>4. QED BY <2>0, <4>2, <4>3
    <3>3. QED BY <1>1, <1>2, <2>1, <3>1, <3>2 DEF CheckOK, Recent
  <2>4. QED BY <2>2, <2>3
<1>6. QED BY <1>3, <1>4, <1>5, OneMoves DEF CheckOK, IInv, TypeOK

LEMMA JudgedType ==
    ASSUME NEW e \in Field, NEW c \in Chats, NEW v \in BOOLEAN
    PROVE  Judged(e, c, v) \in Field
<1> DEFINE absent == IF v THEN e.missing ELSE e.missing \cup {c}
<1>1. absent \in SUBSET Chats /\ e.todo \ {c} \in SUBSET Chats
    BY DEF Field
<1> HIDE DEF absent
<1>2. Judged(e, c, v) =
         [e EXCEPT !.at = "loop", !.todo = e.todo \ {c}, !.missing = absent,
                   !.chat = Nowhere, !.is_member = FALSE, !.wait = 0]
    BY DEF Judged, absent
<1>3. 0 \in 0..Patience
    BY CacheAssumption
<1>4. QED BY <1>1, <1>2, <1>3 DEF Field

\* Taking a verdict changes neither the keys deleted nor the time since.
LEMMA JudgedFields ==
    ASSUME NEW e \in Field, NEW c, NEW v
    PROVE  /\ Judged(e, c, v).deleted = e.deleted
           /\ Judged(e, c, v).since = e.since
  BY DEF Field, Judged

LEMMA FoundKeeps ==
    ASSUME IInv, NEW s \in Checks, NEW c \in Chats, found_in_redis(s, c)
    PROVE  IInv'
<1> USE CacheAssumption
<1> DEFINE v == cache[c].is_member
<1>1. /\ c \in check[s].todo /\ check[s].at = "loop" /\ check[s].clear = {}
      /\ Cached(c) /\ UNCHANGED <<member, cache, ago>>
      /\ check' = [check EXCEPT ![s] = Judged(@, c, v)]
    BY DEF found_in_redis, ToCheck
<1>2. /\ check[s] \in Field /\ CheckOK(s) /\ v \in BOOLEAN
      /\ cache[c].left \in Nat /\ ago[c][v] \in Nat /\ check[s].since \in Nat
    BY DEF IInv, TypeOK, Field, Verdict
<1>3. TypeOK'
    BY <1>1, <1>2, JudgedType DEF IInv, TypeOK, Field
<1>4. Timeless
    BY <1>1 DEF IInv, TypeOK, Timeless, NoOlder, Stocked
<1>5. ago[c][v] < check[s].since + TTL + Patience
    BY <1>1, <1>2 DEF IInv, RedisRecent, Cached
<1>6. c \in check[s].deleted => ago[c][v] <= check[s].since + Patience
    BY <1>1, <1>2 DEF CheckOK, Restocked
<1>7. Restocked(s)'
  <2>1. check'[s] = Judged(check[s], c, v)
      BY <1>1 DEF IInv, TypeOK
  <2>2. QED BY <1>1, <1>2, <2>1, JudgedFields DEF CheckOK, Restocked, Cached
<1> HIDE DEF v
<1>8. QED BY <1>1, <1>2, <1>3, <1>4, <1>5, <1>6, <1>7, JudgedOK

LEMMA NotFoundKeeps ==
    ASSUME IInv, NEW s \in Checks, NEW c \in Chats, not_found(s, c)
    PROVE  IInv'
<1> USE CacheAssumption
<1> DEFINE e == [check[s] EXCEPT !.at = "ask", !.chat = c]
<1>1. /\ c \in check[s].todo /\ check[s].at = "loop" /\ check[s].clear = {}
      /\ UNCHANGED <<member, cache, ago>>
      /\ check' = [check EXCEPT ![s] = e]
    BY DEF not_found, ToCheck, IInv, TypeOK
<1>2. check[s] \in Field /\ CheckOK(s)
    BY DEF IInv, TypeOK, Field
<1>3. /\ e \in Field /\ e.at = "ask" /\ e.chat = c /\ e.todo = check[s].todo
      /\ e.missing = check[s].missing /\ e.clear = check[s].clear
      /\ e.deleted = check[s].deleted /\ e.since = check[s].since
    BY <1>2 DEF Field
<1> HIDE DEF e
<1>4. check'[s] = e
    BY <1>1 DEF IInv, TypeOK
<1>5. TypeOK'
    BY <1>1, <1>3 DEF IInv, TypeOK, Field
<1>6. Timeless
    BY <1>1 DEF IInv, TypeOK, Timeless, NoOlder, Stocked
<1>7. InOrder(s)' /\ InHand(s)'
    BY <1>1, <1>2, <1>3, <1>4 DEF CheckOK, InOrder, InHand
<1>8. Restocked(s)'
    BY <1>1, <1>2, <1>3, <1>4 DEF CheckOK, Restocked, Cached
<1>9. Recent(s)'
    BY <1>1, <1>2, <1>3, <1>4 DEF CheckOK, Recent, Verdicts, Age
<1>10. QED BY <1>1, <1>5, <1>6, <1>7, <1>8, <1>9, OneMoves DEF CheckOK, IInv, TypeOK

LEMMA LiveKeeps ==
    ASSUME IInv, NEW s \in Checks, check_membership_live(s)
    PROVE  IInv'
<1> USE CacheAssumption
<1>0. PICK v \in {check[s].chat \in member, FALSE} :
         /\ check' = [check EXCEPT ![s].at = "store", ![s].is_member = v]
         /\ ago' = [ago EXCEPT ![check[s].chat][v] = 0]
    BY Zenon DEF check_membership_live
<1>1. /\ check' = [check EXCEPT ![s] = [check[s] EXCEPT !.at = "store",
                                                        !.is_member = v]]
      /\ ago' = [ago EXCEPT ![check[s].chat][v] = 0]
      /\ v \in BOOLEAN
      /\ check[s].at = "ask" /\ UNCHANGED <<member, cache>>
  <2>1. v \in BOOLEAN
    <3> DEFINE known == check[s].chat \in member
    <3>1. known \in BOOLEAN
        OBVIOUS
    <3>2. v = known \/ v = FALSE
        BY Zenon
    <3> HIDE DEF known
    <3>3. QED BY <3>1, <3>2, Zenon
  <2>2. check[s].at = "ask" /\ UNCHANGED <<member, cache>>
      BY DEF check_membership_live
  <2>3. check' = [check EXCEPT ![s] = [check[s] EXCEPT !.at = "store",
                                                       !.is_member = v]]
      BY <1>0 DEF IInv, TypeOK
  <2>4. QED BY <1>0, <2>1, <2>2, <2>3
<1> DEFINE e == [check[s] EXCEPT !.at = "store", !.is_member = v]
           c == check[s].chat
<1>2. check[s] \in Field /\ CheckOK(s) /\ c \in check[s].todo /\ c \in Chats
    BY <1>1 DEF IInv, TypeOK, Field, CheckOK, InOrder
<1>3. /\ e \in Field /\ e.at = "store" /\ e.chat = c /\ e.todo = check[s].todo
      /\ e.missing = check[s].missing /\ e.clear = check[s].clear
      /\ e.deleted = check[s].deleted /\ e.since = check[s].since
      /\ e.is_member = v /\ e.wait \in Nat
  <2>1. e \in Field
      BY <1>1, <1>2 DEF Field
  <2>2. e.is_member = v
      BY <1>2 DEF Field
  <2>3. QED BY <1>2, <2>1, <2>2 DEF Field
<1>4. check' = [check EXCEPT ![s] = e]
    BY <1>1
<1> HIDE DEF e
<1>5. check'[s] = e
    BY <1>4 DEF IInv, TypeOK
<1>6. /\ ago' \in [Chats -> [BOOLEAN -> 0..Horizon]] /\ ago'[c][v] = 0
      /\ \A d \in Chats : \A w \in BOOLEAN :
            ago'[d][w] \in {ago[d][w], 0} /\ ago[d][w] \in Nat
    BY <1>1, <1>2 DEF IInv, TypeOK
<1>7. TypeOK'
    BY <1>1, <1>3, <1>4, <1>6 DEF IInv, TypeOK, Field
<1>8. NoOlder
    BY <1>6 DEF NoOlder
<1>9. Timeless
    BY <1>1, <1>8 DEF Timeless, Stocked
<1>10. InOrder(s)' /\ InHand(s)'
  <2>1. InOrder(s)'
      BY <1>1, <1>2, <1>3, <1>5 DEF CheckOK, InOrder
  <2>2. ago'[check'[s].chat][check'[s].is_member] = 0
      BY <1>3, <1>5, <1>6
  <2>3. QED BY <1>3, <1>5, <2>1, <2>2 DEF InHand
<1>11. Restocked(s)'
  <2> SUFFICES ASSUME NEW d \in check[s].deleted, Cached(d)
               PROVE  ago'[d][cache[d].is_member] <= check[s].since + Patience
      BY <1>1, <1>3, <1>5 DEF Restocked, Cached
  <2>1. d \in Chats /\ cache[d].is_member \in BOOLEAN /\ check[s].since \in Nat
      BY <1>2 DEF Field, IInv, TypeOK, Verdict
  <2>2. QED BY <1>2, <1>6, <2>1 DEF CheckOK, Restocked
<1>12. Recent(s)'
  <2> SUFFICES ASSUME NEW d \in Verdicts(s)
               PROVE  (/\ Age(s, d) < check[s].since + TTL + Patience
                       /\ d \in check[s].deleted =>
                             Age(s, d) <= check[s].since + Patience)'
      BY <1>1, <1>3, <1>5 DEF Recent, Verdicts
  <2>1. d \in Chats /\ check[s].since \in Nat
      BY <1>2 DEF Verdicts, Field
  <2>2. Age(s, d)' \in {Age(s, d), 0} /\ Age(s, d) \in Nat
    <3> DEFINE w == d \notin check[s].missing
    <3>1. Age(s, d)' = ago'[d][w] /\ Age(s, d) = ago[d][w]
        BY <1>3, <1>5 DEF Age
    <3>2. w \in BOOLEAN
        OBVIOUS
    <3>3. QED BY <1>6, <2>1, <3>1, <3>2
  <2>3. QED BY <1>2, <1>3, <1>5, <2>1, <2>2 DEF CheckOK, Recent
<1>13. QED BY <1>4, <1>7, <1>9, <1>10, <1>11, <1>12, OneMoves DEF CheckOK, IInv, TypeOK

LEMMA SetexKeeps ==
    ASSUME IInv, NEW s \in Checks, setex(s)
    PROVE  IInv'
<1> USE CacheAssumption
<1> DEFINE c == check[s].chat
           v == check[s].is_member
<1>1. /\ check[s].at = "store" /\ UNCHANGED <<member, ago>>
      /\ check' = [check EXCEPT ![s] = Judged(@, c, v)]
      /\ cache' = cache \/ cache' = [cache EXCEPT ![c] = Stored(v)]
    BY DEF setex
<1>2. /\ check[s] \in Field /\ CheckOK(s) /\ v \in BOOLEAN /\ c \in Chats
      /\ c \in check[s].todo /\ check[s].clear = {}
      /\ check[s].since \in Nat /\ check[s].wait \in 0..Patience
    BY <1>1 DEF IInv, TypeOK, Field, CheckOK, InOrder
<1>3. ago[c][v] \in Nat /\ ago[c][v] <= Patience
    BY <1>1, <1>2 DEF IInv, TypeOK, CheckOK, InHand
<1>4. Stored(v) \in Verdict /\ Stored(v).left = TTL /\ Stored(v).is_member = v
    BY <1>2 DEF Stored, Verdict
<1>5. check'[s] = Judged(check[s], c, v)
    BY <1>1 DEF IInv, TypeOK
<1> HIDE DEF c, v
<1>6. \A d \in Chats : cache'[d] = cache[d] \/ (d = c /\ cache'[d] = Stored(v))
    BY <1>1 DEF IInv, TypeOK
<1>7. TypeOK'
  <2>1. cache' \in [Chats -> Verdict]
      BY <1>1, <1>2, <1>4 DEF IInv, TypeOK
  <2>2. QED BY <1>1, <1>2, <2>1, JudgedType DEF IInv, TypeOK, Field
<1>8. Timeless
  <2>1. \A d \in Chats : Stocked(d)
      BY <1>1, <1>3, <1>4, <1>6 DEF Stocked
  <2>2. QED BY <1>1, <2>1 DEF Timeless, NoOlder, IInv, TypeOK
<1>9. Restocked(s)'
  <2> SUFFICES ASSUME NEW d \in check[s].deleted, Cached(d)'
               PROVE  ago[d][cache'[d].is_member] <= check[s].since + Patience
      BY <1>1, <1>2, <1>5, JudgedFields DEF Restocked
  <2>1. d \in Chats
      BY <1>2 DEF Field
  <2>2. CASE cache'[d] = cache[d]
      BY <1>2, <2>1, <2>2 DEF CheckOK, Restocked, Cached
  <2>3. CASE d = c /\ cache'[d] = Stored(v)
      BY <1>2, <1>3, <1>4, <2>3
  <2>4. QED BY <1>6, <2>1, <2>2, <2>3
<1>10. ago[c][v] <= check[s].since + Patience
    BY <1>2, <1>3
<1>11. ago[c][v] < check[s].since + TTL + Patience
    BY <1>2, <1>3
<1>12. QED BY <1>1, <1>2, <1>7, <1>8, <1>9, <1>10, <1>11, JudgedOK

LEMMA DecideKeeps ==
    ASSUME IInv, NEW s \in Checks, decide(s)
    PROVE  IInv'
<1> USE CacheAssumption
<1>1. check' = [check EXCEPT ![s] = Idle] /\ UNCHANGED <<member, cache, ago>>
    BY DEF decide
<1>2. Idle \in Field /\ Idle.at = "idle" /\ Idle.deleted = {} /\ Idle.todo = {}
      /\ Idle.clear = {}
    BY DEF Idle, Field
<1>3. TypeOK'
    BY <1>1, <1>2 DEF IInv, TypeOK, Field
<1>4. Timeless
    BY <1>1 DEF IInv, TypeOK, Timeless, NoOlder, Stocked
<1>5. check'[s] = Idle
    BY <1>1 DEF IInv, TypeOK
<1>6. CheckOK(s)'
    BY <1>2, <1>5 DEF CheckOK, InOrder, InHand, Restocked, Recent, Verdicts
<1>7. QED BY <1>1, <1>3, <1>4, <1>6, OneMoves DEF IInv, TypeOK

-----------------------------------------------------------------------------
(* The user and the clock.                                                 *)

LEMMA UserKeeps ==
    ASSUME IInv, NEW c \in Chats, user_joins(c) \/ user_leaves(c)
    PROVE  IInv'
<1> USE CacheAssumption
<1>1. PICK v \in BOOLEAN : ago' = [ago EXCEPT ![c][v] = 0]
    BY DEF user_joins, user_leaves
<1>2. UNCHANGED <<cache, check>> /\ member' \in SUBSET Chats
    BY DEF user_joins, user_leaves, IInv, TypeOK
<1>3. /\ ago' \in [Chats -> [BOOLEAN -> 0..Horizon]]
      /\ \A d \in Chats : \A w \in BOOLEAN :
            ago'[d][w] \in {ago[d][w], 0} /\ ago[d][w] \in Nat
    BY <1>1 DEF IInv, TypeOK
<1>4. TypeOK'
    BY <1>2, <1>3 DEF IInv, TypeOK
<1>5. NoOlder
    BY <1>3 DEF NoOlder
<1>6. Timeless
    BY <1>2, <1>5 DEF Timeless, Stocked
<1>7. QED BY <1>2, <1>4, <1>6, RedisStays, OthersStay DEF IInv

LEMMA LaterIs ==
    ASSUME NEW n \in 0..Horizon
    PROVE  /\ Later(n) \in 0..Horizon /\ Later(n) <= n + 1
           /\ Later(n) = n + 1 \/ Later(n) = Horizon
  BY CacheAssumption DEF Later

\* Every clock goes on at the pace of the others: the age of a verdict, the
\* time left to a key, the wait of an answer, the time since a check began.
LEMMA TickKeeps == IInv /\ Tick => IInv'
<1> SUFFICES ASSUME IInv, Tick PROVE IInv'
    OBVIOUS
<1> USE CacheAssumption
<1>1. \A c \in Chats : \A v \in BOOLEAN :
         /\ ago[c][v] \in 0..Horizon /\ ago'[c][v] \in 0..Horizon
         /\ ago'[c][v] <= ago[c][v] + 1
  <2> SUFFICES ASSUME NEW c \in Chats, NEW v \in BOOLEAN
               PROVE  /\ ago[c][v] \in 0..Horizon /\ ago'[c][v] \in 0..Horizon
                      /\ ago'[c][v] <= ago[c][v] + 1
      OBVIOUS
  <2>1. ago[c][v] \in 0..Horizon
      BY DEF IInv, TypeOK
  <2>2. ago'[c][v] = 0 \/ ago'[c][v] = Later(ago[c][v])
      BY DEF Tick
  <2>3. QED BY <2>1, <2>2, LaterIs
<1>2. \A c \in Chats :
         /\ cache'[c] = Aged(cache[c]) /\ cache[c] \in Verdict
         /\ cache'[c] \in Verdict
         /\ Cached(c)' => /\ cache[c].left = cache'[c].left + 1 /\ Cached(c)
                          /\ cache'[c].is_member = cache[c].is_member
  <2> SUFFICES ASSUME NEW c \in Chats
               PROVE  /\ cache'[c] = Aged(cache[c]) /\ cache[c] \in Verdict
                      /\ cache'[c] \in Verdict
                      /\ Cached(c)' => /\ cache[c].left = cache'[c].left + 1
                                       /\ Cached(c)
                                       /\ cache'[c].is_member = cache[c].is_member
      OBVIOUS
  <2>1. cache'[c] = Aged(cache[c]) /\ cache[c] \in Verdict
      BY DEF Tick, IInv, TypeOK
  <2>2. CASE cache[c].left > 1
    <3>1. cache'[c] = [cache[c] EXCEPT !.left = @ - 1]
        BY <2>1, <2>2 DEF Aged
    <3>2. /\ cache'[c] \in Verdict /\ cache'[c].left = cache[c].left - 1
          /\ cache'[c].is_member = cache[c].is_member
        BY <2>1, <2>2, <3>1 DEF Verdict
    <3>3. QED BY <2>1, <2>2, <3>2 DEF Cached, Verdict
  <2>3. CASE ~(cache[c].left > 1)
    <3>1. cache'[c] = Absent
        BY <2>1, <2>3 DEF Aged
    <3>2. Absent \in Verdict /\ Absent.left = 0
        BY DEF Absent, Verdict
    <3>3. QED BY <2>1, <3>1, <3>2 DEF Cached
  <2>4. QED BY <2>2, <2>3
<1>3. ASSUME NEW t \in Checks, check[t].at = "idle"
      PROVE  check'[t] = Idle /\ check'[t] \in Field /\ CheckOK(t)'
  <2>1. check'[t] = Idle
      BY <1>3 DEF Tick
  <2>2. Idle \in Field /\ Idle.at = "idle" /\ Idle.deleted = {} /\ Idle.todo = {}
        /\ Idle.clear = {}
      BY DEF Idle, Field
  <2>3. QED BY <2>1, <2>2
               DEF CheckOK, InOrder, InHand, Restocked, Recent, Verdicts
<1>4. ASSUME NEW t \in Checks, check[t].at # "idle"
      PROVE  check'[t] \in Field /\ CheckOK(t)'
  <2> DEFINE wait == IF check[t].at = "store" THEN check[t].wait + 1
                                              ELSE check[t].wait
             e    == [check[t] EXCEPT !.since = Later(@), !.wait = wait]
  <2>1. check[t] \in Field /\ CheckOK(t) /\ check[t].since \in 0..Horizon
      BY DEF IInv, TypeOK, Field
  <2>2. check'[t] = e
      BY <1>4 DEF Tick
  <2>3. wait \in 0..Patience
    <3>1. check[t].wait \in 0..Patience
        BY <2>1 DEF Field
    <3>2. check[t].at = "store" => check[t].wait < Patience
        BY DEF Tick
    <3>3. QED BY <3>1, <3>2
  <2>4. Later(check[t].since) \in 0..Horizon
      BY <2>1, LaterIs
  <2>5. check[t].at = "store" => wait = check[t].wait + 1
      OBVIOUS
  <2> HIDE DEF wait
  <2>6. /\ e \in Field /\ e.at = check[t].at /\ e.todo = check[t].todo
        /\ e.missing = check[t].missing /\ e.clear = check[t].clear
        /\ e.deleted = check[t].deleted /\ e.chat = check[t].chat
        /\ e.is_member = check[t].is_member
        /\ e.since = Later(check[t].since) /\ e.wait = wait
      BY <2>1, <2>3, <2>4 DEF Field
  <2> HIDE DEF e
  <2>7. InOrder(t)'
      BY <1>4, <2>1, <2>2, <2>6 DEF CheckOK, InOrder
  <2>8. InHand(t)'
    <3> SUFFICES ASSUME check[t].at = "store"
                 PROVE  ago'[check[t].chat][check[t].is_member] <= wait
        BY <2>2, <2>6 DEF InHand
    <3>1. check[t].chat \in Chats /\ check[t].is_member \in BOOLEAN
          /\ check[t].wait \in Nat
        BY <2>1 DEF CheckOK, InOrder, Field
    <3>2. QED BY <1>1, <2>1, <2>5, <3>1 DEF CheckOK, InHand
  <2>9. Restocked(t)'
    <3> SUFFICES ASSUME NEW c \in check[t].deleted, Cached(c)'
                 PROVE  ago'[c][cache'[c].is_member] <= e.since + Patience
        BY <2>2, <2>6 DEF Restocked
    <3>1. c \in Chats /\ cache[c].is_member \in BOOLEAN
        BY <1>2, <2>1 DEF Field, Verdict
    <3>2. ago[c][cache[c].is_member] <= check[t].since + Patience
        BY <1>2, <2>1, <3>1 DEF CheckOK, Restocked
    <3>3. cache'[c].is_member = cache[c].is_member
        BY <1>2, <3>1
    <3>4. QED BY <1>1, <2>1, <2>6, <3>1, <3>2, <3>3, LaterIs
  <2>10. Recent(t)'
    <3> SUFFICES ASSUME NEW c \in Verdicts(t)
                 PROVE  /\ Age(t, c)' < e.since + TTL + Patience
                        /\ c \in check[t].deleted =>
                              Age(t, c)' <= e.since + Patience
        BY <2>2, <2>6 DEF Recent, Verdicts
    <3>1. c \in Chats
      <4>1. c \in Required[t]
          BY DEF Verdicts
      <4>2. QED BY <4>1
    <3>2. /\ Age(t, c) \in 0..Horizon /\ Age(t, c)' \in 0..Horizon
          /\ Age(t, c)' <= Age(t, c) + 1
      <4> DEFINE w == c \notin check[t].missing
      <4>1. Age(t, c)' = ago'[c][w] /\ Age(t, c) = ago[c][w]
          BY <2>2, <2>6 DEF Age
      <4>2. w \in BOOLEAN
          OBVIOUS
      <4>3. QED BY <1>1, <3>1, <4>1, <4>2
    <3>3. QED BY <2>1, <2>6, <3>2, LaterIs DEF CheckOK, Recent
  <2>11. QED BY <2>2, <2>6, <2>7, <2>8, <2>9, <2>10 DEF CheckOK
<1>5. TypeOK'
  <2>1. check' \in [Checks -> Field]
    <3>1. DOMAIN check' = Checks /\ check' = [t \in Checks |-> check'[t]]
        BY DEF Tick
    <3>2. \A t \in Checks : check'[t] \in Field
        BY <1>3, <1>4
    <3>3. QED BY <3>1, <3>2
  <2>2. cache' \in [Chats -> Verdict]
    <3>1. cache' = [c \in Chats |-> Aged(cache[c])]
        BY DEF Tick
    <3>2. QED BY <1>2, <3>1
  <2>3. ago' \in [Chats -> [BOOLEAN -> 0..Horizon]]
    <3> DEFINE next(c, v) == IF v = (c \in member) THEN 0 ELSE Later(ago[c][v])
    <3>1. ago' = [c \in Chats |-> [v \in BOOLEAN |-> next(c, v)]]
        BY DEF Tick
    <3>2. \A c \in Chats : \A v \in BOOLEAN : next(c, v) \in 0..Horizon
      <4>1. \A c \in Chats : \A v \in BOOLEAN : next(c, v) = ago'[c][v]
          BY <3>1
      <4>2. QED BY <1>1, <4>1
    <3> HIDE DEF next
    <3>3. QED BY <3>1, <3>2
  <2>4. QED BY <2>1, <2>2, <2>3 DEF Tick, IInv, TypeOK, Field
<1>6. RedisRecent'
  <2> SUFFICES ASSUME NEW c \in Chats, Cached(c)'
               PROVE  ago'[c][cache'[c].is_member] + cache'[c].left
                         <= TTL + Patience
      BY DEF RedisRecent
  <2>1. cache[c].is_member \in BOOLEAN /\ cache[c].left \in Nat
        /\ cache'[c].left \in Nat
      BY <1>2 DEF Verdict
  <2>2. ago[c][cache[c].is_member] + cache[c].left <= TTL + Patience
      BY <1>2 DEF IInv, RedisRecent
  <2>3. QED BY <1>1, <1>2, <2>1, <2>2
<1>7. QED BY <1>3, <1>4, <1>5, <1>6 DEF IInv

-----------------------------------------------------------------------------
LEMMA StepKeeps == IInv /\ [Next]_vars => IInv'
<1> SUFFICES ASSUME IInv, [Next]_vars PROVE IInv'
    OBVIOUS
<1>1. ASSUME NEW s \in Checks, Step(s) PROVE IInv'
    BY <1>1, BeginKeeps, InvalidateKeeps, FoundKeeps, NotFoundKeeps, LiveKeeps,
       SetexKeeps, DecideKeeps DEF Step
<1>2. CASE User
    BY <1>2, UserKeeps DEF User
<1>3. CASE Tick
    BY <1>3, TickKeeps
<1>4. CASE UNCHANGED vars
    BY <1>4 DEF vars, IInv, TypeOK, RedisRecent, CheckOK, InOrder, InHand,
                Restocked, Recent, Verdicts, Age, Cached
<1>5. QED BY <1>1, <1>2, <1>3, <1>4 DEF Next

THEOREM CacheInvariant == Spec => []IInv
  BY InitHolds, StepKeeps, PTL DEF Spec

\* Verdicts, checks and history keep to their values, however many checks.
THEOREM CacheTyped == Spec => []TypeOK
<1>1. IInv => TypeOK
    BY DEF IInv
<1>2. QED BY <1>1, CacheInvariant, PTL

\* Every verdict a handler or job decides by was right less than TTL + Patience
\* before its check began.
THEOREM VerdictsRecent == Spec => []AnswersRecent
<1>1. IInv => AnswersRecent
    BY DEF IInv, CheckOK, Recent, AnswersRecent
<1>2. QED BY <1>1, CacheInvariant, PTL

\* What was cached before the keys were deleted decides nothing any more; at
\* worst an answer does that had been waiting to be stored.
THEOREM DeletionCounts == Spec => []DeletedStaysOut
<1>1. IInv => DeletedStaysOut
    BY DEF IInv, CheckOK, Recent, DeletedStaysOut
<1>2. QED BY <1>1, CacheInvariant, PTL

\* How long "member" outlives the membership at most: the part of
\* AdmissionLapses that needs no fairness.
THEOREM AdmissionForgotten == Spec => []AdmissionBounded
<1>1. IInv => AdmissionBounded
  <2> SUFFICES ASSUME IInv, NEW c \in Chats
               PROVE  ago[c][TRUE] >= TTL + Patience
                         => ~(Cached(c) /\ cache[c].is_member)
      BY Zenon DEF AdmissionBounded
  <2>1. /\ cache[c].is_member \in BOOLEAN /\ cache[c].left \in Nat
        /\ \A v \in BOOLEAN : ago[c][v] \in Nat
      BY CacheAssumption DEF IInv, TypeOK, Verdict
  <2>2. Cached(c) => ~(ago[c][cache[c].is_member] >= TTL + Patience)
    <3>1. Cached(c) => ago[c][cache[c].is_member] + cache[c].left <= TTL + Patience
        BY DEF IInv, RedisRecent
    <3>2. QED BY <2>1, <3>1, CacheAssumption DEF Cached
  <2>3. cache[c].is_member => cache[c].is_member = TRUE
      BY <2>1
  <2>4. QED BY <2>2, <2>3, Zenon
<1>2. QED BY <1>1, CacheInvariant, PTL

\* The wait of an answer on its way into Redis is all that comes between the
\* comment in check.py and the code: without it, the comment is right.
THEOREM ActualIfPrompt == Patience = 0 => (Spec => []ChecksActualStatus)
<1> SUFFICES ASSUME Patience = 0 PROVE Spec => []ChecksActualStatus
    OBVIOUS
<1>1. IInv => ChecksActualStatus
  <2> SUFFICES ASSUME IInv, NEW s \in Checks,
                      NEW c \in Verdicts(s) \cap check[s].deleted
               PROVE  Age(s, c) <= check[s].since
      BY DEF ChecksActualStatus
  <2>1. check[s].since \in Nat
      BY CacheAssumption DEF IInv, TypeOK
  <2>2. QED BY <2>1 DEF IInv, CheckOK, Recent
<1>2. QED BY <1>1, CacheInvariant, PTL
=============================================================================
