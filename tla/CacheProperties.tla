--------------------------- MODULE CacheProperties ---------------------------
(***************************************************************************)
(* How old a verdict can be when a handler or a job decides by it, and,    *)
(* last, what a comment says and the code does not do.                     *)
(***************************************************************************)
EXTENDS MembershipCache

Verdict == [is_member : BOOLEAN, left : 0..TTL]

\* Verdicts, checks and history keep to the values they can have.
TypeOK ==
    /\ member \in SUBSET Chats
    /\ cache \in [Chats -> Verdict]
    /\ ago \in [Chats -> [BOOLEAN -> 0..Horizon]]
    /\ check \in [Checks ->
          [at : {"idle", "loop", "ask", "store"}, clear : SUBSET Chats,
           todo : SUBSET Chats, missing : SUBSET Chats,
           chat : Chats \cup {Nowhere}, is_member : BOOLEAN,
           wait : 0..Patience, deleted : SUBSET Chats, since : 0..Horizon]]

\* The channels check s has its verdict on, and the time since that verdict
\* was last what Telegram would have said.
Verdicts(s) == IF check[s].at = "idle" THEN {} ELSE Required[s] \ check[s].todo
Age(s, c)   == ago[c][c \notin check[s].missing]

\* However checks of one user overlap, and whatever Redis fails to do: each
\* verdict a decision is taken by was right less than TTL + Patience before
\* the check began (membership_service.py:90: "Cache result for 5 minutes"),
\* though a verdict may be stored after the leave that makes it wrong.
AnswersRecent == \A s \in Checks : \A c \in Verdicts(s) :
    Age(s, c) < check[s].since + TTL + Patience

\* A check that deletes the keys first (Check, the leave and join handlers,
\* both watchers) can be given an answer another check asked for before, but
\* none older than that one's wait: whatever was cached before is out.
DeletedStaysOut == \A s \in Checks : \A c \in Verdicts(s) \cap check[s].deleted :
    Age(s, c) <= check[s].since + Patience

\* Once the user stays out of a chat, "member" is forgotten for good, with no
\* check and no invalidation.
AdmissionLapses == \A c \in Chats :
    <>[](c \notin member) => <>[](~cache[c].is_member)

\* The same by the clock: "member" is gone from Redis TTL + Patience after the
\* last time it was so, whatever checks were made in between.
AdmissionBounded == \A c \in Chats :
    ago[c][TRUE] >= TTL + Patience => ~(Cached(c) /\ cache[c].is_member)

-----------------------------------------------------------------------------
(* Said of the code, and not so.                                           *)

\* check.py:97: deleting the keys "ensures we check actual membership status,
\* not stale cache": every verdict is one that was right after the check began.
ChecksActualStatus == \A s \in Checks :
    \A c \in Verdicts(s) \cap check[s].deleted : Age(s, c) <= check[s].since
=============================================================================
