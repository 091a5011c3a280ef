----------------------------- MODULE PolicyDialogs -----------------------------
(***************************************************************************)
(* The dialogs in which administrators create a policy, add a required     *)
(* channel to one, and change the link of its protected channel.           *)
(*                                                                         *)
(* aiogram handles the updates of a chat concurrently and isolates no FSM  *)
(* events, so every handler is a task with a step for each await.  A       *)
(* question or its answer is a few accesses to Redis: update_data reads    *)
(* and writes the data, set_state and clear follow or come between.  The   *)
(* handler of the last answer, the link, asks Telegram and writes to the   *)
(* database as well; the administrator may meanwhile open another dialog   *)
(* or send the link again.                                                 *)
(***************************************************************************)
EXTENDS Naturals

CONSTANTS
    Admins,        \* administrators
    Tasks,         \* bound: the handlers at work at a time
    Policies,      \* ids of policies; those not given yet as well
    Chats,
    MaxStops,      \* bound: how often the bot stops
    Failures,      \* may Telegram or the commit fail?
    None           \* no policy, no chat

ASSUME DialogAssumption ==
    /\ MaxStops \in Nat
    /\ Failures \in BOOLEAN
    /\ None \notin Policies \cup Chats

OrNone(S) == S \cup {None}

\* What a dialog is about, and what is written of it: a new policy for a chat,
\* a channel required by a policy, or the link of a policy's own channel.
Choice == [policy : OrNone(Policies), chat : OrNone(Chats)]
Nothing == [policy |-> None, chat |-> None]

VARIABLES
    fsm,       \* fsm[a]: the FSM state, "none" outside the dialogs
    data,      \* data[a]: policy_id and chat_id in the FSM data
    picked,    \* picked[a]: what a entered since the open dialog began
    task,      \* task[t]: the handler t, at its next await
    torn,      \* administrators whose handlers' FSM accesses got mixed, or cut off
    chatOf,    \* chatOf[p]: the protected chat of policy p, None if p is not there
    written,   \* the rows of policy_channels, and the links changed
    told,      \* what an administrator was last told was done
    stops      \* how often the bot stopped

dialog == <<fsm, data, picked>>
rows   == <<chatOf, written, told>>
vars   == <<dialog, task, torn, rows, stops>>

\* given: what update_data is to change; then the data it writes; or what the
\* link handler took of them.  next: the FSM state to be set.
Idle == [step |-> "idle", admin |-> None, given |-> Nothing, meant |-> Nothing,
         next |-> "none"]

Existing == {p \in Policies : chatOf[p] # None}
Taken(c) == \E p \in Policies : chatOf[p] = c

\* None leaves a key of the data as it is.
Merged(d, change) ==
    [policy |-> IF change.policy = None THEN d.policy ELSE change.policy,
     chat   |-> IF change.chat = None THEN d.chat ELSE change.chat]

-----------------------------------------------------------------------------
(* Questions and answers.  An update is dispatched by the state it finds.  *)

\* Text that is no id, chat or link is refused and changes nothing, so it is
\* left out; commands registered after the state's handler fare the same.
Begin(a, t, step, change, entered, next) ==
    /\ task[t] = Idle
    /\ task' = [task EXCEPT ![t] = [step |-> step, admin |-> a, given |-> change,
                                    meant |-> entered, next |-> next]]
    /\ picked' = [picked EXCEPT ![a] = entered]
    /\ UNCHANGED <<fsm, data, rows, stops>>

Opens(a, t, step, change, next) == Begin(a, t, step, change, change, next)

Answers(a, t, state, change, next) ==
    /\ fsm[a] = state
    /\ Begin(a, t, "get", change, Merged(picked[a], change), next)

OfPolicy(p) == [policy |-> p, chat |-> None]
OfChat(c)   == [policy |-> None, chat |-> c]

admin_policy_create_start(a, t) == Opens(a, t, "state", Nothing, "create_chat")

admin_policy_create_chat_id(a, t) ==
    \E c \in Chats : Answers(a, t, "create_chat", OfChat(c), "create_link")

\* The states of the creation come before this command.
admin_add_required_start(a, t) ==
    /\ fsm[a] \notin {"create_chat", "create_link"}
    /\ Opens(a, t, "state", Nothing, "add_policy")

\* The id is not looked up.
admin_add_channel_policy_id(a, t) ==
    \E p \in Policies : Answers(a, t, "add_policy", OfPolicy(p), "add_chat")

\* The buttons under a policy work in any state.
admin_add_required_callback(a, t, p) ==
    p \in Existing /\ Opens(a, t, "get", OfPolicy(p), "add_chat")

admin_edit_link_callback(a, t, p) ==
    p \in Existing /\ Opens(a, t, "get", OfPolicy(p), "new_link")

admin_add_channel_chat_id(a, t) ==
    \E c \in Chats : Answers(a, t, "add_chat", OfChat(c), "add_link")

\* The commands that clear the FSM first, registered before the states.
leave(a, t) == Begin(a, t, "clear", Nothing, picked[a], "none")

Link(a, t, state, step) ==
    fsm[a] = state /\ Begin(a, t, step, Nothing, picked[a], "none")

admin_policy_create_channel_link(a, t) == Link(a, t, "create_link", "create: read")
admin_add_channel_link(a, t)           == Link(a, t, "add_link", "add: read")
admin_edit_link_process(a, t)          == Link(a, t, "new_link", "edit: read")

At(t, step)   == task[t].step = step
Goes(t, step) == task' = [task EXCEPT ![t].step = step]

\* The handler raises: what it has not committed is rolled back, and the FSM
\* is not cleared.
Raise(t) == task' = [task EXCEPT ![t] = Idle] /\ UNCHANGED rows

-----------------------------------------------------------------------------
(* update_data, set_state and get_data.                                    *)

get_before_update(t) ==
    /\ At(t, "get")
    /\ task' = [task EXCEPT ![t].step  = "set",
                            ![t].given = Merged(data[task[t].admin], @)]
    /\ UNCHANGED <<dialog, rows, stops>>

set_updated(t) ==
    /\ At(t, "set")
    /\ data' = [data EXCEPT ![task[t].admin] = task[t].given]
    /\ Goes(t, "state")
    /\ UNCHANGED <<fsm, picked, rows, stops>>

set_state(t) ==
    /\ At(t, "state")
    /\ fsm' = [fsm EXCEPT ![task[t].admin] = task[t].next]
    /\ task' = [task EXCEPT ![t] = Idle]
    /\ UNCHANGED <<data, picked, rows, stops>>

\* A key that is not in the data raises.
Takes(t, needed, step, given) ==
    IF None \in needed
    THEN Raise(t)
    ELSE /\ task' = [task EXCEPT ![t].step = step, ![t].given = given]
         /\ UNCHANGED rows

\* The handler of a link takes what it needs of the data and keeps that copy.
get_data(t) ==
    LET d == data[task[t].admin]
    IN  \/ /\ At(t, "create: read")
           /\ Takes(t, {d.chat}, "create: telegram", OfChat(d.chat))
        \/ /\ At(t, "add: read")
           /\ Takes(t, {d.policy, d.chat}, "add: telegram", d)
        \/ /\ At(t, "edit: read")
           /\ Takes(t, {d.policy}, "edit: select", OfPolicy(d.policy))

-----------------------------------------------------------------------------
(* The link.                                                               *)

\* The administrator is told of an error, and the handler goes on to `step`;
\* telling may fail as well.
Refuse(t, step) ==
    \/ Goes(t, step) /\ UNCHANGED rows
    \/ Failures /\ Raise(t)

ask_telegram_first(t) ==   \* slip: the FSM data are read after the calls
    \/ At(t, "create: telegram") /\ Goes(t, "create: select") /\ UNCHANGED rows
    \/ /\ At(t, "add: telegram")
       /\ task' = [task EXCEPT ![t].step  = "add: flush",
                               ![t].given = data[task[t].admin]]
       /\ UNCHANGED rows
    \/ /\ At(t, "create: telegram") \/ At(t, "add: telegram")
       /\ Failures /\ Refuse(t, "clear")

\* get_chat and verify_bot_admin_rights: the calls may fail, and the bot may
\* lack the rights.
ask_telegram(t) ==
    \/ At(t, "create: telegram") /\ Goes(t, "create: select") /\ UNCHANGED rows
    \/ At(t, "add: telegram")    /\ Goes(t, "add: flush")     /\ UNCHANGED rows
    \/ /\ At(t, "create: telegram") \/ At(t, "add: telegram")
       /\ Failures /\ Refuse(t, "clear")

-----------------------------------------------------------------------------
(* A new policy.                                                           *)

existing_policy(t) ==
    /\ At(t, "create: select")
    /\ IF Taken(task[t].given.chat)
       THEN Refuse(t, "clear")
       ELSE Goes(t, "create: flush") /\ UNCHANGED rows

\* Another session has inserted this chat and not committed yet.
Contended(t) ==
    \E u \in Tasks \ {t} :
        /\ At(u, "create: answer") \/ At(u, "create: exit")
        /\ task[u].given.chat = task[t].given.chat

flush_policy_unchecked(t) ==   \* slip: protected_chat_id is not unique
    At(t, "create: flush") /\ Goes(t, "create: answer") /\ UNCHANGED rows

\* A violation of the unique index leaves the session unusable: the error is
\* answered, and the commit at the end of the session raises.
flush_policy(t) ==
    /\ At(t, "create: flush")
    /\ ~Contended(t)
    /\ IF Taken(task[t].given.chat)
       THEN Raise(t)
       ELSE Goes(t, "create: answer") /\ UNCHANGED rows

\* If the success cannot be told, the error is, and the policy is committed
\* nevertheless.
answer_created(t) ==
    /\ At(t, "create: answer")
    /\ Refuse(t, "create: exit")

exit_created(t) ==
    /\ At(t, "create: exit")
    /\ \/ /\ \E p \in Policies \ Existing :
                chatOf' = [chatOf EXCEPT ![p] = task[t].given.chat]
          /\ Goes(t, "clear")
          /\ UNCHANGED <<written, told>>
       \/ Failures /\ Raise(t)

-----------------------------------------------------------------------------
(* A required channel, and a new link.                                     *)

flush_channel_unchecked(t) ==  \* slip: policy_id references nothing
    At(t, "add: flush") /\ Goes(t, "add: commit") /\ UNCHANGED rows

flush_channel(t) ==
    /\ At(t, "add: flush")
    /\ IF task[t].given.policy \in Existing
       THEN Goes(t, "add: commit") /\ UNCHANGED rows
       ELSE Raise(t)

select_edited(t) ==
    /\ At(t, "edit: select")
    /\ IF task[t].given.policy \in Existing
       THEN Goes(t, "edit: commit") /\ UNCHANGED rows
       ELSE Refuse(t, "clear")

Write(t) ==
    /\ written' = written \cup {task[t].given}
    /\ UNCHANGED <<chatOf, told>>

commit_late(t) ==          \* slip: the commit is left to the end of the session
    \/ At(t, "add: commit")  /\ Goes(t, "add: answer")  /\ UNCHANGED rows
    \/ At(t, "edit: commit") /\ Goes(t, "edit: answer") /\ Write(t)
    \/ At(t, "add: exit")    /\ Goes(t, "clear")        /\ Write(t)

\* The users are notified before the commit.  If that fails, the error is told
\* and the row committed all the same, at the end of the session; if the commit
\* itself fails, the error is told and there is nothing left to commit.
commit(t) ==
    \/ At(t, "add: commit")  /\ Goes(t, "add: answer")  /\ Write(t)
    \/ /\ At(t, "add: commit") /\ Failures
       /\ Refuse(t, "add: exit") \/ Refuse(t, "clear")
    \/ At(t, "edit: commit") /\ Goes(t, "edit: answer") /\ Write(t)
    \/ At(t, "add: exit")    /\ Goes(t, "clear")        /\ Write(t)
    \/ /\ At(t, "edit: commit") \/ At(t, "add: exit")
       /\ Failures /\ Raise(t)

Tell(t) ==
    /\ told' = {task[t].given}
    /\ Goes(t, "clear")
    /\ UNCHANGED <<chatOf, written>>

answer_written(t) ==
    \/ At(t, "add: answer")  /\ (Tell(t) \/ (Failures /\ Refuse(t, "clear")))
    \/ At(t, "edit: answer") /\ (Tell(t) \/ (Failures /\ Raise(t)))

-----------------------------------------------------------------------------
(* The dialog ends; also one that was opened since the link arrived.       *)

clear_keeping_state(t) ==  \* slip: the data are cleared, the state is not
    /\ At(t, "clear")
    /\ Goes(t, "clear: data")
    /\ UNCHANGED <<dialog, rows, stops>>

\* state.clear: set_state(None), then set_data({}).
clear(t) ==
    /\ At(t, "clear")
    /\ fsm'    = [fsm EXCEPT ![task[t].admin] = "none"]
    /\ picked' = [picked EXCEPT ![task[t].admin] = Nothing]
    /\ Goes(t, "clear: data")
    /\ UNCHANGED <<data, rows, stops>>

clear_data(t) ==
    /\ At(t, "clear: data")
    /\ data' = [data EXCEPT ![task[t].admin] = Nothing]
    /\ task' = [task EXCEPT ![t] = Idle]
    /\ UNCHANGED <<fsm, picked, rows, stops>>

-----------------------------------------------------------------------------
(* Whose accesses to the FSM got mixed: kept to say what holds otherwise.  *)

\* From the dispatch, or the first write of clear, to the last access.
FsmSteps == {"get", "set", "state", "create: read", "add: read", "edit: read",
             "clear: data"}

AtFsm(t, a) == task[t].admin = a /\ task[t].step \in FsmSteps

Mixed == {a \in Admins : \E t, u \in Tasks : t # u /\ AtFsm(t, a) /\ AtFsm(u, a)}

\* The bot stops and is started again.  Redis keeps the dialogs.
restart ==
    /\ stops < MaxStops
    /\ stops' = stops + 1
    /\ task'  = [t \in Tasks |-> Idle]
    /\ torn'  = torn \cup {a \in Admins : \E t \in Tasks : AtFsm(t, a)}
    /\ UNCHANGED <<dialog, rows>>

-----------------------------------------------------------------------------
Init ==
    /\ fsm    = [a \in Admins |-> "none"]
    /\ data   = [a \in Admins |-> Nothing]
    /\ picked = [a \in Admins |-> Nothing]
    /\ task   = [t \in Tasks |-> Idle]
    /\ torn   = {}
    /\ chatOf = [p \in Policies |-> None]
    /\ written = {} /\ told = {}
    /\ stops = 0

Admin(a, t) ==
    \/ admin_policy_create_start(a, t)   \/ admin_policy_create_chat_id(a, t)
    \/ admin_add_required_start(a, t)    \/ admin_add_channel_policy_id(a, t)
    \/ admin_add_channel_chat_id(a, t)   \/ leave(a, t)
    \/ \E p \in Policies : \/ admin_add_required_callback(a, t, p)
                          \/ admin_edit_link_callback(a, t, p)
    \/ admin_policy_create_channel_link(a, t)
    \/ admin_add_channel_link(a, t)      \/ admin_edit_link_process(a, t)

Await(t) ==
    \/ get_data(t)        \/ ask_telegram(t)
    \/ existing_policy(t) \/ flush_policy(t)  \/ answer_created(t)
    \/ exit_created(t)
    \/ flush_channel(t)   \/ select_edited(t) \/ commit(t)
    \/ answer_written(t)

Handler(t) ==
    \/ get_before_update(t) \/ set_updated(t) \/ set_state(t)
    \/ Await(t) /\ UNCHANGED <<dialog, stops>>
    \/ clear(t) \/ clear_data(t)

Works ==
    /\ \E t \in Tasks : Handler(t) \/ \E a \in Admins : Admin(a, t)
    /\ torn' = torn \cup Mixed'

Next == Works \/ restart

Spec == Init /\ [][Next]_vars
=============================================================================
