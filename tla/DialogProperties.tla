--------------------------- MODULE DialogProperties ---------------------------
(***************************************************************************)
(* What should hold of the policy dialogs.                                 *)
(***************************************************************************)
EXTENDS PolicyDialogs

Steps ==
    {"idle", "get", "set", "state",
     "create: read", "create: telegram", "create: select", "create: flush",
     "create: answer", "create: exit",
     "add: read", "add: telegram", "add: flush", "add: commit", "add: exit",
     "add: answer", "edit: read", "edit: select", "edit: commit", "edit: answer",
     "clear", "clear: data"}

States ==
    {"none", "create_chat", "create_link", "add_policy", "add_chat", "add_link",
     "new_link"}

\* Every variable has its type, and what is written of a policy is written of
\* one that exists, whatever id an administrator typed (the foreign key).
TypeOK ==
    /\ fsm \in [Admins -> States]
    /\ data \in [Admins -> Choice] /\ picked \in [Admins -> Choice]
    /\ task \in [Tasks -> [step : Steps, admin : OrNone(Admins),
                           given : Choice, meant : Choice, next : States]]
    /\ torn \subseteq Admins
    /\ chatOf \in [Policies -> OrNone(Chats)]
    /\ written \subseteq [policy : Existing, chat : OrNone(Chats)]
    /\ told \subseteq Choice
    /\ stops \in 0..MaxStops

\* No chat has two policies, although two handlers may both find none before
\* either inserts (policy_service.py, check and insert in create_policy).
OnePolicyPerChat ==
    \A p, q \in Existing : chatOf[p] = chatOf[q] => p = q

\* A question is open only while the FSM data its answer needs are there, over
\* handlers that end late, dialogs opened on top of one another and restarts:
\* unless two handlers of the administrator were in their accesses to the FSM
\* at once, or a restart came between these.
AnswerFindsData ==
    \A a \in Admins \ torn :
        /\ fsm[a] \in {"create_link", "add_link"} => data[a].chat # None
        /\ fsm[a] \in {"add_chat", "add_link", "new_link"} => data[a].policy # None

\* An administrator who is told of a channel or a link finds it stored, however
\* the bot stops.
ToldIsWritten == told \subseteq written

\* What is written is what the administrator entered in the dialog the link
\* ended, not what another dialog put into the FSM data meanwhile, with the same
\* exception: accesses to the FSM that mix can mix the dialogs.
WrittenAsEntered ==
    [][/\ \A row \in written' \ written :
             \E t \in Tasks :
                 /\ task'[t] # task[t]
                 /\ task[t].meant = row \/ task[t].admin \in torn
       /\ \A p \in Policies : chatOf'[p] # chatOf[p] =>
             \E t \in Tasks :
                 /\ task'[t] # task[t]
                 /\ task[t].meant = OfChat(chatOf'[p]) \/ task[t].admin \in torn]_vars
=============================================================================
