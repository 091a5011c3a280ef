----------------------------- MODULE DialogProofs -----------------------------
(***************************************************************************)
(* Theorems about the policy dialogs for any number of administrators,     *)
(* handlers at work, policies and chats.  What handlers and rows hold is   *)
(* invariant however the accesses to the FSM mix (WorkInv); that questions,*)
(* data and entries fit together is, for an administrator with whom they   *)
(* never did (Held).                                                       *)
(***************************************************************************)
EXTENDS DialogProperties, TLAPS

-----------------------------------------------------------------------------
(* The inductive invariant.                                                *)

Creates == {"create: telegram", "create: select", "create: flush",
            "create: answer", "create: exit"}
Adds    == {"add: telegram", "add: flush", "add: commit", "add: exit",
            "add: answer"}
Edits   == {"edit: select", "edit: commit", "edit: answer"}
Links   == Creates \cup Adds \cup Edits

TaskType == [step : Steps, admin : OrNone(Admins), given : Choice,
             meant : Choice, next : States]

\* The step of a handler says what it works on and what is there.
Working(r) ==
    /\ r.step # "idle" => r.admin \in Admins
    /\ r.step \in Creates => r.given.policy = None /\ r.given.chat \in Chats
    /\ r.step \in Adds => r.given.policy \in Policies /\ r.given.chat \in Chats
    /\ r.step \in {"add: commit", "add: exit"} => r.given.policy \in Existing
    /\ r.step \in Edits => r.given.policy \in Policies /\ r.given.chat = None
    /\ r.step \in {"edit: commit", "edit: answer"} => r.given.policy \in Existing
    /\ r.step \in {"add: answer", "edit: answer"} => r.given \in written

Inserted(t) == At(t, "create: answer") \/ At(t, "create: exit")

TaskInv ==
    /\ task \in [Tasks -> TaskType]
    /\ \A t \in Tasks : Working(task[t])

\* A chat inserted and not committed has no policy yet, and one handler only.
InsertInv ==
    /\ \A t \in Tasks : Inserted(t) => ~Taken(task[t].given.chat)
    /\ \A t, u \in Tasks :
          Inserted(t) /\ Inserted(u) /\ task[t].given.chat = task[u].given.chat
          => t = u

RowInv ==
    /\ chatOf \in [Policies -> OrNone(Chats)]
    /\ written \subseteq [policy : Existing, chat : OrNone(Chats)]
    /\ told \subseteq written
    /\ OnePolicyPerChat

WorkInv == TaskInv /\ InsertInv /\ RowInv /\ stops \in 0..MaxStops

FsmInv ==
    /\ fsm \in [Admins -> States]
    /\ data \in [Admins -> Choice] /\ picked \in [Admins -> Choice]
    /\ torn \subseteq Admins

\* The data d hold what an answer in this state needs.
HasData(state, d) ==
    /\ state \in {"create_link", "add_link"} => d.chat # None
    /\ state \in {"add_chat", "add_link", "new_link"} => d.policy # None

\* An open question, the FSM data d and what was entered, p, belong together.
Fitting(state, d, p) ==
    /\ HasData(state, d)
    /\ state \in {"create_chat", "add_policy"} => p = Nothing
    /\ state = "create_link" => p = [policy |-> None, chat |-> d.chat]
    /\ state \in {"add_chat", "new_link"} => p = [policy |-> d.policy, chat |-> None]
    /\ state = "add_link" => p = d

\* The state whose link a handler at this step reads the data for.
Asked(step) == IF step = "create: read" THEN "create_link"
               ELSE IF step = "add: read" THEN "add_link" ELSE "new_link"

\* A handler r between its accesses: they will fit when it is through.
Midway(r, state, d, p) ==
    /\ r.step = "get" => Fitting(r.next, Merged(d, r.given), p)
    /\ r.step = "set" => /\ Fitting(r.next, r.given, p)
                         /\ d.policy # None => r.given.policy # None
                         /\ d.chat # None => r.given.chat # None
    /\ r.step = "state" => Fitting(r.next, d, p)
    /\ r.step \in {"create: read", "add: read", "edit: read"} =>
          /\ state = Asked(r.step)
          /\ Fitting(state, d, p)
          /\ r.meant = p
    /\ r.step = "clear: data" => state = "none"

Held(a) ==
    /\ HasData(fsm[a], data[a])
    /\ \A t, u \in Tasks : AtFsm(t, a) /\ AtFsm(u, a) => t = u
    /\ (\A t \in Tasks : ~AtFsm(t, a)) => Fitting(fsm[a], data[a], picked[a])
    /\ \A t \in Tasks : AtFsm(t, a) => Midway(task[t], fsm[a], data[a], picked[a])
    /\ \A t \in Tasks : task[t].admin = a /\ task[t].step \in Links =>
          task[t].given = task[t].meant

IInv == WorkInv /\ FsmInv /\ \A a \in Admins \ torn : Held(a)

LEMMA InitInv == Init => IInv
<1>. SUFFICES ASSUME Init PROVE IInv
     OBVIOUS
<1>1. Existing = {}
      BY DEF Init, Existing
<1>2. FsmInv /\ Nothing \in Choice
      BY DEF Init, FsmInv, States, Choice, Nothing, OrNone
<1>3. Idle \in TaskType
      BY DEF Idle, TaskType, Steps, Choice, Nothing, OrNone, States
<1>4. TaskInv
      BY <1>3 DEF Init, TaskInv, Working, Idle, Creates, Adds, Edits
<1>5. InsertInv
      BY DEF Init, InsertInv, Inserted, At, Idle
<1>6. RowInv
      BY <1>1 DEF Init, RowInv, OnePolicyPerChat, OrNone
<1>7. ASSUME NEW a \in Admins PROVE Held(a)
  <2>1. \A t \in Tasks : ~AtFsm(t, a)
        BY DEF Init, AtFsm, FsmSteps, Idle
  <2>. QED BY <2>1 DEF Init, Held, HasData, Fitting, Idle, Links, Creates, Adds, Edits
<1>. QED BY <1>2, <1>4, <1>5, <1>6, <1>7, DialogAssumption DEF IInv, WorkInv, Init

-----------------------------------------------------------------------------
(* A handler's next step, for what it works on and for the rows.           *)

\* The rows and the handlers' view of them depend on the rows alone.
LEMMA SameRows ==
    ASSUME UNCHANGED rows
    PROVE  /\ Existing' = Existing
           /\ \A c : Taken(c)' = Taken(c)
           /\ RowInv => RowInv'
BY DEF rows, Existing, Taken, RowInv, OnePolicyPerChat

Open(r) == r.step \in {"create: answer", "create: exit"}

\* No other handler has inserted the chat of r, and it has no policy.
Alone(t, r) ==
    Open(r) => /\ ~Taken(r.given.chat)
               /\ \A u \in Tasks \ {t} :
                     Inserted(u) => task[u].given.chat # r.given.chat

LEMMA Going ==
    ASSUME WorkInv, NEW t \in Tasks, NEW r \in TaskType,
           task' = [task EXCEPT ![t] = r], UNCHANGED <<rows, stops>>,
           Working(r), Alone(t, r)
    PROVE  WorkInv'
<1>1. Existing' = Existing /\ RowInv' /\ \A c : Taken(c)' = Taken(c)
      BY SameRows DEF WorkInv
<1>3. task' \in [Tasks -> TaskType]
      BY DEF WorkInv, TaskInv
<1>4. ASSUME NEW u \in Tasks PROVE Working(task[u])' /\ Working(task'[u])
      BY <1>1 DEF WorkInv, TaskInv, Working, rows
<1>5. TaskInv'
      BY <1>3, <1>4 DEF TaskInv
<1>6. ASSUME NEW u \in Tasks
      PROVE  /\ u # t => task'[u] = task[u] /\ (Inserted(u)' <=> Inserted(u))
             /\ u = t => task'[u] = r /\ (Inserted(u)' <=> Open(r))
      BY DEF WorkInv, TaskInv, Inserted, At, Open
<1>7. InsertInv'
      BY <1>1, <1>6 DEF WorkInv, InsertInv, Alone
<1>. QED BY <1>1, <1>5, <1>7 DEF WorkInv

\* The same for a change of the step alone, and for the end of the handler.
LEMMA Stepped ==
    ASSUME WorkInv, NEW t \in Tasks, NEW step \in Steps, Goes(t, step)
    PROVE  \E r \in TaskType :
              /\ task' = [task EXCEPT ![t] = r]
              /\ r.step = step /\ r.admin = task[t].admin
              /\ r.given = task[t].given /\ r.meant = task[t].meant
<1>1. task[t] \in TaskType
      BY DEF WorkInv, TaskInv
<1>. DEFINE r == [task[t] EXCEPT !.step = step]
<1>2. /\ r \in TaskType
      /\ r.step = step /\ r.admin = task[t].admin
      /\ r.given = task[t].given /\ r.meant = task[t].meant
      BY <1>1 DEF TaskType
<1>3. task' = [task EXCEPT ![t] = r]
      BY DEF Goes
<1>. QED BY <1>2, <1>3

LEMMA IdleFits ==
    ASSUME NEW t \in Tasks
    PROVE  Idle \in TaskType /\ Working(Idle) /\ Alone(t, Idle)
BY DEF Idle, TaskType, Steps, Choice, Nothing, OrNone, Working, Creates, Adds, Edits,
       Alone, Open, States

LEMMA Raising ==
    ASSUME WorkInv, NEW t \in Tasks, Raise(t), UNCHANGED stops
    PROVE  WorkInv'
BY IdleFits, Going DEF Raise

LEMMA GoingOn ==
    ASSUME WorkInv, NEW t \in Tasks, NEW step \in Steps, Goes(t, step),
           UNCHANGED <<rows, stops>>, task[t].step # "idle",
           step \in Creates => task[t].step \in Creates,
           step \in Adds => task[t].step \in Adds,
           step \in {"add: commit", "add: exit"} =>
              task[t].given.policy \in Existing,
           step \in Edits => task[t].step \in Edits,
           step = "edit: commit" => task[t].given.policy \in Existing,
           step \notin {"add: answer", "edit: answer"},
           step \in {"create: answer", "create: exit"} =>
              ~Taken(task[t].given.chat) /\ ~Contended(t)
    PROVE  WorkInv'
<1>1. PICK r \in TaskType :
         /\ task' = [task EXCEPT ![t] = r]
         /\ r.step = step /\ r.admin = task[t].admin
         /\ r.given = task[t].given /\ r.meant = task[t].meant
      BY Stepped
<1>2. Working(task[t])
      BY DEF WorkInv, TaskInv
<1>3. Working(r)
      BY <1>1, <1>2 DEF Working
<1>4. Alone(t, r)
      BY <1>1 DEF Alone, Open, Contended, Inserted
<1>. QED BY <1>1, <1>3, <1>4, Going

LEMMA Clearing ==
    ASSUME WorkInv, NEW t \in Tasks, task[t].step # "idle", Goes(t, "clear"),
           UNCHANGED <<rows, stops>>
    PROVE  WorkInv'
BY GoingOn DEF Steps, Creates, Adds, Edits

LEMMA Refusing ==
    ASSUME WorkInv, NEW t \in Tasks, task[t].step # "idle", Refuse(t, "clear"),
           UNCHANGED stops
    PROVE  WorkInv'
BY Clearing, Raising DEF Refuse

-----------------------------------------------------------------------------
(* Between the awaits of a handler.                                        *)

LEMMA Awaiting ==
    ASSUME WorkInv, NEW t \in Tasks, UNCHANGED stops
    PROVE  /\ ask_telegram(t) => WorkInv'
           /\ existing_policy(t) => WorkInv'
           /\ flush_policy(t) => WorkInv'
           /\ flush_channel(t) => WorkInv'
           /\ select_edited(t) => WorkInv'
<1>1. ASSUME ask_telegram(t) PROVE WorkInv'
  <2>1. CASE At(t, "create: telegram") /\ Goes(t, "create: select") /\ UNCHANGED rows
        BY <2>1, GoingOn DEF At, Steps, Creates, Adds, Edits
  <2>2. CASE At(t, "add: telegram") /\ Goes(t, "add: flush") /\ UNCHANGED rows
        BY <2>2, GoingOn DEF At, Steps, Creates, Adds, Edits
  <2>3. CASE /\ At(t, "create: telegram") \/ At(t, "add: telegram")
             /\ Refuse(t, "clear")
        BY <2>3, Refusing DEF At
  <2>. QED BY <1>1, <2>1, <2>2, <2>3 DEF ask_telegram
<1>2. ASSUME existing_policy(t) PROVE WorkInv'
  <2>1. CASE Refuse(t, "clear")
        BY <1>2, <2>1, Refusing DEF existing_policy, At
  <2>2. CASE Goes(t, "create: flush") /\ UNCHANGED rows
        BY <1>2, <2>2, GoingOn DEF existing_policy, At, Steps, Creates, Adds, Edits
  <2>. QED BY <1>2, <2>1, <2>2 DEF existing_policy
<1>3. ASSUME flush_policy(t) PROVE WorkInv'
  <2>1. CASE Raise(t)
        BY <2>1, Raising
  <2>2. CASE ~Taken(task[t].given.chat) /\ Goes(t, "create: answer") /\ UNCHANGED rows
        BY <1>3, <2>2, GoingOn DEF flush_policy, At, Steps, Creates, Adds, Edits
  <2>. QED BY <1>3, <2>1, <2>2 DEF flush_policy
<1>4. ASSUME flush_channel(t) PROVE WorkInv'
  <2>1. CASE Raise(t)
        BY <2>1, Raising
  <2>2. CASE /\ task[t].given.policy \in Existing
             /\ Goes(t, "add: commit") /\ UNCHANGED rows
        BY <1>4, <2>2, GoingOn DEF flush_channel, At, Steps, Creates, Adds, Edits
  <2>. QED BY <1>4, <2>1, <2>2 DEF flush_channel
<1>5. ASSUME select_edited(t) PROVE WorkInv'
  <2>1. CASE Refuse(t, "clear")
        BY <1>5, <2>1, Refusing DEF select_edited, At
  <2>2. CASE /\ task[t].given.policy \in Existing
             /\ Goes(t, "edit: commit") /\ UNCHANGED rows
        BY <1>5, <2>2, GoingOn DEF select_edited, At, Steps, Creates, Adds, Edits
  <2>. QED BY <1>5, <2>1, <2>2 DEF select_edited
<1>. QED BY <1>1, <1>2, <1>3, <1>4, <1>5

\* The chat of a policy inserted and not committed is still free.
LEMMA Answering ==
    ASSUME WorkInv, NEW t \in Tasks, UNCHANGED stops, answer_created(t)
    PROVE  WorkInv'
<1>1. ~Taken(task[t].given.chat) /\ ~Contended(t)
      BY DEF WorkInv, InsertInv, Inserted, answer_created, At, Contended
<1>2. CASE Goes(t, "create: exit") /\ UNCHANGED rows
      BY <1>1, <1>2, GoingOn DEF answer_created, At, Steps, Creates, Adds, Edits
<1>. QED BY <1>2, Raising DEF answer_created, Refuse

\* The commit of a new policy.
LEMMA Creating ==
    ASSUME WorkInv, NEW t \in Tasks, UNCHANGED stops, exit_created(t)
    PROVE  WorkInv'
<1>1. CASE Raise(t)
      BY <1>1, Raising
<1>2. ASSUME NEW p \in Policies \ Existing,
             chatOf' = [chatOf EXCEPT ![p] = task[t].given.chat],
             Goes(t, "clear"), UNCHANGED <<written, told>>
      PROVE  WorkInv'
  <2>. DEFINE c == task[t].given.chat
  <2>1. /\ c \in Chats /\ ~Taken(c) /\ Inserted(t)
        /\ task[t].step # "idle"
        BY DEF exit_created, At, Inserted, WorkInv, InsertInv, TaskInv, Working, Creates
  <2>2. PICK r \in TaskType :
           /\ task' = [task EXCEPT ![t] = r]
           /\ r.step = "clear" /\ r.admin = task[t].admin
           /\ r.given = task[t].given /\ r.meant = task[t].meant
        BY <1>2, Stepped DEF Steps
  <2>3. \A q \in Policies : chatOf'[q] = IF q = p THEN c ELSE chatOf[q]
        BY <1>2 DEF WorkInv, RowInv
  <2>4. c # None /\ Existing' = Existing \cup {p}
        BY <1>2, <2>1, <2>3, DialogAssumption DEF Existing
  <2>5. \A d : Taken(d)' => Taken(d) \/ d = c
        BY <2>3 DEF Taken
  <2>7. task' \in [Tasks -> TaskType] /\ Working(r)
        BY <2>1, <2>2 DEF WorkInv, TaskInv, Working, Creates, Adds, Edits
  <2>8. TaskInv'
    <3>1. ASSUME NEW u \in Tasks PROVE Working(task[u])'
      <4>1. Working(task'[u])
            BY <2>2, <2>7 DEF WorkInv, TaskInv
      <4>. QED BY <4>1, <1>2, <2>4 DEF Working
    <3>. QED BY <2>7, <3>1 DEF TaskInv
  <2>9. ASSUME NEW u \in Tasks, Inserted(u)'
        PROVE  u # t /\ task'[u] = task[u] /\ Inserted(u) /\ task[u].given.chat # c
        BY <2>1, <2>2, <2>9 DEF WorkInv, TaskInv, InsertInv, Inserted, At
  <2>10. InsertInv'
        BY <2>5, <2>9 DEF WorkInv, InsertInv
  <2>11. \A q \in Existing : q # p /\ chatOf[q] # c
        BY <1>2, <2>1 DEF Existing, Taken
  <2>12. OnePolicyPerChat'
    <3>1. SUFFICES ASSUME NEW q \in Existing', NEW s \in Existing',
                          chatOf'[q] = chatOf'[s]
                   PROVE  q = s
          BY DEF OnePolicyPerChat
    <3>2. q \in Policies /\ s \in Policies
          BY <2>4 DEF Existing
    <3>3. CASE q = p \/ s = p
          BY <2>3, <2>4, <2>11, <3>1, <3>2, <3>3
    <3>4. CASE q # p /\ s # p
          BY <2>3, <2>4, <3>1, <3>2, <3>4 DEF WorkInv, RowInv, OnePolicyPerChat
    <3>. QED BY <3>3, <3>4
  <2>13. RowInv'
        BY <1>2, <2>1, <2>4, <2>12 DEF WorkInv, RowInv, OrNone
  <2>. QED BY <1>2, <2>8, <2>10, <2>13 DEF WorkInv
<1>. QED BY <1>1, <1>2 DEF exit_created

\* The commit of a required channel or a new link.
LEMMA Committing ==
    ASSUME WorkInv, NEW t \in Tasks, UNCHANGED stops, commit(t)
    PROVE  WorkInv'
<1>1. Working(task[t])
      BY DEF WorkInv, TaskInv
<1>2. CASE Raise(t)
      BY <1>2, Raising
<1>3. CASE At(t, "add: commit") /\ Goes(t, "add: exit") /\ UNCHANGED rows
      BY <1>1, <1>3, GoingOn DEF At, Steps, Creates, Adds, Edits, Working
<1>4. ASSUME NEW step \in {"add: answer", "edit: answer", "clear"},
             At(t, "add: commit") \/ At(t, "edit: commit") \/ At(t, "add: exit"),
             step = "add: answer" => At(t, "add: commit"),
             step = "edit: answer" => At(t, "edit: commit"),
             Goes(t, step), Write(t)
      PROVE  WorkInv'
  <2>0. step \in Steps /\ Goes(t, step)
        BY <1>4 DEF Steps
  <2>1. PICK r \in TaskType :
           /\ task' = [task EXCEPT ![t] = r]
           /\ r.step = step /\ r.admin = task[t].admin
           /\ r.given = task[t].given /\ r.meant = task[t].meant
        BY <2>0, Stepped
  <2>2. /\ task[t].given \in Choice /\ task[t].given.policy \in Existing
        /\ task[t].step # "idle"
        BY <1>1, <1>4 DEF At, Working, Adds, Edits, WorkInv, TaskInv, TaskType
  <2>3. /\ Existing' = Existing /\ \A c : Taken(c)' = Taken(c)
        /\ OnePolicyPerChat'
        BY <1>4 DEF Write, Existing, Taken, OnePolicyPerChat, WorkInv, RowInv
  <2>4. task[t].given \in [policy : Existing, chat : OrNone(Chats)]
        BY <2>2 DEF Choice
  <2>5. RowInv'
        BY <1>4, <2>3, <2>4 DEF Write, WorkInv, RowInv
  <2>7. Working(r)'
        BY <1>1, <1>4, <2>1, <2>2, <2>3 DEF Working, At, Creates, Adds, Edits, Write
  <2>8. ASSUME NEW u \in Tasks PROVE Working(task[u])'
    <3>1. CASE u = t
          BY <2>1, <2>7, <3>1 DEF WorkInv, TaskInv
    <3>2. CASE u # t
      <4>1. task'[u] = task[u] /\ Working(task[u])
            BY <2>1, <3>2 DEF WorkInv, TaskInv
      <4>. QED BY <1>4, <2>3, <4>1 DEF Working, Write
    <3>. QED BY <3>1, <3>2
  <2>9. TaskInv'
        BY <2>1, <2>8 DEF WorkInv, TaskInv
  <2>10. ASSUME NEW u \in Tasks, Inserted(u)'
         PROVE  task'[u] = task[u] /\ Inserted(u)
         BY <2>1, <2>10 DEF WorkInv, TaskInv, Inserted, At
  <2>11. InsertInv'
         BY <2>3, <2>10 DEF WorkInv, InsertInv
  <2>. QED BY <2>5, <2>9, <2>11 DEF WorkInv
<1>5. CASE Refuse(t, "clear")
      BY <1>5, Refusing DEF commit, At
<1>. QED BY <1>2, <1>3, <1>4, <1>5 DEF commit, Refuse

\* The administrator is told of what is committed.
LEMMA Telling ==
    ASSUME WorkInv, NEW t \in Tasks, UNCHANGED stops, answer_written(t)
    PROVE  WorkInv'
<1>1. CASE Raise(t) \/ Refuse(t, "clear")
      BY <1>1, Raising, Refusing DEF answer_written, At
<1>2. CASE Tell(t)
  <2>1. task[t].step \in {"add: answer", "edit: answer"}
        BY DEF answer_written, At
  <2>2. Working(task[t])
        BY DEF WorkInv, TaskInv
  <2>3. PICK r \in TaskType :
           /\ task' = [task EXCEPT ![t] = r]
           /\ r.step = "clear" /\ r.admin = task[t].admin
           /\ r.given = task[t].given /\ r.meant = task[t].meant
        BY <1>2, Stepped DEF Tell, Steps
  <2>4. /\ Existing' = Existing /\ \A c : Taken(c)' = Taken(c)
        /\ OnePolicyPerChat'
        BY <1>2 DEF Tell, Existing, Taken, OnePolicyPerChat, WorkInv, RowInv
  <2>5. RowInv'
        BY <1>2, <2>1, <2>2, <2>4 DEF Tell, WorkInv, RowInv, Working
  <2>7. Working(r)
        BY <2>1, <2>2, <2>3 DEF Working, Creates, Adds, Edits
  <2>8. ASSUME NEW u \in Tasks PROVE Working(task[u])'
    <3>1. Working(task'[u])
          BY <2>3, <2>7 DEF WorkInv, TaskInv
    <3>. QED BY <1>2, <2>4, <3>1 DEF Working, Tell
  <2>9. TaskInv'
        BY <2>3, <2>8 DEF WorkInv, TaskInv
  <2>10. ASSUME NEW u \in Tasks, Inserted(u)'
         PROVE  task'[u] = task[u] /\ Inserted(u)
         BY <2>3, <2>10 DEF WorkInv, TaskInv, Inserted, At
  <2>11. InsertInv'
         BY <2>4, <2>10 DEF WorkInv, InsertInv
  <2>. QED BY <2>5, <2>9, <2>11 DEF WorkInv
<1>. QED BY <1>1, <1>2 DEF answer_written


-----------------------------------------------------------------------------
(* The dialogs: what holds until the accesses of two handlers mix.         *)

\* What handler t of a does to a dialog that fits, when it becomes r.
Keeps(a, t, r) ==
    /\ HasData(fsm[a], data[a])
    /\ task[t].step \notin FsmSteps /\ r.step \in FsmSteps =>
          Fitting(fsm[a], data[a], picked[a])
    /\ task[t].step \in FsmSteps => Midway(task[t], fsm[a], data[a], picked[a])
    /\ task[t].step \in Links => task[t].given = task[t].meant
    =>
    /\ HasData(fsm'[a], data'[a])
    /\ r.step \in FsmSteps => Midway(r, fsm'[a], data'[a], picked'[a])
    /\ task[t].step \in FsmSteps /\ r.step \notin FsmSteps =>
          Fitting(fsm'[a], data'[a], picked'[a])
    /\ r.step \in Links => r.given = r.meant

\* The dialogs of the administrators in S stay as they are.
Same(S) == \A b \in S : fsm'[b] = fsm[b] /\ data'[b] = data[b] /\ picked'[b] = picked[b]

LEMMA OthersHeld ==
    ASSUME TaskInv, NEW b \in Admins, Held(b), Same({b}),
           NEW t \in Tasks, NEW r \in TaskType, task' = [task EXCEPT ![t] = r],
           task[t].admin # b \/ task[t].step = "idle",
           r.admin # b \/ r.step = "idle"
    PROVE  Held(b)'
<1>1. ASSUME NEW u \in Tasks
      PROVE  /\ AtFsm(u, b)' <=> AtFsm(u, b)
             /\ AtFsm(u, b) => task'[u] = task[u]
             /\ task'[u].admin = b /\ task'[u].step \in Links => task'[u] = task[u]
      BY DEF TaskInv, AtFsm, FsmSteps, Links, Creates, Adds, Edits
<1>2. fsm'[b] = fsm[b] /\ data'[b] = data[b] /\ picked'[b] = picked[b]
      BY DEF Same
<1>3. ASSUME NEW u \in Tasks, AtFsm(u, b)'
      PROVE  Midway(task'[u], fsm'[b], data'[b], picked'[b])
      BY <1>1, <1>2, <1>3 DEF Held
<1>. HIDE DEF Midway, Fitting, HasData
<1>. QED BY <1>1, <1>2, <1>3 DEF Held

LEMMA OwnHeld ==
    ASSUME TaskInv, NEW a \in Admins, Held(a), a \notin Mixed',
           NEW t \in Tasks, NEW r \in TaskType, task' = [task EXCEPT ![t] = r],
           task[t].admin = a \/ task[t].step = "idle",
           r.admin = a \/ r.step = "idle",
           task[t].step \in FsmSteps \/ r.step \in FsmSteps \/ Same({a}),
           Keeps(a, t, r)
    PROVE  Held(a)'
<1>1. /\ task'[t] = r
      /\ \A u \in Tasks \ {t} : task'[u] = task[u] /\ (AtFsm(u, a)' <=> AtFsm(u, a))
      /\ AtFsm(t, a) <=> task[t].step \in FsmSteps
      /\ AtFsm(t, a)' <=> r.step \in FsmSteps
      BY DEF TaskInv, AtFsm, FsmSteps
<1>2. \A u, v \in Tasks : AtFsm(u, a)' /\ AtFsm(v, a)' => u = v
      BY DEF Mixed
<1>3. /\ HasData(fsm'[a], data'[a])
      /\ r.step \in FsmSteps => Midway(r, fsm'[a], data'[a], picked'[a])
      /\ task[t].step \in FsmSteps /\ r.step \notin FsmSteps =>
            Fitting(fsm'[a], data'[a], picked'[a])
      /\ r.step \in Links => r.given = r.meant
  <2>1. /\ HasData(fsm[a], data[a])
        /\ task[t].step \in FsmSteps => Midway(task[t], fsm[a], data[a], picked[a])
        BY <1>1 DEF Held
  <2>2. task[t].step \in Links => task[t].given = task[t].meant
        BY DEF Held, Links, Creates, Adds, Edits
  <2>3. task[t].step \notin FsmSteps /\ r.step \in FsmSteps =>
           Fitting(fsm[a], data[a], picked[a])
        BY <1>1, <1>2 DEF Held
  <2>. QED BY <2>1, <2>2, <2>3 DEF Keeps
<1>4. (\A u \in Tasks : ~AtFsm(u, a)') => Fitting(fsm'[a], data'[a], picked'[a])
  <2>1. CASE task[t].step \in FsmSteps
        BY <1>1, <1>3, <2>1
  <2>2. CASE task[t].step \notin FsmSteps
        BY <1>1, <2>2 DEF Held, Same
  <2>. QED BY <2>1, <2>2
<1>5. ASSUME NEW u \in Tasks, AtFsm(u, a)'
      PROVE  Midway(task'[u], fsm'[a], data'[a], picked'[a])
  <2>1. CASE u = t
        BY <1>1, <1>3, <1>5, <2>1
  <2>2. CASE u # t
    <3>1. r.step \notin FsmSteps /\ task[t].step \notin FsmSteps
          BY <1>1, <1>2, <1>5, <2>2 DEF Held
    <3>. QED BY <1>1, <1>5, <2>2, <3>1 DEF Held, Same
  <2>. QED BY <2>1, <2>2
<1>6. ASSUME NEW u \in Tasks, task'[u].admin = a, task'[u].step \in Links
      PROVE  task'[u].given = task'[u].meant
      BY <1>1, <1>3, <1>6 DEF Held
<1>. QED BY <1>2, <1>3, <1>4, <1>5, <1>6 DEF Held

\* A step of one handler of a.
LEMMA Holding ==
    ASSUME IInv, WorkInv', FsmInv', torn' = torn \cup Mixed',
           NEW a \in Admins, NEW t \in Tasks, NEW r \in TaskType,
           task' = [task EXCEPT ![t] = r],
           task[t].admin = a \/ task[t].step = "idle",
           r.admin = a \/ r.step = "idle",
           Same(Admins \ {a}),
           task[t].step \in FsmSteps \/ r.step \in FsmSteps \/ Same({a}),
           Keeps(a, t, r)
    PROVE  IInv'
<1>1. ASSUME NEW b \in Admins \ torn' PROVE Held(b)'
  <2>1. TaskInv /\ Held(b) /\ b \notin Mixed'
        BY <1>1 DEF IInv, WorkInv
  <2>2. CASE b = a
        BY <2>1, <2>2, OwnHeld
  <2>3. CASE b # a
    <3>1. /\ b \in Admins /\ Same({b})
          /\ task[t].admin # b \/ task[t].step = "idle"
          /\ r.admin # b \/ r.step = "idle"
          BY <1>1, <2>3 DEF Same
    <3>. QED BY <2>1, <3>1, OthersHeld
  <2>. QED BY <2>2, <2>3
<1>. QED BY <1>1 DEF IInv

-----------------------------------------------------------------------------
(* Questions, answers, and the accesses to the FSM.                        *)

LEMMA Beginning ==
    ASSUME IInv, torn' = torn \cup Mixed', NEW a \in Admins, NEW t \in Tasks,
           NEW step \in FsmSteps \cup {"clear"}, NEW change \in Choice,
           NEW entered \in Choice, NEW next \in States,
           Begin(a, t, step, change, entered, next),
           step = "clear" => entered = picked[a],
           step \in FsmSteps /\ Fitting(fsm[a], data[a], picked[a]) =>
              Midway([step |-> step, admin |-> a, given |-> change,
                      meant |-> entered, next |-> next], fsm[a], data[a], entered)
    PROVE  IInv'
<1>. DEFINE r == [step |-> step, admin |-> a, given |-> change,
                  meant |-> entered, next |-> next]
<1>1. /\ task[t] = Idle /\ task' = [task EXCEPT ![t] = r]
      /\ picked' = [picked EXCEPT ![a] = entered]
      /\ UNCHANGED <<fsm, data, rows, stops>>
      BY DEF Begin
<1>2. r \in TaskType
      BY DEF TaskType, Steps, FsmSteps, OrNone
<1>3. Working(r) /\ Alone(t, r)
      BY DEF Working, Alone, Open, FsmSteps, Creates, Adds, Edits
<1>4. WorkInv'
      BY <1>1, <1>2, <1>3, Going DEF IInv
<1>5. FsmInv'
      BY <1>1 DEF IInv, FsmInv, Mixed
<1>6. /\ Same(Admins \ {a}) /\ picked'[a] = entered
      /\ step \in FsmSteps \/ Same({a})
      BY <1>1 DEF Same, IInv, FsmInv
<1>7. Keeps(a, t, r)
  <2>1. task[t].step \notin FsmSteps /\ r.step \notin Links
    <3>1. task[t].step = "idle" /\ r.step = step
          BY <1>1 DEF Idle
    <3>. HIDE DEF r
    <3>. QED BY <3>1 DEF FsmSteps, Links, Creates, Adds, Edits
  <2>. QED BY <1>1, <1>6, <2>1 DEF Keeps
<1>8. task[t].step = "idle"
      BY <1>1 DEF Idle
<1>. QED BY <1>1, <1>2, <1>4, <1>5, <1>6, <1>7, <1>8, Holding

LEMMA Questions ==
    ASSUME IInv, torn' = torn \cup Mixed', NEW a \in Admins, NEW t \in Tasks
    PROVE  /\ admin_policy_create_start(a, t) => IInv'
           /\ admin_add_required_start(a, t) => IInv'
           /\ leave(a, t) => IInv'
           /\ \A p \in Policies :
                 /\ admin_add_required_callback(a, t, p) => IInv'
                 /\ admin_edit_link_callback(a, t, p) => IInv'
<1>0. /\ Nothing \in Choice /\ picked[a] \in Choice /\ data[a] \in Choice
      /\ \A p \in Policies : OfPolicy(p) \in Choice
      /\ {"create_chat", "add_policy", "none", "add_chat", "new_link"} \subseteq States
      /\ {"state", "get"} \subseteq FsmSteps
      BY DEF IInv, FsmInv, Nothing, Choice, OrNone, OfPolicy, States, FsmSteps
<1>1. ASSUME NEW state \in {"create_chat", "add_policy"},
             Opens(a, t, "state", Nothing, state)
      PROVE  IInv'
      BY <1>0, <1>1, Beginning DEF Opens, Midway, Fitting, HasData
<1>2. ASSUME leave(a, t) PROVE IInv'
      BY <1>0, <1>2, Beginning DEF leave, FsmSteps
<1>3. ASSUME NEW p \in Policies, NEW state \in {"add_chat", "new_link"},
             Opens(a, t, "get", OfPolicy(p), state)
      PROVE  IInv'
  <2>1. Fitting(state, Merged(data[a], OfPolicy(p)), OfPolicy(p))
        BY DialogAssumption DEF Fitting, HasData, Merged, OfPolicy
  <2>. QED BY <1>0, <1>3, <2>1, Beginning DEF Opens, Midway
<1>. QED BY <1>1, <1>2, <1>3
         DEF admin_policy_create_start, admin_add_required_start,
             admin_add_required_callback, admin_edit_link_callback

LEMMA AnswersFit ==
    ASSUME IInv, torn' = torn \cup Mixed', NEW a \in Admins, NEW t \in Tasks
    PROVE  /\ admin_policy_create_chat_id(a, t) => IInv'
           /\ admin_add_channel_policy_id(a, t) => IInv'
           /\ admin_add_channel_chat_id(a, t) => IInv'
<1>0. /\ picked[a] \in Choice /\ data[a] \in Choice
      /\ \A p \in Policies : OfPolicy(p) \in Choice
      /\ \A c \in Chats : OfChat(c) \in Choice
      /\ {"create_link", "add_chat", "add_link"} \subseteq States
      /\ "get" \in FsmSteps
      BY DEF IInv, FsmInv, Choice, OrNone, OfPolicy, OfChat, States, FsmSteps
<1>1. ASSUME NEW state \in States, NEW next \in States, NEW change \in Choice,
             Answers(a, t, state, change, next),
             Fitting(state, data[a], picked[a]) =>
                Fitting(next, Merged(data[a], change), Merged(picked[a], change))
      PROVE  IInv'
  <2>1. Merged(picked[a], change) \in Choice
        BY <1>0 DEF Merged, Choice
  <2>2. /\ fsm[a] = state
        /\ Begin(a, t, "get", change, Merged(picked[a], change), next)
        BY <1>1 DEF Answers
  <2>. QED BY <1>0, <1>1, <2>1, <2>2, Beginning DEF Midway
<1>2. ASSUME admin_policy_create_chat_id(a, t) PROVE IInv'
  <2>1. PICK c \in Chats : Answers(a, t, "create_chat", OfChat(c), "create_link")
        BY <1>2 DEF admin_policy_create_chat_id
  <2>2. Fitting("create_chat", data[a], picked[a]) =>
           Fitting("create_link", Merged(data[a], OfChat(c)), Merged(picked[a], OfChat(c)))
        BY DialogAssumption DEF Fitting, HasData, Merged, OfChat, Nothing
  <2>. QED BY <1>0, <1>1, <2>1, <2>2 DEF States
<1>3. ASSUME admin_add_channel_policy_id(a, t) PROVE IInv'
  <2>1. PICK p \in Policies : Answers(a, t, "add_policy", OfPolicy(p), "add_chat")
        BY <1>3 DEF admin_add_channel_policy_id
  <2>2. Fitting("add_policy", data[a], picked[a]) =>
           Fitting("add_chat", Merged(data[a], OfPolicy(p)), Merged(picked[a], OfPolicy(p)))
        BY DialogAssumption DEF Fitting, HasData, Merged, OfPolicy, Nothing
  <2>. QED BY <1>0, <1>1, <2>1, <2>2 DEF States
<1>4. ASSUME admin_add_channel_chat_id(a, t) PROVE IInv'
  <2>1. PICK c \in Chats : Answers(a, t, "add_chat", OfChat(c), "add_link")
        BY <1>4 DEF admin_add_channel_chat_id
  <2>2. Fitting("add_chat", data[a], picked[a]) =>
           Fitting("add_link", Merged(data[a], OfChat(c)), Merged(picked[a], OfChat(c)))
        BY DialogAssumption DEF Fitting, HasData, Merged, OfChat
  <2>. QED BY <1>0, <1>1, <2>1, <2>2 DEF States
<1>. QED BY <1>2, <1>3, <1>4

\* The link arrives.
LEMMA Linking ==
    ASSUME IInv, torn' = torn \cup Mixed', NEW a \in Admins, NEW t \in Tasks
    PROVE  /\ admin_policy_create_channel_link(a, t) => IInv'
           /\ admin_add_channel_link(a, t) => IInv'
           /\ admin_edit_link_process(a, t) => IInv'
<1>0. Nothing \in Choice /\ picked[a] \in Choice /\ "none" \in States
      BY DEF IInv, FsmInv, Nothing, Choice, OrNone, States
<1>1. ASSUME NEW step \in {"create: read", "add: read", "edit: read"},
             Link(a, t, Asked(step), step)
      PROVE  IInv'
  <2>1. step \in FsmSteps /\ step # "clear"
        BY DEF FsmSteps
  <2>2. fsm[a] = Asked(step) /\ Begin(a, t, step, Nothing, picked[a], "none")
        BY <1>1 DEF Link
  <2>. QED BY <1>0, <2>1, <2>2, Beginning DEF Midway
<1>. QED BY <1>1 DEF admin_policy_create_channel_link, admin_add_channel_link,
                     admin_edit_link_process, Asked

\* What a step of handler t amounts to for the invariant.
LEMMA Doing ==
    ASSUME IInv, torn' = torn \cup Mixed', NEW t \in Tasks, task[t].step # "idle",
           NEW r \in TaskType, task' = [task EXCEPT ![t] = r],
           UNCHANGED <<rows, stops>>, Working(r), ~Open(r),
           r.admin = task[t].admin \/ r.step = "idle",
           fsm' \in [Admins -> States], data' \in [Admins -> Choice],
           picked' \in [Admins -> Choice],
           Same(Admins \ {task[t].admin}),
           task[t].step \in FsmSteps \/ r.step \in FsmSteps,
           Keeps(task[t].admin, t, r)
    PROVE  IInv'
<1>1. WorkInv'
      BY Going DEF IInv, Alone
<1>2. FsmInv'
      BY DEF IInv, FsmInv, Mixed
<1>3. task[t].admin \in Admins
      BY DEF IInv, WorkInv, TaskInv, Working
<1>. QED BY <1>1, <1>2, <1>3, Holding

LEMMA Updating ==
    ASSUME IInv, torn' = torn \cup Mixed', NEW t \in Tasks
    PROVE  /\ get_before_update(t) => IInv'
           /\ set_updated(t) => IInv'
           /\ set_state(t) => IInv'
<1>. DEFINE a == task[t].admin
            d == data[a]
<1>0. /\ task[t] \in TaskType /\ Working(task[t])
      /\ fsm \in [Admins -> States] /\ data \in [Admins -> Choice]
      /\ picked \in [Admins -> Choice]
      BY DEF IInv, WorkInv, TaskInv, FsmInv
<1>1. ASSUME get_before_update(t) PROVE IInv'
  <2>. DEFINE g == Merged(d, task[t].given)
              r == [task[t] EXCEPT !.step = "set", !.given = g]
  <2>1. task[t].step = "get" /\ UNCHANGED <<fsm, data, picked, rows, stops>>
        BY <1>1 DEF get_before_update, At, dialog
  <2>2. a \in Admins /\ d \in Choice
        BY <1>0, <2>1 DEF Working
  <2>3. g \in Choice
        BY <1>0, <2>2 DEF Merged, Choice, TaskType
  <2>4. /\ r \in TaskType /\ r.step = "set" /\ r.given = g /\ r.admin = a
        /\ r.next = task[t].next
        BY <1>0, <2>3 DEF TaskType, Steps
  <2>5. task' = [task EXCEPT ![t] = r]
        BY <1>1 DEF get_before_update
  <2>6. Working(r) /\ ~Open(r)
        BY <2>2, <2>4 DEF Working, Creates, Adds, Edits, Open
  <2>7. Keeps(a, t, r)
        BY <2>1, <2>4 DEF Keeps, FsmSteps, Links, Creates, Adds, Edits, Midway, Merged
  <2>8. Same(Admins \ {a}) /\ task[t].step \in FsmSteps /\ task[t].step # "idle"
        BY <2>1 DEF Same, FsmSteps
  <2>. HIDE DEF r, g, d
  <2>. QED BY <1>0, <2>1, <2>4, <2>5, <2>6, <2>7, <2>8, Doing
<1>2. ASSUME set_updated(t) PROVE IInv'
  <2>1. /\ task[t].step = "set" /\ UNCHANGED <<fsm, picked, rows, stops>>
        /\ data' = [data EXCEPT ![a] = task[t].given]
        /\ Goes(t, "state")
        BY <1>2 DEF set_updated, At
  <2>2. a \in Admins /\ task[t].given \in Choice
        BY <1>0, <2>1 DEF Working, TaskType
  <2>3. PICK r \in TaskType :
           /\ task' = [task EXCEPT ![t] = r]
           /\ r.step = "state" /\ r.admin = task[t].admin
           /\ r.given = task[t].given /\ r.next = task[t].next
    <3>. DEFINE r == [task[t] EXCEPT !.step = "state"]
    <3>1. /\ r \in TaskType /\ r.step = "state" /\ r.admin = task[t].admin
          /\ r.given = task[t].given /\ r.next = task[t].next
          BY <1>0 DEF TaskType, Steps
    <3>2. task' = [task EXCEPT ![t] = r]
          BY <2>1 DEF Goes
    <3>. QED BY <3>1, <3>2
  <2>4. data' \in [Admins -> Choice] /\ data'[a] = task[t].given /\ Same(Admins \ {a})
        BY <1>0, <2>1, <2>2 DEF Same
  <2>6. Working(r) /\ ~Open(r)
        BY <2>2, <2>3 DEF Working, Creates, Adds, Edits, Open
  <2>7. Keeps(a, t, r)
        BY <2>1, <2>3, <2>4
           DEF Keeps, FsmSteps, Links, Creates, Adds, Edits, Midway, HasData
  <2>8. task[t].step \in FsmSteps /\ task[t].step # "idle"
        BY <2>1 DEF FsmSteps
  <2>. QED BY <1>0, <2>1, <2>3, <2>4, <2>6, <2>7, <2>8, Doing
<1>3. ASSUME set_state(t) PROVE IInv'
  <2>1. /\ task[t].step = "state" /\ UNCHANGED <<data, picked, rows, stops>>
        /\ fsm' = [fsm EXCEPT ![a] = task[t].next]
        /\ task' = [task EXCEPT ![t] = Idle]
        BY <1>3 DEF set_state, At
  <2>2. a \in Admins /\ task[t].next \in States
        BY <1>0, <2>1 DEF Working, TaskType
  <2>3. Idle \in TaskType /\ Working(Idle) /\ ~Open(Idle) /\ Idle.step = "idle"
        BY IdleFits DEF Open, Idle
  <2>4. fsm' \in [Admins -> States] /\ fsm'[a] = task[t].next /\ Same(Admins \ {a})
        BY <1>0, <2>1, <2>2 DEF Same
  <2>5. Keeps(a, t, Idle)
        BY <2>1, <2>3, <2>4
           DEF Keeps, FsmSteps, Links, Creates, Adds, Edits, Midway, Fitting
  <2>6. task[t].step \in FsmSteps /\ task[t].step # "idle"
        BY <2>1 DEF FsmSteps
  <2>. QED BY <1>0, <2>1, <2>3, <2>4, <2>5, <2>6, Doing
<1>. QED BY <1>1, <1>2, <1>3

LEMMA OfFields ==
    ASSUME NEW x
    PROVE  /\ OfChat(x).policy = None /\ OfChat(x).chat = x
           /\ OfPolicy(x).policy = x /\ OfPolicy(x).chat = None
BY DEF OfChat, OfPolicy

\* The handler of the link takes the data.
LEMMA Reading ==
    ASSUME IInv, torn' = torn \cup Mixed', NEW t \in Tasks, get_data(t),
           UNCHANGED <<dialog, stops>>
    PROVE  IInv'
<1>. DEFINE a == task[t].admin
            d == data[a]
<1>0. /\ task[t] \in TaskType /\ Working(task[t])
      /\ fsm \in [Admins -> States] /\ data \in [Admins -> Choice]
      /\ picked \in [Admins -> Choice]
      BY DEF IInv, WorkInv, TaskInv, FsmInv
<1>1. /\ task[t].step \in {"create: read", "add: read", "edit: read"}
      /\ UNCHANGED rows
      BY DEF get_data, At, Takes, Raise
<1>2. /\ a \in Admins /\ d \in Choice
      /\ task[t].step \in FsmSteps /\ task[t].step # "idle"
      /\ task[t].step \notin Links
      BY <1>0, <1>1 DEF Working, FsmSteps, Links, Creates, Adds, Edits
<1>3. /\ UNCHANGED <<fsm, data, picked>>
      /\ Same(Admins \ {a}) /\ fsm'[a] = fsm[a] /\ d = data'[a] /\ picked'[a] = picked[a]
      BY DEF dialog, Same
<1>4. CASE Raise(t)
  <2>1. Idle \in TaskType /\ Working(Idle) /\ ~Open(Idle) /\ Idle.step = "idle"
        BY IdleFits DEF Open, Idle
  <2>2. Keeps(a, t, Idle)
        BY <1>1, <1>2, <1>3, <2>1
           DEF Keeps, FsmSteps, Links, Creates, Adds, Edits, Midway
  <2>3. task' = [task EXCEPT ![t] = Idle]
        BY <1>4 DEF Raise
  <2>. QED BY <1>0, <1>1, <1>2, <1>3, <2>1, <2>2, <2>3, Doing
<1>5. ASSUME NEW step \in {"create: telegram", "add: telegram", "edit: select"},
             NEW given \in Choice,
             task' = [task EXCEPT ![t].step = step, ![t].given = given],
             \/ /\ step = "create: telegram" /\ task[t].step = "create: read"
                /\ d.chat # None /\ given = OfChat(d.chat)
             \/ /\ step = "add: telegram" /\ task[t].step = "add: read"
                /\ d.policy # None /\ d.chat # None /\ given = d
             \/ /\ step = "edit: select" /\ task[t].step = "edit: read"
                /\ d.policy # None /\ given = OfPolicy(d.policy)
      PROVE  IInv'
  <2>. DEFINE r == [task[t] EXCEPT !.step = step, !.given = given]
  <2>1. /\ r \in TaskType /\ r.step = step /\ r.given = given /\ r.admin = a
        /\ r.meant = task[t].meant
        BY <1>0, <1>5 DEF TaskType, Steps
  <2>2. task' = [task EXCEPT ![t] = r]
        BY <1>5
  <2>3. Working(r) /\ ~Open(r)
    <3>1. /\ d.chat # None => d.chat \in Chats
          /\ d.policy # None => d.policy \in Policies
          BY <1>2 DEF Choice, OrNone
    <3>2. /\ step = "create: telegram" => given.policy = None /\ given.chat \in Chats
          /\ step = "add: telegram" => given.policy \in Policies /\ given.chat \in Chats
          /\ step = "edit: select" => given.policy \in Policies /\ given.chat = None
          BY <1>5, <3>1, OfFields
    <3>. HIDE DEF r, d
    <3>. QED BY <1>2, <2>1, <3>1, <3>2 DEF Working, Creates, Adds, Edits, Open
  <2>4. r.step \notin FsmSteps
        BY <2>1 DEF FsmSteps
  <2>5. ASSUME Midway(task[t], fsm[a], data[a], picked[a])
        PROVE  r.given = r.meant /\ Fitting(fsm[a], data[a], picked[a])
        BY <1>5, <2>1, <2>5 DEF Midway, Fitting, Asked, OfChat, OfPolicy
  <2>6. Keeps(a, t, r)
        BY <1>2, <1>3, <2>4, <2>5 DEF Keeps
  <2>. HIDE DEF r, d
  <2>. QED BY <1>0, <1>1, <1>2, <1>3, <2>1, <2>2, <2>3, <2>6, Doing
<1>6. /\ OfChat(d.chat) \in Choice /\ OfPolicy(d.policy) \in Choice
      BY <1>2 DEF OfChat, OfPolicy, Choice, OrNone
<1>. QED BY <1>2, <1>4, <1>5, <1>6 DEF get_data, Takes, At

LEMMA Ending ==
    ASSUME IInv, torn' = torn \cup Mixed', NEW t \in Tasks
    PROVE  /\ clear(t) => IInv'
           /\ clear_data(t) => IInv'
<1>. DEFINE a == task[t].admin
<1>0. /\ task[t] \in TaskType /\ Working(task[t])
      /\ fsm \in [Admins -> States] /\ data \in [Admins -> Choice]
      /\ picked \in [Admins -> Choice]
      /\ Nothing \in Choice /\ "none" \in States
      BY DEF IInv, WorkInv, TaskInv, FsmInv, Nothing, Choice, OrNone, States
<1>1. ASSUME clear(t) PROVE IInv'
  <2>1. /\ task[t].step = "clear" /\ UNCHANGED <<data, rows, stops>>
        /\ fsm' = [fsm EXCEPT ![a] = "none"]
        /\ picked' = [picked EXCEPT ![a] = Nothing]
        /\ Goes(t, "clear: data")
        BY <1>1 DEF clear, At
  <2>2. a \in Admins
        BY <1>0, <2>1 DEF Working
  <2>3. PICK r \in TaskType :
           /\ task' = [task EXCEPT ![t] = r]
           /\ r.step = "clear: data" /\ r.admin = task[t].admin
           /\ r.given = task[t].given /\ r.meant = task[t].meant
    <3>1. WorkInv /\ "clear: data" \in Steps
          BY DEF IInv, Steps
    <3>. QED BY <2>1, <3>1, Stepped
  <2>4. /\ fsm' \in [Admins -> States] /\ picked' \in [Admins -> Choice]
        /\ fsm'[a] = "none" /\ Same(Admins \ {a})
        BY <1>0, <2>1, <2>2 DEF Same
  <2>5. Working(r) /\ ~Open(r)
        BY <2>2, <2>3 DEF Working, Creates, Adds, Edits, Open
  <2>6. Keeps(a, t, r)
        BY <2>1, <2>3, <2>4
           DEF Keeps, FsmSteps, Links, Creates, Adds, Edits, Midway, HasData
  <2>7. r.step \in FsmSteps /\ task[t].step # "idle"
        BY <2>1, <2>3 DEF FsmSteps
  <2>. QED BY <1>0, <2>1, <2>3, <2>4, <2>5, <2>6, <2>7, Doing
<1>2. ASSUME clear_data(t) PROVE IInv'
  <2>1. /\ task[t].step = "clear: data" /\ UNCHANGED <<fsm, picked, rows, stops>>
        /\ data' = [data EXCEPT ![a] = Nothing]
        /\ task' = [task EXCEPT ![t] = Idle]
        BY <1>2 DEF clear_data, At
  <2>2. a \in Admins
        BY <1>0, <2>1 DEF Working
  <2>3. Idle \in TaskType /\ Working(Idle) /\ ~Open(Idle) /\ Idle.step = "idle"
        BY IdleFits DEF Open, Idle
  <2>4. data' \in [Admins -> Choice] /\ Same(Admins \ {a})
        BY <1>0, <2>1, <2>2 DEF Same
  <2>5. Keeps(a, t, Idle)
        BY <2>1, <2>3
           DEF Keeps, FsmSteps, Links, Creates, Adds, Edits, Midway, Fitting, HasData
  <2>6. task[t].step \in FsmSteps /\ task[t].step # "idle"
        BY <2>1 DEF FsmSteps
  <2>. QED BY <1>0, <2>1, <2>3, <2>4, <2>5, <2>6, Doing
<1>. QED BY <1>1, <1>2

-----------------------------------------------------------------------------
(* The link: the dialogs are left alone.                                   *)

LEMMA Moving ==
    ASSUME TaskInv, NEW t \in Tasks
    PROVE  \/ ask_telegram(t) \/ existing_policy(t) \/ flush_policy(t)
           \/ answer_created(t) \/ exit_created(t) \/ flush_channel(t)
           \/ select_edited(t) \/ commit(t) \/ answer_written(t)
           => /\ task[t].step \in Links
              /\ \/ task' = [task EXCEPT ![t] = Idle]
                 \/ \E step \in Links \cup {"clear"} : Goes(t, step)
<1>1. ask_telegram(t) \/ existing_policy(t) =>
         /\ task[t].step \in Links
         /\ \/ task' = [task EXCEPT ![t] = Idle]
            \/ \E step \in Links \cup {"clear"} : Goes(t, step)
      BY DEF ask_telegram, existing_policy, Refuse, Raise, At, Links, Creates, Adds, Edits
<1>2. flush_policy(t) \/ answer_created(t) \/ exit_created(t) =>
         /\ task[t].step \in Links
         /\ \/ task' = [task EXCEPT ![t] = Idle]
            \/ \E step \in Links \cup {"clear"} : Goes(t, step)
      BY DEF flush_policy, answer_created, exit_created, Refuse, Raise, At,
             Links, Creates, Adds, Edits
<1>3. flush_channel(t) \/ select_edited(t) =>
         /\ task[t].step \in Links
         /\ \/ task' = [task EXCEPT ![t] = Idle]
            \/ \E step \in Links \cup {"clear"} : Goes(t, step)
      BY DEF flush_channel, select_edited, Refuse, Raise, At,
             Links, Creates, Adds, Edits
<1>4. commit(t) \/ answer_written(t) =>
         /\ task[t].step \in Links
         /\ \/ task' = [task EXCEPT ![t] = Idle]
            \/ \E step \in Links \cup {"clear"} : Goes(t, step)
      BY DEF commit, answer_written, Tell, Refuse, Raise, At, Links, Creates, Adds, Edits
<1>. QED BY <1>1, <1>2, <1>3, <1>4

LEMMA Waiting ==
    ASSUME IInv, torn' = torn \cup Mixed', NEW t \in Tasks, Await(t),
           UNCHANGED <<dialog, stops>>
    PROVE  IInv'
<1>1. CASE get_data(t)
      BY <1>1, Reading
<1>2. CASE ~get_data(t)
  <2>1. WorkInv'
        BY <1>2, Awaiting, Answering, Creating, Committing, Telling DEF Await, IInv
  <2>2. FsmInv' /\ \A S \in SUBSET Admins : Same(S)
        BY DEF IInv, FsmInv, Mixed, dialog, Same
  <2>3. /\ task[t].step \in Links
        /\ \/ task' = [task EXCEPT ![t] = Idle]
           \/ \E step \in Links \cup {"clear"} : Goes(t, step)
        BY <1>2, Moving DEF Await, IInv, WorkInv
  <2>4. task[t].admin \in Admins /\ task[t].step \notin FsmSteps
        BY <2>3 DEF IInv, WorkInv, TaskInv, Working, Links, Creates, Adds, Edits, FsmSteps
  <2>5. CASE task' = [task EXCEPT ![t] = Idle]
    <3>1. Idle \in TaskType /\ Idle.step = "idle"
          BY IdleFits DEF Idle
    <3>2. Keeps(task[t].admin, t, Idle)
          BY <2>2, <2>4, <3>1 DEF Keeps, FsmSteps, Links, Creates, Adds, Edits, dialog
    <3>. QED BY <2>1, <2>2, <2>4, <2>5, <3>1, <3>2, Holding
  <2>6. ASSUME NEW step \in Links \cup {"clear"}, Goes(t, step) PROVE IInv'
    <3>1. PICK r \in TaskType :
             /\ task' = [task EXCEPT ![t] = r]
             /\ r.step = step /\ r.admin = task[t].admin
             /\ r.given = task[t].given /\ r.meant = task[t].meant
      <4>1. WorkInv /\ step \in Steps
            BY DEF IInv, Steps, Links, Creates, Adds, Edits
      <4>. QED BY <2>6, <4>1, Stepped
    <3>2. r.step \notin FsmSteps
          BY <2>6, <3>1 DEF FsmSteps, Links, Creates, Adds, Edits
    <3>3. Keeps(task[t].admin, t, r)
          BY <2>3, <2>4, <3>1, <3>2 DEF Keeps, dialog
    <3>. QED BY <2>1, <2>2, <2>4, <3>1, <3>3, Holding
  <2>. QED BY <2>3, <2>5, <2>6
<1>. QED BY <1>1, <1>2

LEMMA Restarting ==
    ASSUME IInv, restart
    PROVE  IInv'
<1>1. /\ task' = [t \in Tasks |-> Idle] /\ UNCHANGED <<fsm, data, picked, rows>>
      /\ stops' \in 0..MaxStops
      /\ torn' = torn \cup {a \in Admins : \E t \in Tasks : AtFsm(t, a)}
      BY DialogAssumption DEF restart, IInv, WorkInv, dialog
<1>2. Existing' = Existing /\ RowInv'
      BY <1>1, SameRows DEF IInv, WorkInv
<1>3. TaskInv'
      BY <1>1, IdleFits DEF TaskInv, Working, Idle, Creates, Adds, Edits
<1>4. InsertInv'
      BY <1>1 DEF InsertInv, Inserted, At, Idle
<1>5. FsmInv'
      BY <1>1 DEF IInv, FsmInv
<1>6. ASSUME NEW a \in Admins \ torn' PROVE Held(a)'
  <2>1. Held(a) /\ \A t \in Tasks : ~AtFsm(t, a)
        BY <1>1, <1>6 DEF IInv
  <2>2. Fitting(fsm[a], data[a], picked[a]) /\ HasData(fsm[a], data[a])
        BY <2>1 DEF Held
  <2>3. \A t \in Tasks : ~AtFsm(t, a)' /\ task'[t].step \notin Links
        BY <1>1 DEF AtFsm, FsmSteps, Idle, Links, Creates, Adds, Edits
  <2>. QED BY <1>1, <2>2, <2>3 DEF Held
<1>. QED BY <1>1, <1>2, <1>3, <1>4, <1>5, <1>6 DEF IInv, WorkInv

-----------------------------------------------------------------------------
(* The theorems.                                                           *)

LEMMA StepInv == IInv /\ [Next]_vars => IInv'
<1>. SUFFICES ASSUME IInv, [Next]_vars PROVE IInv'
     OBVIOUS
<1>1. CASE UNCHANGED vars
  <2>1. /\ UNCHANGED <<fsm, data, picked, task, torn, rows, stops>>
        /\ Existing' = Existing /\ RowInv'
        BY <1>1, SameRows DEF vars, dialog, IInv, WorkInv
  <2>2. TaskInv' /\ FsmInv'
        BY <2>1 DEF IInv, WorkInv, FsmInv, TaskInv, Working, rows
  <2>3. InsertInv'
        BY <2>1, SameRows DEF IInv, WorkInv, InsertInv, Inserted, At
  <2>4. ASSUME NEW a \in Admins \ torn PROVE Held(a)'
    <3>1. Held(a)
          BY DEF IInv
    <3>. QED BY <2>1, <3>1 DEF Held, AtFsm
  <2>. QED BY <2>1, <2>2, <2>3, <2>4 DEF IInv, WorkInv
<1>2. ASSUME torn' = torn \cup Mixed', NEW a \in Admins, NEW t \in Tasks, Admin(a, t)
      PROVE  IInv'
      BY <1>2, Questions, AnswersFit, Linking DEF Admin
<1>3. ASSUME torn' = torn \cup Mixed', NEW t \in Tasks, Handler(t) PROVE IInv'
      BY <1>3, Updating, Waiting, Ending DEF Handler
<1>. QED BY <1>1, <1>2, <1>3, Restarting DEF Next, Works

\* Handlers and rows agree however the accesses to the FSM mix, and an
\* administrator with whom they never did has a question, data and entries that
\* belong together, or one handler on the way there.
THEOREM DialogInvariant == Spec => []IInv
BY InitInv, StepInv, PTL DEF Spec

\* Types, and the foreign key: what is written of a policy is written of one
\* that exists.
THEOREM DialogTypes == Spec => []TypeOK
<1>1. [policy : Existing, chat : OrNone(Chats)] \subseteq Choice
      BY DEF Choice, OrNone, Existing
<1>2. IInv => TypeOK
      BY <1>1 DEF IInv, WorkInv, FsmInv, TaskInv, RowInv, TypeOK, TaskType
<1>. QED BY <1>2, DialogInvariant, PTL

\* create_policy checks and inserts in two steps, and no chat gets two policies.
THEOREM OnePolicyTheorem == Spec => []OnePolicyPerChat
<1>1. IInv => OnePolicyPerChat
      BY DEF IInv, WorkInv, RowInv
<1>. QED BY <1>1, DialogInvariant, PTL

\* No question is left open without the FSM data its answer needs, over late
\* clears, dialogs opened on top of one another and restarts, as long as no two
\* handlers of the administrator are in their accesses to Redis at once and no
\* restart comes between these (policy.py, update_data, set_state and clear).
THEOREM AnswerTheorem == Spec => []AnswerFindsData
<1>1. IInv => AnswerFindsData
      BY DEF IInv, Held, HasData, AnswerFindsData
<1>. QED BY <1>1, DialogInvariant, PTL

\* What an administrator was told is stored.
THEOREM ToldTheorem == Spec => []ToldIsWritten
<1>1. IInv => ToldIsWritten
      BY DEF IInv, WorkInv, RowInv, ToldIsWritten
<1>. QED BY <1>1, DialogInvariant, PTL

\* Rows come from the handler whose administrator entered them, under the same
\* condition on the accesses to the FSM.
THEOREM EnteredTheorem == Spec => WrittenAsEntered
<1>. DEFINE AsEntered ==
       /\ \A row \in written' \ written :
             \E t \in Tasks :
                 /\ task'[t] # task[t]
                 /\ task[t].meant = row \/ task[t].admin \in torn
       /\ \A p \in Policies : chatOf'[p] # chatOf[p] =>
             \E t \in Tasks :
                 /\ task'[t] # task[t]
                 /\ task[t].meant = OfChat(chatOf'[p]) \/ task[t].admin \in torn
<1>1. ASSUME IInv, NEW t \in Tasks, Await(t) PROVE AsEntered
  <2>1. task[t] \in TaskType /\ Working(task[t]) /\ task \in [Tasks -> TaskType]
        /\ chatOf \in [Policies -> OrNone(Chats)]
        BY <1>1 DEF IInv, WorkInv, TaskInv, RowInv
  <2>2. task[t].step \in Links => task[t].given = task[t].meant \/ task[t].admin \in torn
        BY <1>1, <2>1 DEF IInv, Held, Working, Links, Creates, Adds, Edits
  <2>3. CASE UNCHANGED <<chatOf, written>>
        BY <2>3
  <2>4. CASE commit(t) /\ Write(t)
    <3>0. task[t].step \in {"add: commit", "edit: commit", "add: exit"}
          BY <2>4 DEF commit, At
    <3>1. task'[t].step # task[t].step
      <4>2. CASE Raise(t)
            BY <2>1, <3>0, <4>2 DEF Raise, Idle
      <4>3. ASSUME NEW step \in {"add: answer", "add: exit", "edit: answer", "clear"},
                   Goes(t, step), task[t].step # step
            PROVE  task'[t].step # task[t].step
            BY <2>1, <4>3 DEF Goes, TaskType
      <4>4. \/ Raise(t)
            \/ \E step \in {"add: answer", "add: exit", "edit: answer", "clear"} :
                  Goes(t, step) /\ task[t].step # step
            BY <2>4, <3>0 DEF commit, At, Refuse
      <4>. QED BY <4>2, <4>3, <4>4
    <3>2. /\ UNCHANGED chatOf /\ written' = written \cup {task[t].given}
          /\ task[t].given = task[t].meant \/ task[t].admin \in torn
          BY <2>2, <2>4, <3>0 DEF Write, Links, Adds, Edits
    <3>. QED BY <3>1, <3>2
  <2>5. ASSUME exit_created(t), NEW p \in Policies \ Existing, Goes(t, "clear"),
               chatOf' = [chatOf EXCEPT ![p] = task[t].given.chat], UNCHANGED written
        PROVE  AsEntered
    <3>1. task'[t].step # task[t].step
          BY <2>1, <2>5 DEF exit_created, At, Goes, TaskType
    <3>2. /\ task[t].given.policy = None
          /\ task[t].given = task[t].meant \/ task[t].admin \in torn
          BY <2>1, <2>2, <2>5 DEF exit_created, At, Working, Links, Creates
    <3>3. task[t].given = OfChat(task[t].given.chat)
          BY <2>1, <3>2 DEF TaskType, Choice, OfChat
    <3>4. \A q \in Policies : chatOf'[q] # chatOf[q] => chatOf'[q] = task[t].given.chat
          BY <2>1, <2>5
    <3>. QED BY <2>5, <3>1, <3>2, <3>3, <3>4
  <2>. QED BY <1>1, <2>3, <2>4, <2>5
           DEF Await, ask_telegram, existing_policy, flush_policy, answer_created,
               exit_created, flush_channel, select_edited, commit, answer_written,
               get_data, Takes, Refuse, Raise, Tell, Write, rows
<1>2. ASSUME NEW a \in Admins, NEW t \in Tasks, Admin(a, t) PROVE UNCHANGED rows
      BY <1>2 DEF Admin, admin_policy_create_start, admin_policy_create_chat_id,
                  admin_add_required_start, admin_add_channel_policy_id,
                  admin_add_channel_chat_id, leave, admin_add_required_callback,
                  admin_edit_link_callback, Opens, Answers, Link, Begin,
                  admin_policy_create_channel_link, admin_add_channel_link,
                  admin_edit_link_process
<1>3. ASSUME NEW t \in Tasks, Handler(t), ~Await(t) PROVE UNCHANGED rows
      BY <1>3 DEF Handler, get_before_update, set_updated, set_state, clear, clear_data
<1>4. ASSUME IInv, [Next]_vars PROVE [AsEntered]_vars
  <2>1. CASE UNCHANGED <<chatOf, written>>
        BY <2>1
  <2>2. CASE \E t \in Tasks : Await(t)
        BY <1>1, <1>4, <2>2
  <2>. QED BY <1>2, <1>3, <1>4, <2>1, <2>2 DEF Next, Works, restart, rows, vars
<1>. QED BY <1>4, DialogInvariant, PTL DEF Spec, WrittenAsEntered
=============================================================================
