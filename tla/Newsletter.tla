------------------------------ MODULE Newsletter ------------------------------
(***************************************************************************)
(* The broadcast dialog of the administrators, and what becomes of the     *)
(* broadcasts they confirm: the job store in Redis, the scheduler, the     *)
(* runner, and the restarts in between.                                    *)
(*                                                                         *)
(* The dialog is a state machine of aiogram: the window an administrator   *)
(* last reached is the FSM state in Redis, and a button is handled by that *)
(* state, whatever message it hangs on.  A handler changes the FSM data or *)
(* the jobs, then sends the next window, and sets the FSM state last; it   *)
(* can fail on the way (Failures).  An administrator's own handlers do not *)
(* overlap here: they touch nobody else's dialog, so each is one step.     *)
(***************************************************************************)
EXTENDS Paginator, FiniteSets

CONSTANTS
    Admins,        \* administrators
    Jobs,          \* bound: the broadcasts that can be confirmed
    Messages,      \* what an administrator can send as a message
    Subscribers,   \* user_profiles
    PageSize,      \* page_size of the list
    MaxStops,      \* bound: how often the bot stops
    Failures,      \* may a call to Telegram fail?
    None           \* an FSM key that is not set

\* Any well-formed date is taken; when it passes is left to time_comes and to
\* Postponed.
Dates == {"given"}

ASSUME NewsletterAssumption ==
    /\ PageSize \in Nat \ {0}
    /\ MaxStops \in Nat
    /\ Failures \in BOOLEAN
    /\ IsFiniteSet(Jobs)
    /\ None \notin Jobs \cup Dates

\* A message with its own reply_markup, or with what the buttons window put in
\* its place: none, or buttons built from a text.
Contents == [text : Messages, buttons : {"own", "set"}]

ASSUME NoneIsNoContent == None \notin Contents

VARIABLES
    fsm,       \* fsm[a]: the FSM state: the window open, "none" outside
    data,      \* data[a]: the FSM data
    screen,    \* screen[a]: what the bot last put before the administrator
    store,     \* store[j]: where job j stands in the store "broadcasts"
    running,   \* the broadcasts run_broadcast is sending
    left,      \* left[j]: the subscribers that run has not come to yet
    content,   \* content[j]: message_data of the broadcast j, once confirmed
    got,       \* got[j]: the subscribers that received j
    active,    \* the subscribers whose broadcast_state is "member"
    up,        \* is the bot running?
    stops      \* how often it stopped

dialog == <<fsm, data, screen>>
sends  == <<running, left, content, got, active>>
vars   == <<dialog, store, sends, up, stops>>

Windows ==
    {"newsletters", "newsletter", "newsletter_delete", "send_message",
     "send_buttons", "message_preview", "choose_options", "confirmation_now",
     "send_datetime", "confirmation_later"}

NoData == [page |-> 1, job |-> None, content |-> None, date |-> None]
Blank  == [items |-> {}, pages |-> {}, job |-> None, content |-> None]

Stored  == {j \in Jobs : store[j] # "absent"}
Unused  == {j \in Jobs : content[j] = None}

-----------------------------------------------------------------------------
(* Windows.                                                                *)

\* The window w is sent and the FSM state set; or the handler fails before
\* that, with the window already before the administrator or not.
Show(a, w, d, view) ==
    /\ data' = [data EXCEPT ![a] = d]
    /\ \/ fsm' = [fsm EXCEPT ![a] = w] /\ screen' = [screen EXCEPT ![a] = view]
       \/ /\ Failures
          /\ \/ UNCHANGED screen
             \/ screen' = [screen EXCEPT ![a] = view]
          /\ UNCHANGED fsm

Fail(a, d) ==
    /\ data' = [data EXCEPT ![a] = d]
    /\ UNCHANGED <<fsm, screen>>

\* A window without a list, under the copy of a job, or under a preview.
\* Copies are never deleted: the last one of each stays above later windows.
View(a)            == [screen[a] EXCEPT !.items = {}, !.pages = {}]
Copied(a, job)     == [View(a) EXCEPT !.job = job]
Previewed(a, body) == [View(a) EXCEPT !.content = body]

Plain(a, w, d) == Show(a, w, d, View(a))

\* The jobs are listed by date; which ones share a page is left open.
open_newsletters_window(a, d, jobs) ==
    \E items \in SUBSET jobs :
        /\ Cardinality(items) = OnPage(Cardinality(jobs), PageSize, d.page)
        /\ Show(a, "newsletters", d,
               [View(a) EXCEPT !.items = items,
                               !.pages = Offered(d.page,
                                   TotalPages(Cardinality(jobs), PageSize))])

newsletter_window_eager(a, d) ==     \* slip: the state is set before the copy
    \/ d.job \in Stored /\ Show(a, "newsletter", d, Copied(a, d.job))
    \/ Plain(a, "newsletter", d)

\* get_job answers None for a job that is gone, and the handler fails.
open_newsletter_window(a, d) ==
    \/ d.job \in Stored /\ Show(a, "newsletter", d, Copied(a, d.job))
    \/ (d.job \notin Stored \/ Failures) /\ Fail(a, d)

preview_window_eager(a, d) ==        \* slip: the state is set before the copy
    Show(a, "message_preview", d, Previewed(a, d.content))
    \/ (Failures /\ Plain(a, "message_preview", d))

open_message_preview_window(a, d) ==
    Show(a, "message_preview", d, Previewed(a, d.content))
    \/ (Failures /\ Fail(a, d))

\* A press or a message in window w: the bot must be up to take it.
In(a, w) == up /\ fsm[a] = w

DialogOnly == UNCHANGED <<store, sends, up, stops>>

-----------------------------------------------------------------------------
(* Entering and leaving the dialog.                                        *)

\* As Show, on a dialog that is new: a failure leaves no FSM state.
broadcast_start(a) ==
    /\ up /\ active # {}
    /\ \E items \in SUBSET Stored :
          /\ Cardinality(items) =
                 OnPage(Cardinality(Stored), PageSize, NoData.page)
          /\ data' = [data EXCEPT ![a] = NoData]
          /\ LET list == [Blank EXCEPT !.items = items,
                                       !.pages = Offered(NoData.page,
                                           TotalPages(Cardinality(Stored), PageSize))]
             IN  \/ /\ fsm' = [fsm EXCEPT ![a] = "newsletters"]
                    /\ screen' = [screen EXCEPT ![a] = list]
                 \/ /\ Failures
                    /\ fsm' = [fsm EXCEPT ![a] = "none"]
                    /\ \E view \in {Blank, list} :
                          screen' = [screen EXCEPT ![a] = view]
    /\ DialogOnly

\* Without an active subscriber /broadcast answers so and changes nothing.
broadcast_refused(a) ==
    up /\ active = {} /\ UNCHANGED vars

\* Any other command: state.clear().
leave(a) ==
    /\ up /\ fsm[a] # "none"
    /\ fsm'    = [fsm EXCEPT ![a] = "none"]
    /\ data'   = [data EXCEPT ![a] = NoData]
    /\ screen' = [screen EXCEPT ![a] = Blank]
    /\ DialogOnly

-----------------------------------------------------------------------------
(* The list, a scheduled broadcast, and its deletion.                      *)

\* Back closes the list; the FSM state stays.
newsletters_back(a) ==
    /\ In(a, "newsletters")
    /\ screen' = [screen EXCEPT ![a] = View(a)]
    /\ UNCHANGED <<fsm, data>> /\ DialogOnly

newsletters_add(a) ==
    In(a, "newsletters") /\ Plain(a, "send_message", data[a]) /\ DialogOnly

\* The router of the channel list comes first and takes every "page:" press, in
\* any state: the message turns into the list of channels.  The branch of the
\* newsletter's own handler that would turn the page is not reached, and `page`
\* stays 1.
channels_pagination(a) ==
    /\ up /\ screen[a].pages # {}
    /\ screen' = [screen EXCEPT ![a] = View(a)]
    /\ UNCHANGED <<fsm, data>> /\ DialogOnly

newsletters_id(a) ==
    /\ In(a, "newsletters")
    /\ \E job \in screen[a].items :
          open_newsletter_window(a, [data[a] EXCEPT !.job = job])
    /\ DialogOnly

newsletter_callback(a) ==
    /\ In(a, "newsletter")
    /\ \/ open_newsletters_window(a, data[a], Stored)
       \/ Plain(a, "newsletter_delete", data[a])
    /\ DialogOnly

newsletter_delete_back(a) ==
    /\ In(a, "newsletter_delete")
    /\ open_newsletter_window(a, data[a])
    /\ DialogOnly

\* remove_job raises if the job is gone, and then nothing changes.
newsletter_delete_confirm(a) ==
    /\ In(a, "newsletter_delete")
    /\ data[a].job \in Stored
    /\ store'   = [store EXCEPT ![data[a].job] = "absent"]
    /\ open_newsletters_window(a, data[a], Stored \ {data[a].job})
    /\ UNCHANGED <<sends, up, stops>>

-----------------------------------------------------------------------------
(* Composing a broadcast.                                                  *)

send_message_late(a) ==              \* slip: the window is sent, data not set
    /\ In(a, "send_message")
    /\ \/ open_newsletters_window(a, data[a], Stored)
       \/ Plain(a, "send_buttons", data[a])
    /\ DialogOnly

send_message(a) ==
    /\ In(a, "send_message")
    /\ \/ open_newsletters_window(a, data[a], Stored)
       \/ \E m \in Messages : Plain(a, "send_buttons",
              [data[a] EXCEPT !.content = [text |-> m, buttons |-> "own"]])
    /\ DialogOnly

Buttoned(a) == [data[a] EXCEPT !.content.buttons = "set"]

\* Skip and a text lead to the preview.  A text that does not parse, and one
\* whose preview fails, end in the same window with an error; in the second
\* case the new buttons are stored already.
send_buttons(a) ==
    /\ In(a, "send_buttons")
    /\ \/ Plain(a, "send_message", data[a])
       \/ open_message_preview_window(a, Buttoned(a))
       \/ Plain(a, "send_buttons", data[a])
       \/ Failures /\ Plain(a, "send_buttons", Buttoned(a))
    /\ DialogOnly

message_preview(a) ==
    /\ In(a, "message_preview")
    /\ \E w \in {"send_buttons", "choose_options"} : Plain(a, w, data[a])
    /\ DialogOnly

choose_options(a) ==
    /\ In(a, "choose_options")
    /\ \/ open_message_preview_window(a, data[a])
       \/ \E w \in {"send_datetime", "confirmation_now"} : Plain(a, w, data[a])
    /\ DialogOnly

\* A date in the past is taken as well.
send_datetime(a) ==
    /\ In(a, "send_datetime")
    /\ \/ \E w \in {"choose_options", "send_datetime"} : Plain(a, w, data[a])
       \/ \E date \in Dates :
              Plain(a, "confirmation_later", [data[a] EXCEPT !.date = date])
    /\ DialogOnly

confirmation_back(a) ==
    /\ \/ In(a, "confirmation_now")   /\ Plain(a, "choose_options", data[a])
       \/ In(a, "confirmation_later") /\ Plain(a, "send_datetime", data[a])
    /\ DialogOnly

confirmation_now_confirm(a) ==
    /\ In(a, "confirmation_now")
    /\ \E j \in Unused :
          /\ content' = [content EXCEPT ![j] = data[a].content]
          /\ running' = running \cup {j}
          /\ left'    = [left EXCEPT ![j] = active]
    /\ open_newsletters_window(a, data[a], Stored)
    /\ UNCHANGED <<store, got, active, up, stops>>

\* Where a job stands when it enters the store: its date may have passed when
\* it was given, or since.
Postponed == {"waiting", "overdue"}

confirmation_later_confirm(a) ==
    /\ In(a, "confirmation_later")
    /\ \E j \in Unused, when \in Postponed :
          /\ content' = [content EXCEPT ![j] = data[a].content]
          /\ store'   = [store EXCEPT ![j] = when]
          /\ open_newsletters_window(a, data[a], Stored \cup {j})
    /\ UNCHANGED <<running, left, got, active, up, stops>>

-----------------------------------------------------------------------------
(* The scheduler and the runner.                                           *)

\* A job that falls due while the bot is down is more than a second late when
\* the bot is back (misfire_grace_time).
time_comes(j) ==
    /\ store[j] = "waiting"
    /\ store' = [store EXCEPT ![j] = IF up THEN "due" ELSE "overdue"]
    /\ UNCHANGED <<dialog, sends, up, stops>>

run_kept(j) ==                       \* slip: the job stays in the store
    /\ up /\ store[j] = "due"
    /\ running' = running \cup {j}
    /\ left'    = [left EXCEPT ![j] = active]
    /\ UNCHANGED <<dialog, store, content, got, active, up, stops>>

run_again(j) ==                      \* slip: the trigger fires periodically
    /\ up /\ store[j] = "due"
    /\ store'   = [store EXCEPT ![j] = "waiting"]
    /\ running' = running \cup {j}
    /\ left'    = [left EXCEPT ![j] = active]
    /\ UNCHANGED <<dialog, content, got, active, up, stops>>

\* The scheduler removes the job as it starts the run.
run_broadcast(j) ==
    /\ up /\ store[j] = "due"
    /\ store'   = [store EXCEPT ![j] = "absent"]
    /\ running' = running \cup {j}
    /\ left'    = [left EXCEPT ![j] = active]
    /\ UNCHANGED <<dialog, content, got, active, up, stops>>

\* A late job is dropped without a run and without a word.
misfire(j) ==
    /\ up /\ store[j] = "overdue"
    /\ store' = [store EXCEPT ![j] = "absent"]
    /\ UNCHANGED <<dialog, sends, up, stops>>

\* One subscriber: reached, found to have blocked the bot, or failed.
deliver(j) ==
    /\ up /\ j \in running
    /\ \E s \in left[j] :
          /\ left' = [left EXCEPT ![j] = @ \ {s}]
          /\ \/ got' = [got EXCEPT ![j] = @ \cup {s}] /\ UNCHANGED active
             \/ active' = active \ {s} /\ UNCHANGED got
             \/ UNCHANGED <<got, active>>
    /\ UNCHANGED <<dialog, store, running, content, up, stops>>

finish(j) ==
    /\ up /\ j \in running /\ left[j] = {}
    /\ running' = running \ {j}
    /\ UNCHANGED <<dialog, store, left, content, got, active, up, stops>>

-----------------------------------------------------------------------------
(* The bot stops, by a crash or not, and starts again.  Redis keeps the    *)
(* FSM and the jobs; a run under way is gone.                              *)

stop ==
    /\ up /\ stops < MaxStops
    /\ up' = FALSE /\ stops' = stops + 1
    /\ running' = {}
    /\ left'    = [j \in Jobs |-> {}]
    /\ store'   = [j \in Jobs |-> IF store[j] = "due" THEN "overdue" ELSE store[j]]
    /\ UNCHANGED <<dialog, content, got, active>>

start ==
    /\ ~up /\ up' = TRUE
    /\ UNCHANGED <<dialog, store, sends, stops>>

-----------------------------------------------------------------------------
Init ==
    /\ fsm    = [a \in Admins |-> "none"]
    /\ data   = [a \in Admins |-> NoData]
    /\ screen = [a \in Admins |-> Blank]
    /\ store   = [j \in Jobs |-> "absent"]
    /\ content = [j \in Jobs |-> None]
    /\ left    = [j \in Jobs |-> {}]
    /\ got     = [j \in Jobs |-> {}]
    /\ running = {}
    /\ active = Subscribers
    /\ up = TRUE /\ stops = 0

Admin(a) ==
    \/ broadcast_start(a)         \/ broadcast_refused(a) \/ leave(a)
    \/ newsletters_back(a)        \/ newsletters_add(a)
    \/ channels_pagination(a)      \/ newsletters_id(a)
    \/ newsletter_callback(a)
    \/ newsletter_delete_back(a)  \/ newsletter_delete_confirm(a)
    \/ send_message(a)            \/ send_buttons(a)     \/ message_preview(a)
    \/ choose_options(a)          \/ send_datetime(a)    \/ confirmation_back(a)
    \/ confirmation_now_confirm(a) \/ confirmation_later_confirm(a)

Scheduler(j) == time_comes(j) \/ run_broadcast(j) \/ misfire(j)
Runner(j)    == deliver(j) \/ finish(j)

Next ==
    \/ \E a \in Admins : Admin(a)
    \/ \E j \in Jobs : Scheduler(j) \/ Runner(j)
    \/ stop \/ start

Spec == Init /\ [][Next]_vars

\* Time passes, the scheduler runs what is due, a run goes on, a bot that is
\* down is started again.  Nothing obliges an administrator.
Fairness ==
    /\ \A j \in Jobs : WF_vars(Scheduler(j)) /\ WF_vars(Runner(j))
    /\ WF_vars(start)

FairSpec == Spec /\ Fairness
=============================================================================
