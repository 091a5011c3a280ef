------------------------- MODULE NewsletterProperties -------------------------
(***************************************************************************)
(* What should hold of the broadcast dialog and of the broadcasts.         *)
(***************************************************************************)
EXTENDS Newsletter

-----------------------------------------------------------------------------
(* Invariants                                                              *)

OrNone(S) == S \cup {None}
Page      == Nat \ {0}

\* Every variable has its type; in particular every page an administrator can
\* be sent to is a page number, counted from 1 (manager.py, page_items).
TypeOK ==
    /\ fsm \in [Admins -> Windows \cup {"none"}]
    /\ data \in [Admins -> [page : Page, job : OrNone(Jobs),
                            content : OrNone(Contents),
                            date : OrNone(Dates)]]
    /\ screen \in [Admins -> [items : SUBSET Jobs, pages : SUBSET Page,
                              job : OrNone(Jobs), content : OrNone(Contents)]]
    /\ store \in [Jobs -> {"absent", "waiting", "due", "overdue"}]
    /\ running \subseteq Jobs
    /\ left \in [Jobs -> SUBSET Subscribers]
    /\ got \in [Jobs -> SUBSET Subscribers]
    /\ content \in [Jobs -> OrNone(Contents)]
    /\ active \subseteq Subscribers
    /\ up \in BOOLEAN /\ stops \in 0..MaxStops

Composing == {"send_buttons", "message_preview", "choose_options",
              "confirmation_now", "send_datetime", "confirmation_later"}

\* A window is open only while the FSM data its handlers read are there: no
\* order of presses, failed windows, commands and restarts lets a handler
\* find message_data, datetime_obj or job_id missing.
DialogDataPresent ==
    \A a \in Admins :
        /\ fsm[a] \in Composing => data[a].content # None
        /\ fsm[a] = "confirmation_later" => data[a].date # None
        /\ fsm[a] \in {"newsletter", "newsletter_delete"} => data[a].job # None

\* From every page of a list the buttons lead to the page before and to the
\* page after, and to no page that does not exist (the boundaries at 1, 3,
\* 5 and total - 3 in InlineKeyboardPaginator).
Connected(total) ==
    \A page \in 1..total :
        /\ Offered(page, total) \subseteq 1..total
        /\ total > 1 => {page - 1, page + 1} \cap 1..total
                            \subseteq Offered(page, total)

\* The buttons of the list an administrator looks at connect it from end to
\* end, whatever its length up to eight pages: more than either end of a list
\* spans.  (What answers a press of them is PagesTurn.)
ListConnected ==
    \A a \in Admins, total \in 0..8 :
        fsm[a] = "newsletters" => Connected(total)

-----------------------------------------------------------------------------
(* Actions                                                                 *)

\* What is sent or scheduled is what the administrator who confirms was shown
\* in the last preview, buttons included.
ConfirmedAsPreviewed ==
    [][\A j \in Jobs : content'[j] # content[j] =>
          \E a \in Admins :
              /\ fsm[a] \in {"confirmation_now", "confirmation_later"}
              /\ content'[j] = screen[a].content]_vars

\* A job leaves the store without a run, and without being late, only by the
\* deletion an administrator confirms; and then it is the job whose message
\* that administrator was shown above the Delete button, whatever ran or was
\* removed meanwhile.
DeletedAsShown ==
    [][\A j \in Jobs :
          /\ store[j] \in {"waiting", "due"} /\ store'[j] = "absent"
          /\ j \notin running'
          => \E a \in Admins :
                fsm[a] = "newsletter_delete" /\ screen[a].job = j]_vars

-----------------------------------------------------------------------------
(* The contract                                                            *)

Phase(j) ==
    IF store[j] # "absent" THEN "scheduled"
    ELSE IF j \in running THEN "sending"
    ELSE IF content[j] = None THEN "new" ELSE "ended"

Contract == INSTANCE BroadcastContract
                WITH phase <- [j \in Jobs |-> Phase(j)]

\* A broadcast is sent in one run at most, to nobody twice, and not at all
\* once deleted, across presses, deletions, misfires and restarts.
RefinesBroadcast == Contract!Spec

-----------------------------------------------------------------------------
(* Liveness                                                                *)

\* A confirmed broadcast does not linger: it is sent, deleted or dropped, and
\* its run comes to an end, also over restarts.
EveryBroadcastEnds ==
    \A j \in Jobs : content[j] # None ~> Phase(j) = "ended"

-----------------------------------------------------------------------------
(* Said of the code, and not so.                                           *)

\* keyboards/inline/newsletter.py:80 calls it a list with pagination: a page
\* button brings up broadcasts.
PagesTurn ==
    [][\A a \in Admins :
          channels_pagination(a) => screen'[a].items # {}]_vars
=============================================================================
