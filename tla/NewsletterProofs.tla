--------------------------- MODULE NewsletterProofs ---------------------------
(***************************************************************************)
(* Theorems about the broadcast dialog for any number of administrators,   *)
(* broadcasts, subscribers and pages.                                      *)
(***************************************************************************)
EXTENDS NewsletterProperties, FiniteSetTheorems, TLAPS

-----------------------------------------------------------------------------
(* The page buttons.                                                       *)

\* From every page of a list of any length the buttons lead to both
\* neighbours, and only to pages that exist (InlineKeyboardPaginator).
THEOREM NeighboursOffered ==
    ASSUME NEW total \in Nat
    PROVE  Connected(total)
<1>1. SUFFICES ASSUME NEW page \in 1..total
               PROVE  /\ Offered(page, total) \subseteq 1..total
                      /\ total > 1 => {page - 1, page + 1} \cap 1..total
                                          \subseteq Offered(page, total)
      BY DEF Connected
<1>2. CASE total <= 5
      BY <1>2 DEF Offered
<1>3. CASE total > 5
      BY <1>3 DEF Offered
<1>. QED BY <1>2, <1>3

\* A button never leads to page 0, wherever the administrator stands.
LEMMA OfferedPages ==
    ASSUME NEW current \in Page, NEW total \in Nat
    PROVE  Offered(current, total) \subseteq Page
<1>1. CASE total <= 5
      BY <1>1 DEF Offered, Page
<1>2. CASE total > 5 /\ current <= 3
      BY <1>2 DEF Offered, Page
<1>3. CASE total > 5 /\ current > 3
      BY <1>3 DEF Offered, Page
<1>. QED BY <1>1, <1>2, <1>3 DEF Page

LEMMA PageCount ==
    ASSUME NEW n \in Nat, NEW size \in Nat \ {0}
    PROVE  TotalPages(n, size) \in Nat
BY DEF TotalPages

\* The list of any of the jobs has page buttons with page numbers.
LEMMA ListPages ==
    ASSUME NEW jobs \in SUBSET Jobs, NEW page \in Page
    PROVE  Offered(page, TotalPages(Cardinality(jobs), PageSize)) \subseteq Page
<1>1. Cardinality(jobs) \in Nat
      BY NewsletterAssumption, FS_Subset, FS_CardinalityType
<1>. QED BY <1>1, NewsletterAssumption, PageCount, OfferedPages

-----------------------------------------------------------------------------
(* One administrator's dialog.                                             *)

DataType   == [page : Page, job : OrNone(Jobs), content : OrNone(Contents),
               date : OrNone(Dates)]
ScreenType == [items : SUBSET Jobs, pages : SUBSET Page,
               job : OrNone(Jobs), content : OrNone(Contents)]

Confirming == {"message_preview", "choose_options", "confirmation_now",
               "send_datetime", "confirmation_later"}

\* What a window w may rely on, given the FSM data d and the screen v: the
\* data are there, and what they name is what the administrator sees.
Sound(w, d, v) ==
    /\ w \in Composing => d.content # None
    /\ w = "confirmation_later" => d.date # None
    /\ w \in {"newsletter", "newsletter_delete"} =>
          d.job # None /\ v.job = d.job
    /\ w \in Confirming => v.content = d.content

DialogInv ==
    /\ fsm \in [Admins -> Windows \cup {"none"}]
    /\ data \in [Admins -> DataType]
    /\ screen \in [Admins -> ScreenType]
    /\ \A a \in Admins : Sound(fsm[a], data[a], screen[a])

\* A window that is shown, or fails to be, keeps the dialog sound if it suits
\* the new data, and the window before suits them too.
LEMMA Showing ==
    ASSUME DialogInv, NEW a \in Admins, NEW w \in Windows, NEW d \in DataType,
           NEW v \in ScreenType, Show(a, w, d, v), Sound(w, d, v),
           Sound(fsm[a], d, screen[a]), Sound(fsm[a], d, v)
    PROVE  DialogInv'
<1>1. /\ data' \in [Admins -> DataType]
      /\ fsm' \in [Admins -> Windows \cup {"none"}]
      /\ screen' \in [Admins -> ScreenType]
      BY DEF Show, DialogInv
<1>2. ASSUME NEW b \in Admins PROVE Sound(fsm'[b], data'[b], screen'[b])
  <2>1. CASE b = a
        BY <2>1 DEF Show, DialogInv
  <2>2. CASE b # a
    <3>1. fsm'[b] = fsm[b] /\ data'[b] = data[b] /\ screen'[b] = screen[b]
          BY <2>2 DEF Show, DialogInv
    <3>. QED BY <3>1 DEF DialogInv
  <2>. QED BY <2>1, <2>2
<1>. QED BY <1>1, <1>2 DEF DialogInv

LEMMA Failing ==
    ASSUME DialogInv, NEW a \in Admins, NEW d \in DataType, Fail(a, d),
           Sound(fsm[a], d, screen[a])
    PROVE  DialogInv'
<1>1. data' \in [Admins -> DataType]
      BY DEF Fail, DialogInv
<1>2. ASSUME NEW b \in Admins PROVE Sound(fsm'[b], data'[b], screen'[b])
      BY <1>2 DEF Fail, DialogInv
<1>. QED BY <1>1, <1>2 DEF DialogInv, Fail

\* What windows are made of.
LEMMA Views ==
    ASSUME DialogInv, NEW a \in Admins
    PROVE  /\ View(a) \in ScreenType
           /\ View(a).job = screen[a].job /\ View(a).content = screen[a].content
           /\ \A j \in Jobs : /\ Copied(a, j) \in ScreenType
                              /\ Copied(a, j).job = j
                              /\ Copied(a, j).content = screen[a].content
           /\ \A c \in Contents : /\ Previewed(a, c) \in ScreenType
                                  /\ Previewed(a, c).job = screen[a].job
                                  /\ Previewed(a, c).content = c
BY DEF DialogInv, ScreenType, View, Copied, Previewed, OrNone

\* A window without a copy.
LEMMA ShowingPlain ==
    ASSUME DialogInv, NEW a \in Admins, NEW w \in Windows, NEW d \in DataType,
           Plain(a, w, d), Sound(w, d, screen[a]), Sound(fsm[a], d, screen[a])
    PROVE  DialogInv'
BY Views, Showing DEF Plain, Sound

LEMMA ShowingList ==
    ASSUME DialogInv, NEW a \in Admins, NEW d \in DataType,
           NEW jobs \in SUBSET Jobs, open_newsletters_window(a, d, jobs),
           Sound(fsm[a], d, screen[a])
    PROVE  DialogInv'
<1>1. PICK items \in SUBSET jobs :
         Show(a, "newsletters", d,
              [View(a) EXCEPT !.items = items,
                              !.pages = Offered(d.page,
                                  TotalPages(Cardinality(jobs), PageSize))])
      BY DEF open_newsletters_window
<1>. DEFINE pages == Offered(d.page, TotalPages(Cardinality(jobs), PageSize))
            v     == [View(a) EXCEPT !.items = items, !.pages = pages]
<1>2. pages \subseteq Page
      BY ListPages DEF DataType
<1>3. /\ v \in ScreenType
      /\ v.job = screen[a].job /\ v.content = screen[a].content
  <2>1. items \in SUBSET Jobs /\ View(a) \in ScreenType
        BY Views
  <2>2. /\ v \in ScreenType
        /\ v.job = View(a).job /\ v.content = View(a).content
    <3>. HIDE DEF pages
    <3>. QED BY <1>2, <2>1 DEF ScreenType
  <2>. HIDE DEF v
  <2>. QED BY <2>2, Views
<1>4. Show(a, "newsletters", d, v)
      BY <1>1
<1>5. "newsletters" \in Windows /\ Sound("newsletters", d, v)
      BY DEF Windows, Sound, Composing, Confirming
<1>6. Sound(fsm[a], d, v)
  <2>. HIDE DEF v
  <2>. QED BY <1>3 DEF Sound
<1>. HIDE DEF v
<1>. QED BY <1>3, <1>4, <1>5, <1>6, Showing

LEMMA ShowingJob ==
    ASSUME DialogInv, NEW a \in Admins, NEW d \in DataType,
           open_newsletter_window(a, d), Sound(fsm[a], d, screen[a]),
           fsm[a] = "newsletters" \/ d.job = screen[a].job
    PROVE  DialogInv'
<1>1. CASE d.job \in Stored /\ Show(a, "newsletter", d, Copied(a, d.job))
  <2>1. d.job \in Jobs /\ d.job # None
        BY <1>1, NewsletterAssumption DEF Stored
  <2>2. /\ "newsletter" \in Windows
        /\ Sound("newsletter", d, Copied(a, d.job))
        /\ Sound(fsm[a], d, Copied(a, d.job))
        BY <2>1, Views DEF Sound, Windows, Composing, Confirming
  <2>. QED BY <1>1, <2>1, <2>2, Views, Showing
<1>2. CASE Fail(a, d)
      BY <1>2, Failing
<1>. QED BY <1>1, <1>2 DEF open_newsletter_window

LEMMA ShowingPreview ==
    ASSUME DialogInv, NEW a \in Admins, NEW d \in DataType,
           open_message_preview_window(a, d), d.content # None,
           Sound(fsm[a], d, screen[a])
    PROVE  DialogInv'
<1>1. CASE Show(a, "message_preview", d, Previewed(a, d.content))
  <2>1. d.content \in Contents
        BY DEF DataType, OrNone
  <2>2. /\ "message_preview" \in Windows
        /\ Sound("message_preview", d, Previewed(a, d.content))
        /\ Sound(fsm[a], d, Previewed(a, d.content))
        BY <2>1, Views DEF Sound, Windows, Composing, Confirming
  <2>. QED BY <1>1, <2>1, <2>2, Views, Showing
<1>2. CASE Fail(a, d)
      BY <1>2, Failing
<1>. QED BY <1>1, <1>2 DEF open_message_preview_window

-----------------------------------------------------------------------------
(* Every step keeps every dialog sound.                                    *)

LEMMA DialogInit == Init => DialogInv
BY DEF Init, DialogInv, NoData, Blank, DataType, ScreenType, OrNone, Page,
       Sound, Composing, Confirming

\* An administrator whose dialog is none, or the list on page 1.
LEMMA Entering ==
    ASSUME DialogInv, NEW a \in Admins, NEW w \in {"none", "newsletters"},
           NEW v \in ScreenType,
           fsm' = [fsm EXCEPT ![a] = w], data' = [data EXCEPT ![a] = NoData],
           screen' = [screen EXCEPT ![a] = v]
    PROVE  DialogInv'
<1>1. NoData \in DataType
      BY DEF NoData, DataType, OrNone, Page
<1>2. w \in Windows \cup {"none"} /\ Sound(w, NoData, v)
      BY DEF Windows, Sound, Composing, Confirming
<1>3. /\ data' \in [Admins -> DataType]
      /\ fsm' \in [Admins -> Windows \cup {"none"}]
      /\ screen' \in [Admins -> ScreenType]
      BY <1>1, <1>2 DEF DialogInv
<1>4. ASSUME NEW b \in Admins PROVE Sound(fsm'[b], data'[b], screen'[b])
  <2>1. CASE b = a
        BY <1>2, <2>1 DEF DialogInv
  <2>2. CASE b # a
    <3>1. fsm'[b] = fsm[b] /\ data'[b] = data[b] /\ screen'[b] = screen[b]
          BY <2>2 DEF DialogInv
    <3>. QED BY <3>1 DEF DialogInv
  <2>. QED BY <2>1, <2>2
<1>. QED BY <1>3, <1>4 DEF DialogInv

LEMMA BlankType ==
    /\ Blank \in ScreenType
    /\ \A I \in SUBSET Jobs, P \in SUBSET Page :
          [Blank EXCEPT !.items = I, !.pages = P] \in ScreenType
BY DEF Blank, ScreenType, OrNone

LEMMA StoredJobs == Stored \in SUBSET Jobs
BY DEF Stored

LEMMA Starting ==
    ASSUME DialogInv, NEW a \in Admins, broadcast_start(a)
    PROVE  DialogInv'
<1>. DEFINE total == TotalPages(Cardinality(Stored), PageSize)
<1>1. NoData.page \in Page
      BY DEF NoData, Page
<1>2. Offered(NoData.page, total) \subseteq Page
      BY <1>1, StoredJobs, ListPages
<1>3. PICK items \in SUBSET Stored :
         /\ data' = [data EXCEPT ![a] = NoData]
         /\ \/ /\ fsm' = [fsm EXCEPT ![a] = "newsletters"]
               /\ screen' = [screen EXCEPT ![a] =
                     [Blank EXCEPT !.items = items,
                                   !.pages = Offered(NoData.page, total)]]
            \/ /\ fsm' = [fsm EXCEPT ![a] = "none"]
               /\ \E view \in {Blank,
                               [Blank EXCEPT !.items = items,
                                             !.pages = Offered(NoData.page, total)]} :
                     screen' = [screen EXCEPT ![a] = view]
      BY DEF broadcast_start
<1>. DEFINE v == [Blank EXCEPT !.items = items,
                               !.pages = Offered(NoData.page, total)]
<1>4. v \in ScreenType
      BY <1>2, StoredJobs, BlankType
<1>5. CASE /\ fsm' = [fsm EXCEPT ![a] = "newsletters"]
           /\ screen' = [screen EXCEPT ![a] = v]
  <2>. HIDE DEF v
  <2>. QED BY <1>3, <1>4, <1>5, Entering
<1>6. CASE /\ fsm' = [fsm EXCEPT ![a] = "none"]
           /\ \E view \in {Blank, v} : screen' = [screen EXCEPT ![a] = view]
  <2>. HIDE DEF v
  <2>. QED BY <1>3, <1>4, <1>6, BlankType, Entering
<1>. QED BY <1>3, <1>5, <1>6

LEMMA Leaving ==
    ASSUME DialogInv, NEW a \in Admins, leave(a)
    PROVE  DialogInv'
BY BlankType, Entering DEF leave

\* What an administrator's own data and window give before a press.
LEMMA Here ==
    ASSUME DialogInv, NEW a \in Admins
    PROVE  /\ fsm[a] \in Windows \cup {"none"}
           /\ data[a] \in DataType /\ screen[a] \in ScreenType
           /\ Sound(fsm[a], data[a], screen[a])
BY DEF DialogInv

LEMMA Listing ==
    ASSUME DialogInv, NEW a \in Admins
    PROVE  /\ newsletters_back(a) => DialogInv'
           /\ newsletters_add(a) => DialogInv'
           /\ channels_pagination(a) => DialogInv'
           /\ newsletters_id(a) => DialogInv'
<1>1. ASSUME newsletters_add(a) PROVE DialogInv'
  <2>1. /\ "send_message" \in Windows
        /\ Sound("send_message", data[a], screen[a])
        BY DEF Windows, Sound, Composing, Confirming
  <2>. QED BY <1>1, <2>1, Here, ShowingPlain DEF newsletters_add
<1>2. ASSUME newsletters_id(a) PROVE DialogInv'
  <2>1. PICK job \in screen[a].items :
           open_newsletter_window(a, [data[a] EXCEPT !.job = job])
        BY <1>2 DEF newsletters_id
  <2>2. fsm[a] = "newsletters" /\ job \in Jobs
        BY <1>2, Here DEF newsletters_id, In, ScreenType
  <2>3. [data[a] EXCEPT !.job = job] \in DataType
        BY <2>2, Here DEF DataType, OrNone
  <2>4. Sound(fsm[a], [data[a] EXCEPT !.job = job], screen[a])
        BY <2>2 DEF Sound, Composing, Confirming
  <2>. QED BY <2>1, <2>2, <2>3, <2>4, ShowingJob
<1>3. ASSUME newsletters_back(a) \/ channels_pagination(a) PROVE DialogInv'
  <2>1. /\ fsm' = fsm /\ data' = data
        /\ screen' = [screen EXCEPT ![a] = View(a)]
        BY <1>3 DEF newsletters_back, channels_pagination
  <2>2. screen' \in [Admins -> ScreenType]
        BY <2>1, Views DEF DialogInv
  <2>3. ASSUME NEW b \in Admins PROVE Sound(fsm'[b], data'[b], screen'[b])
    <3>1. screen'[b].job = screen[b].job /\ screen'[b].content = screen[b].content
          BY <2>1, Views DEF DialogInv
    <3>. QED BY <2>1, <3>1 DEF DialogInv, Sound
  <2>. QED BY <2>1, <2>2, <2>3 DEF DialogInv
<1>. QED BY <1>1, <1>2, <1>3

LEMMA Deleting ==
    ASSUME DialogInv, NEW a \in Admins
    PROVE  /\ newsletter_callback(a) => DialogInv'
           /\ newsletter_delete_back(a) => DialogInv'
           /\ newsletter_delete_confirm(a) => DialogInv'
<1>1. ASSUME newsletter_callback(a) PROVE DialogInv'
  <2>1. CASE open_newsletters_window(a, data[a], Stored)
        BY <2>1, Here, StoredJobs, ShowingList
  <2>2. CASE Plain(a, "newsletter_delete", data[a])
    <3>1. fsm[a] = "newsletter"
          BY <1>1 DEF newsletter_callback, In
    <3>2. /\ "newsletter_delete" \in Windows
          /\ Sound("newsletter_delete", data[a], screen[a])
          BY <3>1, Here DEF Windows, Sound, Composing, Confirming
    <3>. QED BY <2>2, <3>2, Here, ShowingPlain
  <2>. QED BY <1>1, <2>1, <2>2 DEF newsletter_callback
<1>2. ASSUME newsletter_delete_back(a) PROVE DialogInv'
  <2>1. fsm[a] = "newsletter_delete" /\ open_newsletter_window(a, data[a])
        BY <1>2 DEF newsletter_delete_back, In
  <2>2. data[a].job = screen[a].job
        BY <2>1, Here DEF Sound
  <2>. QED BY <2>1, <2>2, Here, ShowingJob
<1>3. ASSUME newsletter_delete_confirm(a) PROVE DialogInv'
  <2>1. /\ open_newsletters_window(a, data[a], Stored \ {data[a].job})
        /\ Stored \ {data[a].job} \in SUBSET Jobs
        BY <1>3, StoredJobs DEF newsletter_delete_confirm
  <2>. QED BY <2>1, Here, ShowingList
<1>. QED BY <1>1, <1>2, <1>3

LEMMA ComposingSteps ==
    ASSUME DialogInv, NEW a \in Admins
    PROVE  /\ send_message(a) => DialogInv'
           /\ send_buttons(a) => DialogInv'
<1>1. ASSUME send_message(a) PROVE DialogInv'
  <2>1. CASE open_newsletters_window(a, data[a], Stored)
        BY <2>1, Here, StoredJobs, ShowingList
  <2>2. ASSUME NEW m \in Messages,
               Plain(a, "send_buttons",
                  [data[a] EXCEPT !.content = [text |-> m, buttons |-> "own"]])
        PROVE  DialogInv'
    <3>. DEFINE c == [text |-> m, buttons |-> "own"]
                d == [data[a] EXCEPT !.content = c]
    <3>1. c \in Contents /\ c # None
          BY NoneIsNoContent DEF Contents
    <3>2. d \in DataType /\ d.content = c
      <4>. HIDE DEF c
      <4>. QED BY <3>1, Here DEF DataType, OrNone
    <3>3. fsm[a] = "send_message"
          BY <1>1 DEF send_message, In
    <3>4. /\ "send_buttons" \in Windows
          /\ Sound("send_buttons", d, screen[a])
          /\ Sound(fsm[a], d, screen[a])
      <4>. HIDE DEF d, c
      <4>. QED BY <3>1, <3>2, <3>3 DEF Windows, Sound, Composing, Confirming
    <3>. QED BY <2>2, <3>2, <3>4, ShowingPlain
  <2>. QED BY <1>1, <2>1, <2>2 DEF send_message
<1>2. ASSUME send_buttons(a) PROVE DialogInv'
  <2>1. fsm[a] = "send_buttons" /\ data[a].content \in Contents
        BY <1>2, Here DEF send_buttons, In, Sound, Composing, DataType, OrNone
  <2>. DEFINE d == Buttoned(a)
  <2>2. d \in DataType /\ d.content \in Contents
        BY <2>1, Here DEF Buttoned, DataType, OrNone, Contents
  <2>3. d.content # None
        BY <2>2, NoneIsNoContent
  <2>. HIDE DEF d
  <2>4. /\ {"send_message", "send_buttons"} \subseteq Windows
        /\ Sound(fsm[a], d, screen[a]) /\ Sound("send_buttons", d, screen[a])
        /\ Sound("send_message", data[a], screen[a])
        BY <2>1, <2>3 DEF Windows, Sound, Composing, Confirming
  <2>5. CASE Plain(a, "send_message", data[a])
        BY <2>4, <2>5, Here, ShowingPlain
  <2>6. CASE open_message_preview_window(a, d)
        BY <2>2, <2>3, <2>4, <2>6, ShowingPreview
  <2>7. CASE Plain(a, "send_buttons", data[a])
        BY <2>1, <2>4, <2>7, Here, ShowingPlain
  <2>8. CASE Plain(a, "send_buttons", d)
        BY <2>2, <2>4, <2>8, ShowingPlain
  <2>. QED BY <1>2, <2>5, <2>6, <2>7, <2>8 DEF send_buttons, d
<1>. QED BY <1>1, <1>2

LEMMA Reviewing ==
    ASSUME DialogInv, NEW a \in Admins
    PROVE  /\ message_preview(a) => DialogInv'
           /\ choose_options(a) => DialogInv'
           /\ send_datetime(a) => DialogInv'
           /\ confirmation_back(a) => DialogInv'
<1>1. ASSUME message_preview(a) PROVE DialogInv'
  <2>1. PICK w \in {"send_buttons", "choose_options"} : Plain(a, w, data[a])
        BY <1>1 DEF message_preview
  <2>2. w \in Windows /\ Sound(w, data[a], screen[a])
        BY <1>1, Here DEF message_preview, In, Windows, Sound, Composing, Confirming
  <2>. QED BY <2>1, <2>2, Here, ShowingPlain
<1>2. ASSUME choose_options(a) PROVE DialogInv'
  <2>1. fsm[a] = "choose_options" /\ data[a].content # None
        BY <1>2, Here DEF choose_options, In, Sound, Composing
  <2>2. CASE open_message_preview_window(a, data[a])
        BY <2>1, <2>2, Here, ShowingPreview
  <2>3. ASSUME NEW w \in {"send_datetime", "confirmation_now"},
               Plain(a, w, data[a])
        PROVE  DialogInv'
    <3>1. w \in Windows /\ Sound(w, data[a], screen[a])
          BY <2>1, Here DEF Windows, Sound, Composing, Confirming
    <3>. QED BY <2>3, <3>1, Here, ShowingPlain
  <2>. QED BY <1>2, <2>2, <2>3 DEF choose_options
<1>3. ASSUME send_datetime(a) PROVE DialogInv'
  <2>1. fsm[a] = "send_datetime"
        BY <1>3 DEF send_datetime, In
  <2>2. ASSUME NEW w \in {"choose_options", "send_datetime"},
               Plain(a, w, data[a])
        PROVE  DialogInv'
    <3>1. w \in Windows /\ Sound(w, data[a], screen[a])
          BY <2>1, Here DEF Windows, Sound, Composing, Confirming
    <3>. QED BY <2>2, <3>1, Here, ShowingPlain
  <2>3. ASSUME NEW date \in Dates,
               Plain(a, "confirmation_later", [data[a] EXCEPT !.date = date])
        PROVE  DialogInv'
    <3>. DEFINE d == [data[a] EXCEPT !.date = date]
    <3>1. d \in DataType /\ d.content = data[a].content /\ d.job = data[a].job
          /\ d.date = date
          BY Here DEF DataType, OrNone
    <3>2. d.date # None
          BY <3>1, NewsletterAssumption
    <3>. HIDE DEF d
    <3>3. /\ "confirmation_later" \in Windows
          /\ Sound("confirmation_later", d, screen[a])
          /\ Sound(fsm[a], d, screen[a])
          BY <2>1, <3>1, <3>2, Here DEF Windows, Sound, Composing, Confirming
    <3>. QED BY <2>3, <3>1, <3>3, ShowingPlain DEF d
  <2>. QED BY <1>3, <2>2, <2>3 DEF send_datetime
<1>4. ASSUME confirmation_back(a) PROVE DialogInv'
  <2>1. PICK w \in {"choose_options", "send_datetime"} :
           /\ fsm[a] \in {"confirmation_now", "confirmation_later"}
           /\ Plain(a, w, data[a])
        BY <1>4 DEF confirmation_back, In
  <2>2. w \in Windows /\ Sound(w, data[a], screen[a])
        BY <2>1, Here DEF Windows, Sound, Composing, Confirming
  <2>. QED BY <2>1, <2>2, Here, ShowingPlain
<1>. QED BY <1>1, <1>2, <1>3, <1>4

LEMMA Confirmed ==
    ASSUME DialogInv, NEW a \in Admins
    PROVE  /\ confirmation_now_confirm(a) => DialogInv'
           /\ confirmation_later_confirm(a) => DialogInv'
<1>1. ASSUME confirmation_now_confirm(a) PROVE DialogInv'
  <2>1. open_newsletters_window(a, data[a], Stored)
        BY <1>1 DEF confirmation_now_confirm
  <2>. QED BY <2>1, Here, StoredJobs, ShowingList
<1>2. ASSUME confirmation_later_confirm(a) PROVE DialogInv'
  <2>1. PICK j \in Unused : open_newsletters_window(a, data[a], Stored \cup {j})
        BY <1>2 DEF confirmation_later_confirm
  <2>2. Stored \cup {j} \in SUBSET Jobs
        BY StoredJobs DEF Unused
  <2>. QED BY <2>1, <2>2, Here, ShowingList
<1>. QED BY <1>1, <1>2

LEMMA DialogStep ==
    ASSUME DialogInv, [Next]_vars
    PROVE  DialogInv'
<1>1. ASSUME NEW a \in Admins, Admin(a) PROVE DialogInv'
  <2>1. broadcast_refused(a) => DialogInv'
        BY DEF broadcast_refused, vars, dialog, DialogInv
  <2>. QED BY <1>1, <2>1, Starting, Leaving, Listing, Deleting, ComposingSteps,
              Reviewing, Confirmed DEF Admin
<1>2. ASSUME UNCHANGED dialog PROVE DialogInv'
      BY <1>2 DEF dialog, DialogInv
<1>3. ASSUME NEW j \in Jobs, Scheduler(j) \/ Runner(j) PROVE UNCHANGED dialog
      BY <1>3 DEF Scheduler, Runner, time_comes, run_broadcast, misfire, deliver,
                  finish
<1>4. ASSUME stop \/ start \/ UNCHANGED vars PROVE UNCHANGED dialog
      BY <1>4 DEF stop, start, vars
<1>. QED BY <1>1, <1>2, <1>3, <1>4 DEF Next

\* Every window finds its data, and shows what they name.
LEMMA DialogSound == Spec => []DialogInv
BY DialogInit, DialogStep, PTL DEF Spec

-----------------------------------------------------------------------------
(* The jobs and their runs.                                                *)

JobTypes ==
    /\ store \in [Jobs -> {"absent", "waiting", "due", "overdue"}]
    /\ running \subseteq Jobs
    /\ left \in [Jobs -> SUBSET Subscribers]
    /\ got \in [Jobs -> SUBSET Subscribers]
    /\ content \in [Jobs -> OrNone(Contents)]
    /\ active \subseteq Subscribers
    /\ up \in BOOLEAN /\ stops \in 0..MaxStops

\* A broadcast is in the store or in a run but never in both, was confirmed
\* before either, reaches nobody before its run, and its run has yet to come
\* to subscribers it has not reached.
RunInv ==
    \A j \in Jobs :
        /\ store[j] # "absent" => j \notin running
        /\ store[j] # "absent" \/ j \in running => content[j] # None
        /\ store[j] # "absent" \/ content[j] = None => got[j] = {}
        /\ left[j] \cap got[j] = {}

Sending == JobTypes /\ RunInv

LEMMA SendingInit == Init => Sending
BY NewsletterAssumption DEF Init, Sending, JobTypes, RunInv, OrNone

\* The steps of the dialog that touch no job.
LEMMA DialogOnlyKeeps ==
    ASSUME Sending, UNCHANGED <<store, sends, up, stops>>
    PROVE  Sending'
BY DEF Sending, JobTypes, RunInv, sends

\* What an administrator confirms is a message.
LEMMA ConfirmedContent ==
    ASSUME DialogInv, NEW a \in Admins,
           fsm[a] \in {"confirmation_now", "confirmation_later"}
    PROVE  /\ data[a].content \in Contents /\ data[a].content # None
           /\ data[a].content = screen[a].content
<1>1. data[a].content # None /\ data[a].content = screen[a].content
      BY Here DEF Sound, Composing, Confirming
<1>. QED BY <1>1, Here DEF DataType, OrNone

LEMMA ConfirmingNow ==
    ASSUME DialogInv, Sending, NEW a \in Admins, confirmation_now_confirm(a)
    PROVE  Sending'
<1>1. PICK j \in Unused :
         /\ content' = [content EXCEPT ![j] = data[a].content]
         /\ running' = running \cup {j}
         /\ left'    = [left EXCEPT ![j] = active]
      BY DEF confirmation_now_confirm
<1>2. data[a].content \in Contents /\ data[a].content # None
      BY ConfirmedContent DEF confirmation_now_confirm, In
<1>3. j \in Jobs /\ content[j] = None /\ got[j] = {} /\ store[j] = "absent"
      BY DEF Unused, Sending, RunInv
<1>4. UNCHANGED <<store, got, active, up, stops>>
      BY DEF confirmation_now_confirm
<1>5. JobTypes'
      BY <1>1, <1>2, <1>3, <1>4 DEF Sending, JobTypes, OrNone
<1>6. RunInv'
      BY <1>1, <1>2, <1>3, <1>4 DEF Sending, JobTypes, RunInv
<1>. QED BY <1>5, <1>6 DEF Sending

LEMMA ConfirmingLater ==
    ASSUME DialogInv, Sending, NEW a \in Admins, confirmation_later_confirm(a)
    PROVE  Sending'
<1>1. PICK j \in Unused, when \in Postponed :
         /\ content' = [content EXCEPT ![j] = data[a].content]
         /\ store'   = [store EXCEPT ![j] = when]
      BY DEF confirmation_later_confirm
<1>2. data[a].content \in Contents /\ data[a].content # None
      BY ConfirmedContent DEF confirmation_later_confirm, In
<1>3. j \in Jobs /\ content[j] = None /\ got[j] = {} /\ j \notin running
      BY DEF Unused, Sending, RunInv
<1>4. when \in {"waiting", "overdue"}
      BY DEF Postponed
<1>5. UNCHANGED <<running, left, got, active, up, stops>>
      BY DEF confirmation_later_confirm
<1>6. JobTypes'
      BY <1>1, <1>2, <1>3, <1>4, <1>5 DEF Sending, JobTypes, OrNone
<1>7. RunInv'
      BY <1>1, <1>2, <1>3, <1>4, <1>5 DEF Sending, JobTypes, RunInv
<1>. QED BY <1>6, <1>7 DEF Sending

LEMMA DeletingKeeps ==
    ASSUME DialogInv, Sending, NEW a \in Admins, newsletter_delete_confirm(a)
    PROVE  Sending'
<1>1. data[a].job \in Jobs
      BY DEF newsletter_delete_confirm, Stored
<1>. QED BY <1>1 DEF newsletter_delete_confirm, Sending, JobTypes, RunInv, sends

LEMMA SchedulerKeeps ==
    ASSUME Sending, NEW j \in Jobs, Scheduler(j)
    PROVE  Sending'
<1>1. CASE time_comes(j)
      BY <1>1 DEF time_comes, Sending, JobTypes, RunInv, sends
<1>2. CASE run_broadcast(j)
      BY <1>2 DEF run_broadcast, Sending, JobTypes, RunInv
<1>3. CASE misfire(j)
      BY <1>3 DEF misfire, Sending, JobTypes, RunInv, sends
<1>. QED BY <1>1, <1>2, <1>3 DEF Scheduler

LEMMA RunnerKeeps ==
    ASSUME Sending, NEW j \in Jobs, Runner(j)
    PROVE  Sending'
<1>1. ASSUME deliver(j) PROVE Sending'
  <2>1. PICK s \in left[j] :
          /\ left' = [left EXCEPT ![j] = @ \ {s}]
          /\ \/ got' = [got EXCEPT ![j] = @ \cup {s}] /\ UNCHANGED active
             \/ active' = active \ {s} /\ UNCHANGED got
             \/ UNCHANGED <<got, active>>
        BY <1>1 DEF deliver
  <2>2. /\ s \in Subscribers /\ s \notin got[j]
        /\ store[j] = "absent" /\ content[j] # None
        BY <1>1 DEF deliver, Sending, JobTypes, RunInv
  <2>3. UNCHANGED <<store, running, content, up, stops>>
        BY <1>1 DEF deliver
  <2>4. JobTypes'
        BY <2>1, <2>2, <2>3 DEF Sending, JobTypes
  <2>5. RunInv'
        BY <2>1, <2>2, <2>3 DEF Sending, JobTypes, RunInv
  <2>. QED BY <2>4, <2>5 DEF Sending
<1>2. ASSUME finish(j) PROVE Sending'
      BY <1>2 DEF finish, Sending, JobTypes, RunInv
<1>. QED BY <1>1, <1>2 DEF Runner

LEMMA StopKeeps ==
    ASSUME Sending, stop \/ start
    PROVE  Sending'
<1>1. ASSUME stop PROVE Sending'
  <2>1. store' \in [Jobs -> {"absent", "waiting", "due", "overdue"}]
        BY <1>1 DEF stop, Sending, JobTypes
  <2>2. left' \in [Jobs -> SUBSET Subscribers]
        BY <1>1 DEF stop
  <2>3. /\ stops' \in 0..MaxStops
        /\ up' \in BOOLEAN
        /\ running' = {}
    <3>1. stops < MaxStops /\ stops' = stops + 1 /\ stops \in 0..MaxStops
          BY <1>1 DEF stop, Sending, JobTypes
    <3>2. up' = FALSE /\ running' = {}
          BY <1>1 DEF stop
    <3>3. stops' \in 0..MaxStops
          BY <3>1, NewsletterAssumption
    <3>. QED BY <3>2, <3>3
  <2>4. UNCHANGED <<content, got, active>>
        BY <1>1 DEF stop
  <2>5. ASSUME NEW j \in Jobs
        PROVE  left'[j] = {} /\ (store'[j] # "absent" <=> store[j] # "absent")
        BY <1>1 DEF stop, Sending, JobTypes
  <2>6. JobTypes'
        BY <2>1, <2>2, <2>3, <2>4 DEF Sending, JobTypes
  <2>7. RunInv'
        BY <2>3, <2>4, <2>5 DEF Sending, RunInv
  <2>. QED BY <2>6, <2>7 DEF Sending
<1>2. CASE start
      BY <1>2 DEF start, Sending, JobTypes, RunInv, sends
<1>. QED BY <1>1, <1>2

\* The administrators' steps that leave the jobs alone.
Confirms(a) ==
    \/ newsletter_delete_confirm(a)
    \/ confirmation_now_confirm(a) \/ confirmation_later_confirm(a)

LEMMA OtherSteps ==
    ASSUME NEW a \in Admins, Admin(a), ~Confirms(a)
    PROVE  UNCHANGED <<store, sends, up, stops>>
BY DEF Admin, Confirms, DialogOnly, broadcast_start, broadcast_refused, leave, vars,
       newsletters_back, newsletters_add, channels_pagination, newsletters_id,
       newsletter_callback, newsletter_delete_back, send_message, send_buttons,
       message_preview, choose_options, send_datetime, confirmation_back

LEMMA SendingStep ==
    ASSUME DialogInv, Sending, [Next]_vars
    PROVE  Sending'
<1>1. ASSUME NEW a \in Admins, Admin(a) PROVE Sending'
      BY <1>1, OtherSteps, DialogOnlyKeeps, ConfirmingNow, ConfirmingLater,
         DeletingKeeps DEF Confirms
<1>2. ASSUME NEW j \in Jobs, Scheduler(j) \/ Runner(j) PROVE Sending'
      BY <1>2, SchedulerKeeps, RunnerKeeps
<1>3. CASE stop \/ start
      BY <1>3, StopKeeps
<1>4. CASE UNCHANGED vars
      BY <1>4, DialogOnlyKeeps DEF vars
<1>. QED BY <1>1, <1>2, <1>3, <1>4 DEF Next

LEMMA SendingAlways == Spec => []Sending
BY SendingInit, SendingStep, DialogSound, PTL DEF Spec, DialogSound

-----------------------------------------------------------------------------
(* The properties.                                                         *)

\* Every variable has its type, and no page button leads to page 0.
THEOREM TypeCorrect == Spec => []TypeOK
<1>1. DialogInv /\ Sending => TypeOK
      BY DEF DialogInv, DataType, ScreenType, Sending, JobTypes, TypeOK
<1>. QED BY <1>1, DialogSound, SendingAlways, PTL

\* No order of presses, failures, commands and restarts opens a window whose
\* handlers would miss their FSM data.
THEOREM DialogDataTheorem == Spec => []DialogDataPresent
<1>1. DialogInv => DialogDataPresent
      BY DEF DialogInv, Sound, DialogDataPresent
<1>. QED BY <1>1, DialogSound, PTL

\* Every list can be paged through, from end to end.
THEOREM ListTheorem == Spec => []ListConnected
<1>1. ListConnected
      BY NeighboursOffered DEF ListConnected
<1>. QED BY <1>1, PTL

\* Only the confirming steps give a broadcast its content.
LEMMA ContentStep ==
    ASSUME DialogInv, Next, NEW j \in Jobs, content'[j] # content[j]
    PROVE  \E a \in Admins :
              /\ fsm[a] \in {"confirmation_now", "confirmation_later"}
              /\ content'[j] = screen[a].content
<1>1. ASSUME NEW a \in Admins, Admin(a), ~Confirms(a) PROVE FALSE
      BY <1>1, OtherSteps DEF sends
<1>2. ASSUME NEW a \in Admins, newsletter_delete_confirm(a) PROVE FALSE
      BY <1>2 DEF newsletter_delete_confirm, sends
<1>3. ASSUME NEW k \in Jobs, Scheduler(k) \/ Runner(k) PROVE FALSE
      BY <1>3 DEF Scheduler, Runner, time_comes, run_broadcast, misfire, deliver,
                  finish, sends
<1>4. ~stop /\ ~start
      BY DEF stop, start, sends
<1>5. PICK a \in Admins :
         confirmation_now_confirm(a) \/ confirmation_later_confirm(a)
      BY <1>1, <1>2, <1>3, <1>4 DEF Next, Confirms
<1>6. PICK k \in Jobs : content' = [content EXCEPT ![k] = data[a].content]
      BY <1>5 DEF confirmation_now_confirm, confirmation_later_confirm, Unused
<1>7. content'[j] = data[a].content
      BY <1>6
<1>8. fsm[a] \in {"confirmation_now", "confirmation_later"}
      BY <1>5 DEF confirmation_now_confirm, confirmation_later_confirm, In
<1>. QED BY <1>7, <1>8, ConfirmedContent

\* What is sent or scheduled is what the confirming administrator last saw in
\* the preview.
THEOREM PreviewTheorem == Spec => ConfirmedAsPreviewed
<1>1. DialogInv /\ [Next]_vars =>
         [\A j \in Jobs : content'[j] # content[j] =>
             \E a \in Admins :
                 /\ fsm[a] \in {"confirmation_now", "confirmation_later"}
                 /\ content'[j] = screen[a].content]_vars
      BY ContentStep DEF vars, sends
<1>. QED BY <1>1, DialogSound, PTL DEF Spec, ConfirmedAsPreviewed

\* Only a confirmed deletion takes a job that is not late out of the store
\* without running it.
LEMMA DeletedStep ==
    ASSUME DialogInv, Sending, Next, NEW j \in Jobs,
           store[j] \in {"waiting", "due"}, store'[j] = "absent",
           j \notin running'
    PROVE  \E a \in Admins : fsm[a] = "newsletter_delete" /\ screen[a].job = j
<1>1. ASSUME NEW a \in Admins, Admin(a), ~Confirms(a) PROVE FALSE
      BY <1>1, OtherSteps
<1>2. ASSUME NEW a \in Admins, confirmation_now_confirm(a) PROVE FALSE
      BY <1>2 DEF confirmation_now_confirm
<1>3. ASSUME NEW a \in Admins, confirmation_later_confirm(a) PROVE FALSE
  <2>1. PICK k \in Jobs, when \in {"waiting", "overdue"} :
           store' = [store EXCEPT ![k] = when]
        BY <1>3 DEF confirmation_later_confirm, Unused, Postponed
  <2>. QED BY <2>1 DEF Sending, JobTypes
<1>4. ASSUME NEW k \in Jobs, Scheduler(k) PROVE FALSE
      BY <1>4 DEF Scheduler, time_comes, run_broadcast, misfire, Sending, JobTypes
<1>5. ASSUME NEW k \in Jobs, Runner(k) PROVE FALSE
      BY <1>5 DEF Runner, deliver, finish
<1>6. ~stop /\ ~start
      BY DEF stop, start
<1>7. PICK a \in Admins : newsletter_delete_confirm(a)
      BY <1>1, <1>2, <1>3, <1>4, <1>5, <1>6 DEF Next, Confirms
<1>8. fsm[a] = "newsletter_delete" /\ j = data[a].job
      BY <1>7 DEF newsletter_delete_confirm, In, Sending, JobTypes
<1>. QED BY <1>8, Here DEF Sound

\* A confirmed deletion removes the job whose message was shown.
THEOREM DeletionTheorem == Spec => DeletedAsShown
<1>. DEFINE Removal ==
        \A j \in Jobs :
          /\ store[j] \in {"waiting", "due"} /\ store'[j] = "absent"
          /\ j \notin running'
          => \E a \in Admins :
                fsm[a] = "newsletter_delete" /\ screen[a].job = j
<1>1. DialogInv /\ Sending /\ [Next]_vars => [Removal]_vars
      BY DeletedStep
<1>. QED BY <1>1, DialogSound, SendingAlways, PTL DEF Spec, DeletedAsShown

-----------------------------------------------------------------------------
(* The contract.                                                           *)

phases == [j \in Jobs |-> Phase(j)]

LEMMA RefinesInit == Init => Contract!Init
BY DEF Init, Contract!Init, Phase

\* The phase of job j alone changes, from one of `from` to `to`.
LEMMA Moving ==
    ASSUME NEW j \in Jobs, NEW from, NEW to,
           Phase(j) \in from, Phase(j)' = to, got' = got,
           \A k \in Jobs \ {j} : Phase(k)' = Phase(k)
    PROVE  Contract!Move(j, from, to)
<1>1. phases' = [phases EXCEPT ![j] = to]
      BY DEF phases
<1>. QED BY <1>1 DEF phases, Contract!Move

LEMMA RefinesConfirm ==
    ASSUME DialogInv, Sending, NEW a \in Admins, Confirms(a)
    PROVE  Contract!Next
<1>1. ASSUME newsletter_delete_confirm(a) PROVE Contract!Next
  <2>1. PICK j \in Jobs : /\ j = data[a].job /\ store[j] # "absent"
                          /\ store' = [store EXCEPT ![j] = "absent"]
        BY <1>1 DEF newsletter_delete_confirm, Stored
  <2>2. UNCHANGED <<running, content, got>>
        BY <1>1 DEF newsletter_delete_confirm, sends
  <2>3. /\ Phase(j) = "scheduled" /\ Phase(j)' = "ended"
        /\ \A k \in Jobs \ {j} : Phase(k)' = Phase(k)
        BY <2>1, <2>2 DEF Phase, Sending, JobTypes, RunInv
  <2>4. Contract!Move(j, {"scheduled", "sending"}, "ended")
        BY <2>2, <2>3, Moving
  <2>. QED BY <2>4 DEF Contract!Next, Contract!End
<1>2. ASSUME confirmation_now_confirm(a) PROVE Contract!Next
  <2>1. PICK j \in Unused : /\ content' = [content EXCEPT ![j] = data[a].content]
                            /\ running' = running \cup {j}
        BY <1>2 DEF confirmation_now_confirm
  <2>2. UNCHANGED <<store, got>>
        BY <1>2 DEF confirmation_now_confirm
  <2>3. j \in Jobs /\ content[j] = None
        BY DEF Unused
  <2>4. /\ Phase(j) = "new" /\ Phase(j)' = "sending"
        /\ \A k \in Jobs \ {j} : Phase(k)' = Phase(k)
        BY <2>1, <2>2, <2>3 DEF Phase, Sending, JobTypes, RunInv
  <2>5. Contract!Move(j, {"new", "scheduled"}, "sending")
        BY <2>2, <2>3, <2>4, Moving
  <2>. QED BY <2>3, <2>5 DEF Contract!Next, Contract!Start
<1>3. ASSUME confirmation_later_confirm(a) PROVE Contract!Next
  <2>1. PICK j \in Unused, when \in Postponed :
           /\ content' = [content EXCEPT ![j] = data[a].content]
           /\ store'   = [store EXCEPT ![j] = when]
        BY <1>3 DEF confirmation_later_confirm
  <2>2. UNCHANGED <<running, got>>
        BY <1>3 DEF confirmation_later_confirm
  <2>3. j \in Jobs /\ content[j] = None /\ when # "absent"
        BY DEF Unused, Postponed
  <2>4. /\ Phase(j) = "new" /\ Phase(j)' = "scheduled"
        /\ \A k \in Jobs \ {j} : Phase(k)' = Phase(k)
        BY <2>1, <2>2, <2>3 DEF Phase, Sending, JobTypes, RunInv
  <2>5. Contract!Move(j, {"new"}, "scheduled")
        BY <2>2, <2>3, <2>4, Moving
  <2>. QED BY <2>3, <2>5 DEF Contract!Next, Contract!Schedule
<1>. QED BY <1>1, <1>2, <1>3 DEF Confirms

LEMMA SamePhases ==
    ASSUME UNCHANGED got, \A k \in Jobs : Phase(k)' = Phase(k)
    PROVE  UNCHANGED Contract!vars
BY DEF Contract!vars

LEMMA RefinesScheduler ==
    ASSUME Sending, NEW j \in Jobs, Scheduler(j)
    PROVE  [Contract!Next]_(Contract!vars)
<1>1. ASSUME time_comes(j) PROVE UNCHANGED Contract!vars
  <2>1. UNCHANGED got /\ \A k \in Jobs : Phase(k)' = Phase(k)
        BY <1>1 DEF time_comes, sends, Phase, Sending, JobTypes
  <2>. QED BY <2>1, SamePhases
<1>2. ASSUME run_broadcast(j) PROVE Contract!Next
  <2>1. /\ Phase(j) = "scheduled" /\ Phase(j)' = "sending"
        /\ \A k \in Jobs \ {j} : Phase(k)' = Phase(k)
        /\ got' = got
        BY <1>2 DEF run_broadcast, Phase, Sending, JobTypes, RunInv
  <2>2. Contract!Move(j, {"new", "scheduled"}, "sending")
        BY <2>1, Moving
  <2>. QED BY <2>2 DEF Contract!Next, Contract!Start
<1>3. ASSUME misfire(j) PROVE Contract!Next
  <2>1. /\ Phase(j) = "scheduled" /\ Phase(j)' = "ended"
        /\ \A k \in Jobs \ {j} : Phase(k)' = Phase(k)
        /\ got' = got
        BY <1>3 DEF misfire, sends, Phase, Sending, JobTypes, RunInv
  <2>2. Contract!Move(j, {"scheduled", "sending"}, "ended")
        BY <2>1, Moving
  <2>. QED BY <2>2 DEF Contract!Next, Contract!End
<1>. QED BY <1>1, <1>2, <1>3 DEF Scheduler

LEMMA RefinesRunner ==
    ASSUME Sending, NEW j \in Jobs, Runner(j)
    PROVE  [Contract!Next]_(Contract!vars)
<1>1. ASSUME deliver(j) PROVE [Contract!Next]_(Contract!vars)
  <2>1. PICK s \in left[j] :
           got' = [got EXCEPT ![j] = @ \cup {s}] \/ UNCHANGED got
        BY <1>1 DEF deliver
  <2>2. s \in Subscribers /\ s \notin got[j]
        BY DEF Sending, JobTypes, RunInv
  <2>3. Phase(j) = "sending" /\ \A k \in Jobs : Phase(k)' = Phase(k)
        BY <1>1 DEF deliver, Phase, Sending, RunInv
  <2>4. phases' = phases
        BY <2>3 DEF phases
  <2>5. CASE got' = [got EXCEPT ![j] = @ \cup {s}]
    <3>1. Contract!Deliver(j, s)
          BY <2>2, <2>3, <2>4, <2>5 DEF Contract!Deliver, phases
    <3>. QED BY <2>2, <3>1 DEF Contract!Next
  <2>6. CASE UNCHANGED got
        BY <2>3, <2>6, SamePhases
  <2>. QED BY <2>1, <2>5, <2>6
<1>2. ASSUME finish(j) PROVE Contract!Next
  <2>1. /\ Phase(j) = "sending" /\ Phase(j)' = "ended"
        /\ \A k \in Jobs \ {j} : Phase(k)' = Phase(k)
        /\ got' = got
        BY <1>2 DEF finish, Phase, Sending, RunInv
  <2>2. Contract!Move(j, {"scheduled", "sending"}, "ended")
        BY <2>1, Moving
  <2>. QED BY <2>2 DEF Contract!Next, Contract!End
<1>. QED BY <1>1, <1>2 DEF Runner

LEMMA RefinesStop ==
    ASSUME Sending, stop
    PROVE  Contract!Next
<1>1. got' = got
      BY DEF stop
<1>2. ASSUME NEW k \in Jobs
      PROVE  Phase(k)' = IF Phase(k) = "sending" THEN "ended" ELSE Phase(k)
      BY DEF stop, Phase, Sending, JobTypes, RunInv
<1>3. phases' = [k \in Jobs |->
                    IF phases[k] = "sending" THEN "ended" ELSE phases[k]]
      BY <1>2 DEF phases
<1>. QED BY <1>1, <1>3 DEF phases, Contract!Next, Contract!Stop

LEMMA RefinesStep ==
    ASSUME DialogInv, Sending, [Next]_vars
    PROVE  [Contract!Next]_(Contract!vars)
<1>1. ASSUME UNCHANGED <<store, sends>> PROVE UNCHANGED Contract!vars
      BY <1>1, SamePhases DEF sends, Phase
<1>2. ASSUME NEW a \in Admins, Admin(a) PROVE [Contract!Next]_(Contract!vars)
      BY <1>1, <1>2, OtherSteps, RefinesConfirm
<1>3. ASSUME NEW j \in Jobs, Scheduler(j) \/ Runner(j)
      PROVE  [Contract!Next]_(Contract!vars)
      BY <1>3, RefinesScheduler, RefinesRunner
<1>4. CASE stop
      BY <1>4, RefinesStop
<1>5. CASE start \/ UNCHANGED vars
      BY <1>1, <1>5 DEF start, vars
<1>. QED BY <1>2, <1>3, <1>4, <1>5 DEF Next

\* Every broadcast keeps its contract, for any number of administrators,
\* broadcasts and subscribers, and however often the bot stops.
THEOREM RefinesBroadcastTheorem == Spec => RefinesBroadcast
BY RefinesInit, RefinesStep, DialogSound, SendingAlways, PTL
   DEF Spec, RefinesBroadcast, Contract!Spec
=============================================================================
