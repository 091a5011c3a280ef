# Access Manager Bot in TLA+

The bot (`bot/`, Python, aiogram + SQLAlchemy + Redis + APScheduler) admits users to protected Telegram chats as long as they are in the channels a policy requires, warns them when they leave one, and removes them when a grace period has run out. This directory holds TLA+ modules that model that behaviour, TLC configurations that check it on small instances, and proofs, checked by TLAPS, of the most important properties for every instance.

All paths below are relative to `src/`.

## 1. The system

### 1.1 Parts, their state and their operations

| part | state | operations |
|---|---|---|
| `bot/models.py`, PostgreSQL | `access_policies` (protected chat, `is_active`), `policy_channels` (required channels), `membership_grants` (user × policy: `status`, `grace_expires_at`, missing channels) | rows written by everything below; no uniqueness of (policy, user) |
| Telegram (external) | memberships, pending join requests, bans | user joins, leaves, asks to join; `approve_chat_join_request`, `ban_chat_member`, `unban_chat_member`, `get_chat_member`; updates `chat_member`, `chat_join_request`, button presses |
| Redis | `membership:{chat}:{user}` (verdict, 300 s), `eval_lock:{policy}:{user}` (10 s), FSM data, broadcast jobs | get / setex / delete; lock |
| `services/membership_service.py` | – | `check_compliance` on cached verdicts, live checks, invalidation, `approve_with_retry`, `notify_existing_users_about_new_channel` |
| `services/compliance_service.py` | – | `start_grace_period`, `remove_and_unban` (`revoke_expired_grants` is never called) |
| `services/policy_service.py` | – | create policy, add / remove channel, deactivate / reactivate |
| `services/cache_service.py` | – | `lock_eval`, `unlock_eval` |
| `handlers/join_request.py` | – | a request to join a protected chat: approve and write ACTIVE, or write NEEDS_REVIEW |
| `handlers/check.py` | – | the Check and Confirm buttons: re-evaluate one policy for the user who pressed |
| `handlers/chat_member.py` | – | a join or a leave: grace periods, preventive cascade, three restoration loops |
| `jobs/grace_watcher.py` | – | every 5 min: revoke grants whose deadline passed, remove the user, cascade |
| `jobs/grace_restoration.py` | – | every minute: restore warned grants whose user complies again, cascade |
| `jobs/compliance_scan.py` | – | daily and on demand: put non-compliant ACTIVE grants on notice |
| `jobs/scheduler.py` | job stores | runs the jobs, one instance of each at a time |
| `handlers/admin/policy.py`, `handlers/admin/users.py` | FSM state and data in Redis | dialogs that create a policy, add a channel, edit a link; remove, deactivate, reactivate; `/admin_user_sync` |
| `newsletter.py`, `manager.py`, `handlers/admin/broadcast.py`, `keyboards/inline/newsletter.py` | FSM state and data in Redis, jobs in the Redis store `broadcasts` | ten windows: list, open, delete; compose, preview, confirm for now or later |
| `jobs/broadcast_runner.py`, `services/broadcast_storage.py` | `user_profiles.broadcast_state` | send to the active subscribers one after the other; mark those who blocked the bot |
| `__main__.py` | – | includes the routers in an order that decides which handler takes an update; start and stop |
| `middlewares/throttling.py` | users seen in the last second | drops **every** further update of such a user, `chat_member` updates included |
| `core/db.py` | – | a session commits when its block ends and rolls back on an exception; Telegram calls made meanwhile stay |

Two parts interact in three ways: through the rows of `membership_grants`, through the cached verdicts, and through Telegram itself (an approval in one handler is an update for another; a removal from a chat that another policy requires is a loss there).

### 1.2 What is hard

- **Ordering.** The user's updates, their button presses, three periodic jobs, the administrators' commands and the clock come in any order. Five handlers can end a grace period, six can start one.
- **Cascades.** A protected chat may be a required channel of another policy: losing it threatens (`chat_member`) or warns (`grace_watcher`) the dependent grant, gaining it restores it.
- **Stale verdicts.** Most decisions invalidate the cached verdicts first; the join request handler and the daily scan do not. Asking Telegram and storing its answer are two calls, and a deletion may fall in between.
- **Partial failure.** Telegram calls cannot be rolled back: an approval may outlive its row, a row may outlive its removal. An assignment to a relation that was not loaded raises between two columns of a row; one watcher catches that and commits the row as it is.
- **Loss.** The throttling middleware drops updates nobody repeats.
- **Concurrency.** aiogram handles updates concurrently; sessions read, await Telegram, and write. The only lock the code names is that of the Check button; PostgreSQL's row locks are taken one by one, as each row is selected `FOR UPDATE` or flushed, and kept to the commit.
- **Dialogs.** The FSM state, not the message a button hangs on, decides who handles a press. State, data, window and database are written one after the other, each of which may fail; another dialog of the same administrator writes the same keys.
- **Restart.** Redis keeps dialogs and scheduled broadcasts, the process keeps runs and handlers: a stop cuts between them.

### 1.3 What should hold

- *Grants*: a revocation only after a full notice and only of a grant in grace; ACTIVE only for users who comply; complete cascades; members of a protected chat on record; grace periods that end; stragglers noticed.
- *Check lock and rows*: one evaluation at a time; one row per user and policy; nobody waits for a lock that neither a commit nor PostgreSQL's deadlock detection will release; the user's updates one after the other; nobody admitted without a row.
- *Cached verdicts*: no decision on a verdict older than its 300 s and the wait of its write; what a deletion took out decides nothing; "member" does not outlive a membership for good.
- *Policies*: an edit of requirements warns those it should and nobody else; deactivation and reactivation leave grants consistent.
- *Policy dialogs*: one policy per chat; what is written is what was entered; what was told is stored; no answer without its question's data.
- *Broadcasts*: sent once at most, to nobody twice, never after a deletion; what is sent is what was previewed; what is deleted is what was shown; each one ends.

`PROJECT.json` lists every hazard with its line and the properties aimed at it.

## 2. The modules

| module | what it is |
|---|---|
| `GrantLifecycle` | the core: one user's grants, memberships and cached verdicts under all handlers, jobs and commands; one handler call is one step |
| `GrantProperties` | its invariants, action and liveness properties, and the claims of documents and comments that the code does not keep |
| `GrantContract` | the abstract specification: which changes of `status` and `grace_expires_at` are possible at all |
| `GraceNotice` | `GrantLifecycle` with a history variable, for "full notice before a revocation" |
| `GrantSessions` | the database sessions of Check, join request, leave, join, expiry and restoration taken apart at every `await` and at every row they lock, for one user and one policy |
| `RowContract` | the abstract specification: what committed rows can go through when sessions interleave |
| `SessionProperties` | properties of the two, and the refinement |
| `Newsletter` | the broadcast dialog of the administrators, the job store, the scheduler, the runner, stop and start |
| `Paginator` | which page buttons the list of broadcasts offers |
| `BroadcastContract` | the abstract specification: what happens to one broadcast, seen by its subscribers |
| `NewsletterProperties` | properties of the three, the refinement, and the claim about page buttons |
| `PolicyDialogs` | the dialogs that create a policy, add a required channel and edit a link, their handlers taken apart at every `await` and every access to the FSM |
| `DialogProperties` | its properties |
| `MembershipCache` | the cached verdicts on one user: overlapping checks look into Redis, ask Telegram, store, delete, call by call |
| `CacheProperties` | how old a verdict can be when something is decided by it, and the claim of comments that it is never old |
| `GrantLifecycleProofs`, `GrantActionProofs`, `GraceNoticeProofs` | the theorems about the lifecycle: the contract, single steps, the notice |
| `SessionProofs`, `NewsletterProofs`, `DialogProofs`, `CacheProofs` | the theorems about sessions, broadcasts, policy dialogs, cached verdicts |
| `Chain`, `MCGrantLifecycle`, `MCGraceNotice`, `MCSessions`, `MCNewsletter`, `MCDialogs`, `MCCache` | instances for TLC |

`GrantSessions`, `PolicyDialogs` and `MembershipCache` each take one step of `GrantLifecycle` apart: the first the handlers that write grants, the second `add_channel`, the third `check_compliance`. `Newsletter` shares nothing with grants but the bot, the administrators and Redis.

### 2.1 GrantLifecycle and the code

State: `grant[p]` is the user's row of `membership_grants` for policy `p`, with status `"NONE"` when there is none, the time left instead of `grace_expires_at`, and the missing channels; `required` is `policy_channels`, `active` the `is_active` column; `cache` holds the Redis verdicts; `member`, `asked`, `banned` are what Telegram knows; `updates` is what aiogram has not handed to a handler yet.

| action | code |
|---|---|
| `join_request_handler`, `approve_unguarded` | `handlers/join_request.py` |
| `check_callback` | `handlers/check.py` (`confirm_callback` leaves the same state) |
| `left_*`, `joined_*` | the four branches of `handlers/chat_member.py` |
| `grace_expiry_watcher`, `grace_restoration_watcher`, `daily_compliance_scan` | `jobs/` |
| `admin_user_sync_command`, `add_channel`, `remove_channel`, `admin_deactivate_policy`, `reactivate_policy` | `handlers/admin/`, `services/policy_service.py`, `notify_existing_users_about_new_channel` |
| `throttled` | `middlewares/throttling.py` |
| `user_*`, `Tick`, `cache_expires` | the user, the clock, the 300 s TTL |

Decisions a reader should know:

- **One user.** Every query of a handler or job filters by user, and rows of two users meet in no decision.
- **Loops as sets.** A loop over grants whose order the database chooses is described by the set it restores (`Sweep`, `grace_restoration_watcher`): any set the loop can end with in some order.
- **Who is told.** The handler looks at `update.from_user`, the performer. An admission by the bot is followed by a `joined` update of the user as long as `MaxPending` leaves room (`Pending`), and by none otherwise; with throttling it may be dropped as well. The bot's own kick is attributed to the bot and raises no update for the user.
- **Failures** (`Faults`). Each Telegram lookup may read as "not a member", an approval, ban or unban may fail, and the session may roll back after Telegram was told. They are off in runs whose property is about the undisturbed system.
- **`missing_channels` of a relation not loaded.** An assignment to it needs the old value, for which asyncio has no lazy load: it raises. This is so wherever a grant is restored that was loaded without `selectinload(missing_channels)` and is not in the session already. In the handler of a join that affects no grant (`chat_member.py:124`, `:237`) and in its second loop (`:589`) the session rolls back: `joined_unaffecting` restores nothing, and `joined_cascade` fails at a compliant grant that is not one of the affected ones. In the third loop (`:689`) every grant is an affected one. In the cascade of `grace_restoration_watcher` the status is set (`:229`), the assignment raises (`:230`), the deadline and the missing channels stay, the exception is caught (`:286`) and the row is committed (`:297`): `HalfRestored`. `CascadesEnd` says which rows, over all orders of the run, can be left so; grants the run itself selected (`Running`) have their missing channels loaded and are restored as a whole. The failure may cost the session as well, and then the run stores nothing.
- **Throttling** drops an update whatever it is: other messages of the same user count too, so any update may be the one that is dropped.

### 2.2 GrantSessions and the code

Each session runs the program of its kind (`CheckSteps`, `RequestSteps`, ...: the order of the statements in the handler; a loop over rows comes back to its `turn`), again and again. `db` is the committed table, `locked` the row locks, `profile` the lock of the `user_profiles` row that `upsert_profile`'s UPDATE takes, `eval` the Redis lock. Of a session, `todo` holds the rows its `SELECT ... FOR UPDATE` has still to lock, `copy` those it read and has not come to, `row` the one in hand, and `change` the columns the UPDATEs it has flushed name: SQLAlchemy leaves out a column set to its old value, so that two sessions can each contribute one.

| action | code |
|---|---|
| `lock_eval`, `unlock_eval`, `lock_expires` | `services/cache_service.py`; the key is deleted whoever set it |
| `upsert_profile` | `services/user_service.py:46` |
| `load_by_key`, `load_by_deadline`, `load_for_update` | the queries of Check and join request, of the watchers, of the leave and join handler |
| `claim` | that handler's `FOR UPDATE` (`chat_member.py:191`) locks the next of its rows, or waits; a row that changed meanwhile is read again |
| `turn` | the next row of a loop, or the one `commit` at its end |
| `evaluate`, `approve`, `remove_and_unban` | the Telegram calls in between |
| `write` | `log_event` flushes the row in hand (`audit_service.py:51`): it takes that row's lock, or waits for it, and **keeps all it took before** |
| `flush` | the same for a row of the user for another policy (`Others`), of the loop or of a cascade, which was not locked when it was read |
| `commit`, `deadlock_detected`, `deadline_passes` | the commit; PostgreSQL's way out of a cycle of waiting sessions, an error in one of them; the clock |

- **Rows of other policies** are locks and nothing else: whether and in which order the sessions come to them is open. A check or a join request touches its own row only.
- **Verdicts are open**: any check may find the user compliant or not, as they come and go and as join requests go by the cache. The same holds for pending join requests of a user who is outside.
- **A deadlock** is a least set of sessions each of which waits for another of the set. Any of them may be the one that fails. A watcher catches the error at the grant it was at (`grace_watcher.py:405`, `grace_restoration.py:286`), but in a transaction that failed neither the next flush nor the commit works, so that its whole run is lost.
- **Not in it**: what a cascade writes to *this* policy's rows (the cascades of a source policy; their effect is `GrantLifecycle`'s), missing channels, the half-restored row, failures of Telegram, and the scan and administrators' commands.

`RowContract` is what remains of `GrantContract` under interleaving. Warning is as strict as there, thanks to `FOR UPDATE`; a restoration may leave one column as another session has set it meanwhile (`Restore`), and a revocation asks nothing of the row it finds (`Revoke`).

### 2.3 Newsletter and the code

State: `fsm[a]` and `data[a]` are the FSM state (`states.py`) and the FSM data in Redis; `screen[a]` is what the bot last put before the administrator: the broadcasts and pages of a list, the last copy of a scheduled broadcast, the last preview. `store[j]` says where a job of the Redis store stands: waiting for its date, due, or overdue (more than APScheduler's grace of a second late); `running`, `left`, `got` are the runs, whom they have yet to reach and whom they reached; `active` is `broadcast_state`.

| action | code |
|---|---|
| `broadcast_start`, `broadcast_refused` | `handlers/admin/broadcast.py`, `ANManager.newsletter_menu` |
| `newsletters_*`, `newsletter_*`, `send_*`, `message_preview`, `choose_options`, `confirmation_*` | the handler of each window in `newsletter.py`, with the window it opens in `manager.py` |
| `channels_pagination` | `handlers/channels.py`, which takes the page buttons |
| `leave` | the commands that call `state.clear()` and are registered before the dialog |
| `time_comes`, `misfire` | APScheduler (external) |
| `run_broadcast`, `deliver`, `finish` | `jobs/broadcast_runner.py` and the storage it goes through |
| `stop`, `start` | `__main__.py` |

- **One handler, one step, with failures** (`Failures`). A handler writes data, sends a copy, sends the window, deletes the previous one, and sets the state; `Show` and `Fail` are the points at which it can raise. Handlers of one administrator are taken not to overlap, those of several administrators interleave.
- **`send_buttons` catches everything**: the new buttons are stored before the preview is sent, and a failing preview leads back to the same window.
- **Copies stay.** `delete_previous_message` deletes windows; copies and previews are never deleted, so the last one stays in sight above the later windows. `DeletedAsShown` and `ConfirmedAsPreviewed` are about those.
- **Page buttons** are answered by the list of channels (section 4), so that `page` stays 1; `Paginator` is checked and proved for every page all the same.
- **Messages** are model values with their buttons apart, since both can change on their own. Dates are one value; whether it passes before the bot is asked is `Postponed`.

### 2.4 PolicyDialogs and the code

State: `fsm`, `data` as above (`policy_id` and `chat_id`), `picked[a]` what the administrator entered since the open dialog began (a history variable: no action reads it to decide), `task[t]` a handler at work: at which `await`, for whom, what its `update_data` is to change or its own copy of the data (`given`), what was entered (`meant`) and the FSM state it will set (`next`). `chatOf[p]` is `access_policies`, `written` the rows of `policy_channels` and the changed links, `told` the last success told. `torn` is the second history variable: the administrators with whom two handlers were in their accesses to the FSM at once, or one was cut off there by a restart.

| action | code (`handlers/admin/policy.py`) |
|---|---|
| `admin_policy_create_*`, `admin_add_*`, `admin_edit_link_*` | the handler of that name is dispatched, by the FSM state it finds |
| `get_before_update`, `set_updated` | `update_data`: the data are read, and written back changed |
| `set_state` | `state.set_state` |
| `get_data` | `state.get_data` and the keys taken from it; a missing one raises |
| `clear`, `clear_data` | `state.clear()`: `set_state(None)`, then `set_data({})` |
| `leave` | the commands that clear the FSM |
| `ask_telegram` | `get_chat`, `verify_bot_admin_rights` |
| `existing_policy`, `flush_policy`, `answer_created`, `exit_created` | `PolicyService.create_policy`, the answer, the commit when the session closes |
| `flush_channel`, `commit`, `answer_written` | `PolicyService.add_channel`, the notification, `session.commit()`, the answer |
| `select_edited` | the policy whose link is to change |
| `restart` | a stop and start of the bot; Redis keeps what was written |

- **Nothing keeps handlers apart**: the dispatcher has no `events_isolation` (`__main__.py:53`), so that any two updates of an administrator may be handled at once, and each access to Redis is a step that others may come between.
- **Constraints of the database** are part of the actions: the unique index on `protected_chat_id` makes a second insert wait for the first session and then fail; the foreign key refuses a policy id that was typed and does not exist. After a failed flush the session is unusable: the error is told, the commit at its exit raises, and `state.clear()` is not reached, so that the administrator stays in the dialog (`Raise`).
- **Which handler takes a message** follows the order of registration: `/admin_policy_add_required`, like the removal and the reactivation, is registered after the states of the creation and is taken as an answer there. `leave` stands for the commands that come before every state (`/start`, `/menu`, `/channels`, `/admin_policies`, ...), one of which is enough to end a dialog.
- What `add_channel` does to grants is `GrantLifecycle`'s action of that name.

### 2.5 MembershipCache and the code

State: `member` is what Telegram knows; `cache[c]` the key `membership:{chat}:{user}`, a verdict and the time left of its 300 s; `check[s]` one run of `check_compliance` with the deletions its caller does first: the keys still to be deleted (`clear`), the channels still to be looked at (`todo`), the missing ones found, and, between two awaits, the channel asked about and the answer in hand. `Clearing` are the checks that delete first: Check and Confirm, the leave and join handlers, both watchers, and the first check of `/admin_user_sync`; join requests, the daily scan and the notice of a new channel do not.

| action | code (`services/membership_service.py`) |
|---|---|
| `begin` | the caller has the policy's channels (`check.py:86`, and the like) |
| `invalidate_membership_cache` | the function of that name, one channel |
| `found_in_redis`, `not_found` | `get` in `_check_membership_cached` |
| `check_membership_live` | `get_chat_member`; a failure reads as "not a member" |
| `setex` | `setex` with 300 s, and the verdict is returned |
| `decide` | `check_compliance` returns |
| `user_*`, `Tick` | the user; the clock, by which keys expire |

- **History.** `ago[c][v]` is the time since Telegram last would have answered `v` about chat `c`, or was taken to by failing; `since` the time since a check began, `deleted` the keys it has deleted. No action reads them. Both clocks stop at `Horizon`, which the assumption puts beyond any age the properties forbid.
- **Errors of Redis** are caught one by one in the code: a failing `get` asks Telegram, a failing `setex` is as good as none, a failing `delete` leaves the key. Each is a choice of its action.
- **`Patience`** bounds the time between Telegram's answer and its `setex`: one `await` on Redis in the same coroutine. The code sets no limit, so that every statement has `Patience` in it. How long Telegram takes to answer is not bounded; it does not matter, as only the answer dates a verdict.
- The order in which a loop takes its channels is left open, and a check that dies with the process is one that takes no further step.

## 3. What is checked

| run | instance | shows |
|---|---|---|
| `chain` | two chained policies, `Grace` 2, two pending updates | `TypeOK`, members on record, notice owed, the contract, no activation without compliance, complete cascades, full notice |
| `chain_faults` | the same with failures, rollbacks and throttling, `Grace` 1, one pending update | a full notice before a revocation, the contract, no activation without compliance |
| `chain_admins` | the first again, with `Grace` 1 and one pending update, requirements of p2 edited, p1 switched off and on | the contract, no activation without compliance, complete cascades |
| `chain_live` | p2 requires `r` as well; throttling, `Grace` 1, one pending update; fairness of jobs, clock and cache only | grace periods end; every channel a user stays out of is noticed |
| `sessions` | six kinds of session, two rows and one of another policy, two open at a time | whoever stands still is in a deadlock PostgreSQL breaks, every deadlock has a watcher in it, updates are handled in turn, nobody inside without a row, no deadline on a revoked row, GRACE only from ACTIVE, the row contract |
| `newsletter` | one administrator, two broadcasts, one per page, one subscriber, failures, one restart | data of a window present, sent as previewed, deleted as shown, lists connected, the broadcast contract, every broadcast ends |
| `dialogs` | one administrator, two handlers at work, two policies, one chat, failures, one restart | one policy per chat, told is stored; and, of administrators whose FSM accesses never mixed, answers find their data, written as entered |
| `cache` | two checks of one chat, one of which deletes first; `TTL` 2, `Patience` 1, fairness | no verdict older than TTL and wait, none from before a deletion; "member" is forgotten once the user stays out |
| `never_revoked`, `preventive_stuck`, `duplicate_rows`, `page_buttons` | small | counterexamples to what the repository says (section 4) |

### 3.1 Bounds, and why they are enough

- *Policies and chats*: `p1` protects `a` and requires `r`; `p2` protects `b` and requires `a`. It has everything a cascade needs: a source, a dependent and a channel that is protected and required. A chain of three would add only a third round of the same loops, which the code does not run (the cascades are one level deep). In `chain_live` p2 requires `r` too, so that one of two required channels may be lost, cached and noticed apart from the other. With policies that require each other's chats other behaviours are possible; see the plan.
- *`Grace`* in ticks: 2 tells "started again" from "running" and "due"; where restarts do not matter 1 does.
- *`MaxPending`*: 2 lets two updates be handled in either order and lets an update be overtaken by a job; 1 is used where failures or edits already multiply the states.
- *`MaxOpen`* 2, *`Rows`* two and *`Others`* one: every pair of kinds interleaves. Two rows for one policy are the smallest broken table, and the smallest on which two sessions can lock in opposite order; the row of another policy is one a session comes to by itself or by a cascade. Two sessions at a time can insert at most two rows, so that the bound on rows never stops a session. The two rows are symmetric (not in `duplicate_rows`). The theorems have any number of sessions and rows: a cycle of three is theirs.
- *`Editable`*, *`Toggled`*: the requirements and policies administrators touch: both channels of p2, so that it has none, one or two under running grants, and p1, on which p2 depends. `FullNotice` under such edits is left to the theorem `NoticeGiven`.
- *`newsletter`*: a list with two broadcasts and `PageSize` 1 has two pages, an item that is gone while it is shown, and a job that runs while the other is composed. Another administrator touches only jobs, which scheduler and runner do as well; the proofs have any number. One subscriber is enough for "nobody twice" within and across runs; one restart for every cut.
- *`dialogs`*: two handlers of the same administrator, who share FSM state and data, are the hard pair: two administrators share only tables. One chat makes every creation a conflict; with two policies there is one to create and one to name. The policies' ids cover an id that is typed and does not exist. Again the proofs are for any numbers.
- *`cache`*: two checks of one chat are the race (one asks and stores, the other deletes and reads), and `TTL` 2 tells a verdict that has aged from a new one. With two chats, or with three checks, TLC finds nothing either (1.8 and 1.3 million states at `TTL` 1); the proofs are for any number. `Horizon` is `TTL + Patience + 1`, the least the assumption admits.
- Deadlock is checked in every run.

### 3.2 Fairness

`JobSpec`, of `chain_live`, obliges the expiry watcher and the scan (`scheduler.py` runs them by interval and cron), the clock, and the expiry of the cached verdicts (`setex`, 300 s), each weakly: a job that stays enabled is run. It is all the two properties need: not even that an update is ever handled, or a grant restored. `FairSpec`, of the two counterexamples, adds the handlers (aiogram's polling takes every update) and the restoration, so that nobody can say something was only not scheduled. Nothing obliges the user, the administrators or a press of Check. With throttling on, an update may be lost instead of handled. `GraceEnds` assumes that the user stops leaving: each leave starts the period anew (`chat_member.py:299`; whether it should is said nowhere, though the comment above it speaks of users that were ACTIVE). In `Newsletter`, `FairSpec` obliges the scheduler (dates pass, due jobs start, late ones are dropped), a run under way, and the start of a bot that is down; stops are bounded, and no administrator is obliged to anything. `PolicyDialogs` promises nothing in time: a handler that failed leaves its dialog open.

In `MembershipCache`, time passes and an answer that has arrived is stored (or its `setex` fails); no check need begin, ask or end.

No fairness is used for `GrantSessions`: liveness of row locks depends on PostgreSQL's queue, so the safety forms `StandstillIsDeadlock` and `CyclesHaveAWatcher` are checked.

### 3.3 Slips

A definition marked `\* slip:` stands before the one it resembles and is used by no action: it is a plausible mistake in the code (a NULL deadline that counts as passed, a column that is not reset, a lock that is not taken). Put in the place of the definition, it makes TLC report the property it belongs to, which shows that the property depends on that code. `PROJECT.json` lists the pairs under `mutants`.

## 4. Where code and text disagree

1. `never_revoked`: a member put under review (Check pressed before the leave is handled, `/admin_user_sync`) is looked at by no job again and keeps access.
2. `preventive_stuck`: GRACE without a deadline is resolved only by the source grant's cascades, which not every path runs.
3. `duplicate_rows`: the Check lock is released before the commit, so that two presses insert two rows; from then on `scalar_one_or_none` raises for this user.
4. `page_buttons`: the page buttons under the list of broadcasts have the callback data of the channel list, whose handler comes first; the broadcasts beyond the first page can be neither seen nor deleted.

Seen while modelling, without a run of their own:

- The row is REVOKED whatever the ban answers (`grace_watcher.py:73`): a failed one leaves the user inside with a revoked grant, and nothing retries. Where Telegram answers, `MembersRecorded` excludes it.
- The expiry watcher loads the due rows at its start and writes REVOKED without looking again: a row that Check made ACTIVE after the load is revoked by the commit of the watcher (TLC, in `GrantSessions`).
- A deletion of a cached verdict that falls between another check's answer and its `setex` is undone: "This ensures we check actual membership status, not stale cache" (`check.py:97`) and "cache is fresh after invalidation" (`chat_member.py:231`) are not so (`ChecksActualStatus`, violated in 10 steps when put in the place of `DeletedStaysOut`). How far the harm goes is what the properties of `cache` say.
- Sessions of one user deadlock: a leave handler that holds the row of one policy and comes to that of another, and a watcher that flushed the second and comes to the first (TLC, in `GrantSessions`; two watchers do so as well). PostgreSQL fails one of them. If that is a watcher, the whole run is rolled back, while the users it removed from chats stay removed until the next run revokes their rows; if it is the handler, the leave is lost, and the daily scan has to find it.
- A cascaded restoration by the watcher is stored by half (`grace_restoration.py:229-231`, `:297`): the row is ACTIVE and still names missing channels, and keeps the deadline it had, if it was due or under review. The rest of the cascade is left out. No revocation comes early by it (`FullNotice`), but the row is not settled, and Check, when it finds this user not compliant, takes the deadline for a running grace period and leaves the row ACTIVE (`check.py:207`).
- Handlers of one administrator mix their accesses to the FSM: a handler that ends clears the state, another opens the question for a channel (`update_data`, `set_state`, lines 747-748), and the first one's `set_data({})` comes last; the question is open, the data are empty, and the answer raises (line 550) after the next question (TLC, `AnswerFindsData` without `torn`, 10 steps).
- An ACTIVE row can keep a deadline when sessions interleave: Check or the join request loads it NEEDS_REVIEW without a deadline and finds the user compliant; before it writes, the row becomes ACTIVE by another session and then GRACE; its UPDATE names `status` alone, since `grace_expires_at` was None and stays None for SQLAlchemy (TLC, in `GrantSessions`). A press of Check that finds such a user not compliant leaves the row ACTIVE (`check.py:207`).
- A leave that touches no grant leaves the verdict "member" in Redis (`chat_member.py:198`); each leave during a grace period starts it anew (`chat_member.py:299`); `/admin_user_sync` counts on `check_membership_live` to fill the cache (`users.py:197`: "this also populates cache"), which it does not.
- A policy is told to be created before it is committed (`admin/policy.py:277`), and a creation that loses the race for its chat leaves its administrator in the dialog (`admin/policy.py:296` is not reached).
- A scheduled broadcast whose date passes while the bot is down is dropped without a word; dates in the past are accepted, and such a broadcast is dropped at once.

## 5. What is proved

**Grants.** For all policies, chats, requirements, grace periods and bounds that satisfy `ConstantsAssumption` (the types, `Grace > 0`, and that no chat is protected by two policies, as `access_policies.protected_chat_id` is unique):

| theorem | says |
|---|---|
| `TypeCorrect` | `Spec => []TypeOK` |
| `Implements` | `Spec => RefinesContract`: every step maps to a step of `GrantContract` or a stutter |
| `AlwaysOwed` | `NoticeSpec => []NoticeOwed` |
| `NoticeGiven` | `NoticeSpec => FullNotice`: no revocation before a whole grace period without access |
| `OnlyWatches` | `NoticeSpec => Spec`: the history variable restricts only itself, so that all of these hold for the model of `chain` too |
| `ActivationEarned` | `Spec => ActivatedOnlyIfCompliant`, with or without failures |
| `CascadeComplete` | `Spec => KickCascades`, if `~Faults` |
| `StandingRecorded` | if `~Faults`: the members of the chat of every policy outside `Toggled` are on record |
| `MembersRecorded` | `Spec => []MemberOnRecord`, if `~Faults` and `Toggled = {}` |

The argument. `Move(g, h)` is the contract seen from one row; `LegalStep` says that each row makes a `Move` and stays a row of the table. One lemma per action shows `TypeOK /\ action => TypeOK' /\ LegalStep`; for the restoration `RestorationCommits` first brings its orders of looking at grants down to which rows are restored as a whole and which by half. `Tick` is the one step that is no `Move` and has its own lemma. The type and the refinement follow. For the notice the type is not enough: `NoticeOwed`, inductive together with it, says that the notice given and the deadline left never sum to less than `Grace`. `LegalOwes` shows that no `Move` breaks it: a deadline in GRACE is either the one the row had in GRACE, or a whole period. This is where the half-restored row is harmless: the deadline it keeps counts for nothing while it is ACTIVE, and the way from ACTIVE to GRACE sets another. `TickOwes` does the clock. A revocation happens at deadline 0, where the notice alone is `Grace`.

The other four ask of each action, one lemma each, what it does to a single grant (`GrantActionProofs`): `Earns`, that a row becomes ACTIVE only for a user who complies; `Spares`, that it revokes and deletes none; `Registers`, that an approval, undisturbed, ends with an ACTIVE row. Only the expiry watcher does not spare, and has a lemma of its own (`ExpiryRows`). The delicate point is a loop that approves one grant after another, since an approval makes the next grant compliant: `Sweep` describes it for every order, and `SweepCompliant` shows without induction that each grant it restores complies in the end (those that did not would, taken together, have a first, which complies by what was restored before it). The hypotheses are the ones of the properties: a failed removal breaks a cascade and leaves a member behind (section 4), and while a policy is switched off its chat is opened to anybody (`approve_unguarded`); `StandingRecorded` shows that the harm stays with that policy.

**Sessions.** For any set of sessions, whatever each of them runs, any table, any rows of other policies and any bound on open sessions; `SessionsAssumption` is all that is assumed:

| theorem | says |
|---|---|
| `SessionsTyped`, `RevocationSettles`, `AdmissionRecorded` | `Spec => []TypeOK`, `[]RevokedIsSettled`, `[]InsideHasRow` |
| `GraceNeedsAccess` | `Spec => GraceOnlyFromAccess` |
| `SessionsImplement` | `Spec => RefinesRows`: every commit does to every row what `RowContract` allows |
| `CyclesNeedAWatcher`, `OneAfterTheOther` | `Spec => []CyclesHaveAWatcher`, `Spec => []UpdatesInTurn` |
| `StandstillExplained` | if every open session waits for another session's lock, they are `Deadlocked` |

None of the properties is inductive: what an UPDATE will do is decided when the session reads its row and is in force only at the commit. `IInv` says of every session what is true between the two (`SessionOK`): that it is at a step of its program (`HasStep`); what it has read and not come to, what it has flushed, and what it has locked (`RowsOK`); and what the row in hand is (`InHand`). Rows read (`ReadOK`) are still there, those of the expiry watcher were due, and those of the leave and join handlers are locked and have the status they were read with. Rows flushed (`ChangeOK`) are locked to the end, and the columns to be named are known by kind: only the expiry watcher writes REVOKED, with both columns; only the leave handler writes GRACE, on a row that is ACTIVE until it commits; every other kind writes no deadline but NULL. This is why a REVOKED row keeps none although each session names only what it changed. `Flow` is the one lemma about the programs, `Place` about where a session with so much in hand can be, and `Framed` leaves every session alone whose rows and locks another's step did not touch. `CommittedRow` turns `ChangeOK` into a `Move` of the contract, from which the settled REVOKED rows and `GraceOnlyFromAccess` follow (`MovedRow`). `Admitted` names the session that owes the row of a user who is already inside; `DeadlockStep` shows that a session which fails in a cycle owes none, as the row it waits for is there.

That locks are taken one by one and kept leaves no order to prove, and cycles are real. What can be said of them rests on `Waits`, what a session is that another waits for: the holder of a row. Check and the join request come to their one lock holding no row; of the handlers of updates only one can hold the profile, and the others hold nothing (`InTurn`). So a set without a watcher has at most one session that holds a row, and that one would have to wait for itself. `StandstillExplained` adds that every lock belongs to a session that is open: nothing is waited for that nobody is left to release.

**Broadcasts.** For any finite set of jobs and any sets of administrators, subscribers and messages, any page size above 0 and any number of stops, with or without failures:

| theorem | says |
|---|---|
| `TypeCorrect`, `DialogDataTheorem`, `ListTheorem` | `Spec => []TypeOK`, `[]DialogDataPresent`, `[]ListConnected` |
| `NeighboursOffered` | what `Paginator` offers from every page of a list of any length |
| `PreviewTheorem`, `DeletionTheorem` | `Spec => ConfirmedAsPreviewed`, `Spec => DeletedAsShown` |
| `RefinesBroadcastTheorem` | `Spec => RefinesBroadcast` |

There are two invariants. `DialogInv` says of each administrator that window, data and screen are `Sound` together: the data of the window are there, and what they name is what is in sight. This is stronger than `DialogDataPresent`: only because the windows after a preview rely on the preview being that of the data does a confirmation send what was shown, and only because a window opens after its copy is the job of the data the job on screen. `Sending` says that a job is in the store or in a run but never both, that both were confirmed, and that a run has yet to come only to those it has not reached; without it neither a second run nor a second delivery could be excluded. `Showing` covers every window at once (a window shown or failed keeps the dialog sound if the new data suit the old window as well), and one lemma per action applies it. The refinement maps `store`, `running` and `content` to the phase of a job and needs `Sending` only.

**Policy dialogs.** For any administrators, handlers at work, policies, chats and stops:

| theorem | says |
|---|---|
| `DialogInvariant` | the inductive invariant `IInv` |
| `DialogTypes`, `OnePolicyTheorem`, `AnswerTheorem`, `ToldTheorem` | `Spec => []TypeOK`, `[]OnePolicyPerChat`, `[]AnswerFindsData`, `[]ToldIsWritten` |
| `EnteredTheorem` | `Spec => WrittenAsEntered` |

`IInv` has two layers. `WorkInv` holds however accesses to the FSM mix: a handler's step says what it works on and what the database already has for it (`Working`: a policy after `flush_channel`, its row after the commit); a chat inserted and not committed has no policy, and one handler only (`InsertInv`: the unique index and the wait in `flush_policy`); and the properties of the rows themselves (`RowInv`). From it follow the types, `OnePolicyPerChat` and `ToldIsWritten`, without exception. `Held(a)` is the layer of the FSM, and is claimed of administrators who are not `torn`: question, data and what was entered fit together when no handler is in its accesses (`Fitting`), and when one is, they will when it is through (`Midway`, one case for each of its steps: between the read and the write of `update_data`, between data and state, between the two writes of `clear`); the question's data are there all the while (`HasData`), and what a link handler took is what was entered. A dialog opened over an open one, a late `clear` and a slow handler are all in it; only two handlers between such steps at the same time are not, and there the claim is false (section 4).

**Cached verdicts.** For any chats, any checks with any channels, any `TTL`, `Patience` and `Horizon` that satisfy `CacheAssumption`:

| theorem | says |
|---|---|
| `CacheInvariant` | the inductive invariant `IInv` |
| `CacheTyped`, `VerdictsRecent`, `DeletionCounts` | `Spec => []TypeOK`, `[]AnswersRecent`, `[]DeletedStaysOut` |
| `AdmissionForgotten` | `Spec => []AdmissionBounded`: "member" is gone from Redis `TTL + Patience` after it was last so; what `AdmissionLapses` promises, with a bound and without fairness |
| `ActualIfPrompt` | `Patience = 0 => (Spec => []ChecksActualStatus)` |

A verdict passes through three hands, and each has its own clock: `InHand` bounds the age of an answer by its wait, `RedisRecent` that of a stored verdict by the time its key has lost and `Patience`, `Recent` that of a verdict taken by the time since the check began. `Restocked` is what a deletion adds: whatever is in Redis under a key the check deleted was stored since. None of the properties is inductive without the first two, as a check may take its verdict at any moment from a key another check fills. One lemma shows what every step but the clock's leaves alone (`NoOlder`, `Stocked`), one what the clock does to all four. `ActualIfPrompt` says that the counterexample to `ChecksActualStatus` (section 4) has one cause: if answers were stored the instant they are given, the comments would be right.

**Only model-checked**: `StandstillIsDeadlock`, which speaks of ENABLED (`StandstillExplained` is the part that can be proved), and liveness (`GraceEnds`, `StragglersNoticed`, `EveryBroadcastEnds`, `AdmissionLapses`; for the last `AdmissionForgotten` is the part that can be proved), which is beyond the prover. Every other property of a passing run is a theorem. The counterexamples of section 4 are TLC's.

## 6. What is not modelled

`approve_with_retry`'s retries (only its outcomes); the retries and the rate limit of the broadcast library; overlapping presses of one administrator in the broadcast dialog (`newsletter.py:223`: two confirmations schedule two broadcasts); `return_callback`, which does nothing; errors of Redis other than those around cached verdicts; the audit log and user profiles beyond their locks; texts, keyboards other than the paginator, locales, health endpoint and migrations. `max_instances` and the intervals of the scheduler appear only as fairness.

Removal, deactivation and reactivation happen in one step of `GrantLifecycle`; in `PolicyDialogs` no policy goes away, as the code never deletes one.

## 7. Plan

Done so far: the lifecycle with its contract, the sessions with theirs, the cached verdicts, the broadcasts, the policy dialogs, and proofs of every refinement and of every safety property but the one that speaks of ENABLED. What could follow:

1. **A history for `RowContract`**: that a revocation is of a row that was due at some time, and how long ago, by a variable as in `GraceNotice`.
2. **`ApproveRetry`**: `approve_with_retry` with lost answers, composed with the join request session.
3. **Cycles**: policies that require each other's chats as a second topology for `GrantLifecycle`, for `GraceEnds` and `KickCascades`.
4. **Rows of several policies** in `GrantSessions`, with what the cascades write to them, the half-restored row among it.
5. **Overlapping presses** in `Newsletter`, with a handler's steps apart as in `PolicyDialogs`.
