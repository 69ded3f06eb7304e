# A TLA+ model of claude-on-the-fly

claude-on-the-fly runs coding agents on behalf of people in Slack and Telegram,
and of schedules. It is a set of long-lived Python daemons that share files:
chat frontends with an orchestrator, a cron daemon, a jobs worker, and a
terminal dashboard that starts and stops them. Nothing but files and signals
connects the daemons, every daemon can be killed at any moment and is started
again, and inside each of them one asyncio loop interleaves many tasks. A daemon
starts the CLIs of claude and codex, as children or in panes of a tmux server,
inside a jail whose ways out are brokers of the daemon.

The specifications here model the parts in which that goes wrong silently: what
a kill between two file operations leaves behind, what a cancellation does in
the await it lands in, what two processes do to the same file, and what a check
is worth after the await that follows it. Line numbers below are those of
`src/src/claude_on_the_fly/`.

## 1. Inventory

| Component | State it keeps | Operations | Modules |
|---|---|---|---|
| Job queue: `jobs/file_queue.py`, `jobs/core.py` | maildir tree, result files, delivery markers, modification times | enqueue, claim, complete, mark_delivered, undelivered, recover_stale, sweep of the archive | FileQueue, JobPromise |
| Jobs worker: `jobs/worker.py`, `jobs/cli.py` | tasks in flight, stop event | run_loop, run_once, redeliver_pending, interruption notices | JobsWorker |
| Cron admission: `cron.py` (`_admit`), `jobs/key_state.py` | per item: fingerprint, fires, failures | poll, count, should_skip, enqueue, record_fire, record_outcome | CronAdmission |
| Cron schedule: `cron.py` (`run`) | `next_fire`, `@schedule` records, spent one-shots, `cron.trigger` | reload, catch-up, fire, drain of run-now requests | CronSchedule |
| Chat turns: `orchestrator.py`, `turns.py` | a queue and one drain task per chat; journal and recovery file | on_message, drain, abort, shutdown, resume_pending; record, mark_dispatched, forget, park, take | ChatTurns, TurnJournal |
| Compaction: `orchestrator.py` | context readings, idle times, `_background` | automatic, manual and idle compaction | Compaction |
| What a turn runs on: `model_command.py`, `settings.py`, `accounts.py` | pins and their store, the account of each session | `$model`, reload, account switch, current_profile | ModelPins |
| Slack ingestion: `slack.py`, `event_dedupe.py`, `slack_failed_events.py`, `slack_watermarks.py` | dedupe ledger, failed events, positions; reply counts, backlogs; session tables | delivery, catch-up, replay; what a message becomes; the reply limit | SlackIngress, SlackDispatch, SlackGate |
| Slack presentation: `slack.py`, `interim.py` | pending lists, reactions, progress queue | notify_start, notify_complete, send_progress, send | SlackMarks, TurnProgress |
| Telegram: `telegram.py` | session tokens, albums, spent menus, cards | `/new`, updates, flush, taps | Telegram |
| Approvals: `approvals.py`, `permissions.py` | grants, cooldowns, questions in flight, cards; dialogs of a pane | check, ask, answer, time out; notify, read, type | Approvals, PaneDialogs |
| Brokers and egress: `commands.py`, `broker.py`, `egress.py` | tokens per turn, child processes; grants and tunnels per session | issue, run, revoke, stop; judge, look up, dial | BrokeredCommand, Egress, CodexLogin |
| Agent and backends: `agent.py`, `backends/*`, `transcript.py`, `codex_state.py` | processes and pipes, session files, threads, rollouts, panes | run, nudge, compact, resume, host, hand off | AgentTurn, ClaudeTurn, HostedRun, CodexRollouts, SessionMemory |
| Accounts: `account_fallback.py`, `codex_auth.py` | the pool and the account in use, the shared login | fall back, retry, refresh | AccountFallback, CodexLogin |
| Sandbox: `sandbox.py`, `sandbox_linux.py`, `tmux.py`, `jobs/brokers.py` | settings kept from the start, services, mounts | start, self-test, wrap, spawn | DaemonStart, JailMounts, HostedRun |
| Orphan ledger: `jobs/orphans.py` | ledger of process groups | record, forget, sweep | OrphanLedger, AgentsProofs |
| Heartbeat and supervisor: `heartbeat.py`, `watchdog.py`, `tui/supervisor.py` | lock, heartbeat and pid files | claim, beat, start, stop with grace, restart | Supervision |
| Alerts: `jobs/alerts.py` | time of the last alert of an entry | alert, fan-out | FailureAlerts |
| Dashboard, checks, migration, pricing, logs, audit | – | views, validation, reports | not modelled |

How they interact. A frontend calls `Orchestrator.on_message` and `abort`; the
orchestrator calls back `notify_start`, `send_progress`, `send`,
`notify_complete`, `notify_resumed` and `notify_interrupted`, writes the journal
before it queues a turn, opens the egress proxy, the command token and the relay
of a turn, and awaits the backend, which starts the CLI. What the CLI asks for
comes back through the command broker, the egress proxy and the permission relay,
and the last two ask the operator through the frontend. The cron daemon writes
job files into `new/`. The worker claims them into `cur/`, archives them in
`done/` and writes the outcome into the same key-state record the cron daemon
reads and writes. The dashboard writes `cron.trigger`, which the cron daemon
renames, reads and removes. The supervisor signals every daemon, kills it when
its grace runs out and starts it again.

What is hard, and what would make each part correct:

- *Queue and worker.* `complete()` has two durable effects, a reply has two (the
  post and its marker), and every one of them can be the last thing a process
  does. A job must finish with one verdict, never run again once answered, and
  its reply must go out in the end, with that verdict.
- *Cron.* Two processes load and save one record without a lock, and a count
  reads two directories one after the other; fires and their records are separate
  writes. Caps, backoffs and once-only fires must survive that, and nothing due
  may vanish.
- *Turns.* A cancellation lands in one of a dozen awaits, and whether the turn's
  record is kept depends on which one. An accepted turn must be answered, told
  of, stopped or kept; an answered or stopped one must not run again.
- *Messages.* Every Slack handler awaits Slack between its checks and what they
  are for. A message must take effect once, in its own session, with the marks of
  its own turn, and a reply limit must neither lose nor leak what it holds back.
- *Answers of people.* A click, a key or a tap arrives when its question may be
  over. It must decide that question or nothing.
- *Agents.* A CLI has three pipes, children of its own, a deadline, and a record on
  disk that is read to tell what it did. A turn must end with what it was asked,
  leave nothing running, and be asked again only while nothing was done.
- *What is shared.* Logins, ledgers, heartbeats and settings are read by one process
  while another replaces them, and by one step of a start before another.

`PROJECT.json` lists the same as hazards, each at its line.

## 2. The modules

    JobPromise      what the ports of jobs/core.py promise (abstract)
    FileQueue       the queue: one action per operation on its own variables
      JobsWorker    EXTENDS FileQueue; the worker process; implements JobPromise
        JobsWorkerProofs, MCJobsWorker
    CronAdmission   cron daemon and worker over shared counts and records
      CronAdmissionProofs, MCCronAdmission
    CronSchedule    the cron daemon's loop, its config and its run-now file
      CronScheduleProofs, MCCronSchedule
    TurnJournal     turns.py: one action per journal operation
      ChatTurns     EXTENDS TurnJournal; one chat's queue, task and daemon
        ChatTurnsProofs, MCChatTurns
    MCConversation  the components around a conversation, one at a time:
      SlackIngress SlackDispatch SlackGate SlackMarks TurnProgress Telegram
      Approvals PaneDialogs ModelPins FailureAlerts;
      Picking (what a comprehension keeps of a list);
      DeliveryProofs (FailureAlerts, SlackMarks, TurnProgress), ConversationProofs
      (EXTENDS it; SlackGate, Telegram, Approvals, PaneDialogs, ModelPins)
    MCAgents        the components that run agents, one at a time:
      AgentTurn ClaudeTurn HostedRun CodexRollouts SessionMemory Compaction
      AccountFallback CodexLogin BrokeredCommand Egress DaemonStart JailMounts
      OrphanLedger Supervision;
      AgentRunsProofs (AgentTurn ClaudeTurn HostedRun CodexRollouts SessionMemory
      JailMounts Compaction), AgentsProofs (EXTENDS it; the others)

The granularity follows from the runtime. Code on one event loop is atomic from
one await to the next, so an action is such a stretch, with every call in it.
Two things are finer. Where a stretch has two durable effects, a kill can come
between them, and it is two actions (`FinishRun` and `ArchiveJob`; `Park` in
`Complete` and `ForgetParked`; `DueOneShot` and `MarkOneShot`): a guard keeps the
loop's other tasks out of the gap, and only a kill enters it. And where another
process reads or writes the same files, each file operation is an action (all of
CronAdmission, the trigger file, the ledger, the heartbeat, `auth.json`).

Each of the later modules has variables of its own names and a `...Init`,
`...Next`, `...Spec` of its own. `MCConversation` and `MCAgents` extend them all:
`part` says which component a behaviour is about, `PartsNext` steps that one and
leaves the others where they began, and a property guarded by `part` is that of
the component. No component is composed with another there; the two modules only
make one state space of disjoint ones.

### FileQueue, JobsWorker

`place` is the directory a job's file is in: `os.rename` moves it, and
`"pruned"` is a file the sweep has unlinked. `mtime`, `resultAt` and `markedAt`
are modification times, because `_prune_archive` and `undelivered` decide by
them, and a rename keeps the time of the enqueue. `avail` is `available_at`.
`FlakyDisk` allows every OSError the code handles: a claim that cannot read its
file quarantines it, a recovery or a sweep does only part of its work, a marker
is not written, `complete()` raises between its two effects.

`task[j]` is the await a job's task is in. `run` is the agent; `wrote` is inside
`complete()`; `deliver` and `posted` are the notifier before and after its post
landed, so that a failure or a kill can find the reply out and unmarked;
`notice` is the shielded notice of a cancelled run; `redeliver` and `reposted`
are `redeliver_pending`, which the worker finishes before it claims anything.

`JobPromise` says the same without files: a job waits, runs, perhaps again, and
finishes with one verdict, and replies carry the verdict and come after it.
`KeepsPromise` is its specification under the mapping `StatusOf`: the rename
into `done/` is the moment a job finishes, so the result a dying worker left
beside a job in `cur/` is nobody's verdict yet.

### CronAdmission, CronSchedule

One entry's items are `Keys`; `world` is the fingerprint each has at its source.
A key's jobs are interchangeable here, so `waiting` and `held` count its files in
`new/` and `cur/`. `pc` walks `_admit`: count `new/`, count `cur/`, per item the
same again, `should_skip`, the prompt, the job file, load, save. The worker
recovers, claims, completes, loads and saves. `races` marks the four
interleavings that break the ideal properties: *torn* (`recover_stale` moved
files between the two globs of a count), *gap* (an item was enqueued between its
last job's archiving and the recording of that job's outcome), *outran* (a job
finished before its own fire was recorded), *unrecorded* (the daemon died in
between). The properties say that nothing else breaks them.

The clock of CronSchedule counts minutes; a cron expression is "every p minutes"
for a `p` in `Periods`, which keeps what matters of croniter: the next occurrence
strictly after a time and those in a half-open interval. `record` is
`<entry>/@schedule`, `spent` the store of one-shots. `cuts` marks the known gaps:
*skew* (the minute changed between reload and catch-up), *oversleep* (a wake more
than one occurrence late), *edit* (an expression was changed), the daemon's death
after a fire was recorded and before it was made (*fire*), after a one-shot was
fired and before that was recorded (*mark*), with a request unlinked and not
fired (*drain*); and a leftover `.draining` file replaced by a new request
(*replaced*).

### TurnJournal, ChatTurns

`journal` maps a pending turn to when it was recorded or dispatched, whether it
was dispatched, and its replays; `parked` is the recovery file. `Take` parks what
is stale or exhausted and charges a replay to everything it hands out, in that
order of writes; `TakeCut` is a process killed after the first write.

`stage` is the await the drain task is in, and the module's comment on `Stages`
lists them. `cancelled` is `task.cancel()` called and not delivered: a step
guarded by `Awake` is one in which no cancellation is waiting, and `CancelRun`,
`CancelNotice`, `CancelOutside` and `CancelDrain` deliver it according to the
handler that surrounds the await. `Misread` is what `_process_with_account` does
with an OSError that leaves the turn, wherever it came from: it takes it for a
failed account selection, forgets the record and says so, and a cancellation
whose place the OSError took is gone. `held` stands for the pane, the relay and
the command token of a turn. `marks` is the history of each turn and names the
gaps: *early* (a stop found it taken and not yet in flight), *muted* (its error
notice was cut or raised), *cut* (stopped between the reply's landing and the
record's removal), *split* (killed between park and forget), *stranded* (queued
behind a task that was already cancelled), *unclosed* (its clean-up was cut).

### The conversation

- **SlackIngress**: events on the connection, a handler per delivery, up to two
  catch-up scans at once, the bounded ledger of processed events, the bounded
  store of failed ones, the position of each conversation. `excused` names the
  messages the code accepts to lose: no position yet, a later event that moved the
  position past one in flight, a full store, the window of a day, a handler that
  raised after it had marked.
- **SlackDispatch**: `_process_event` and the command handlers, one Slack call at
  a time: dropped, command, background job or turn, and what the turn is given of
  the thread, the workspace and the names.
- **SlackGate**: the reply limit of one thread, the list of what it holds back,
  the debounced notice, Continue and Replay. `lost` names four ways a held message
  leaves without a trace: a list orphaned by `$continue`, a sweep, a press cut off,
  a press of a busy thread.
- **SlackMarks**, **TurnProgress**: the pending lists that `notify_start` takes the
  head of, against the queue; the narration of a turn, from the relay that holds
  back what may be the answer to the progress message, the reply and its files.
- **Approvals**, **PaneDialogs**: `ApprovalBroker.check` with grants, cooldowns, joined
  callers and a card whose time limit covers post, wait and edit; dialogs claude
  draws in a pane, and the relays that type keys into whatever the pane shows then.
- **ModelPins**: `current_profile` lays a pin over an account over a channel's
  profile over the global block, each read at its own moment, while `$model`,
  edits, restarts and account switches come in between.
- **Telegram**: the token of `/new` in memory, file and orchestrator; albums; menus;
  cards. **FailureAlerts**: a cooldown decided before an awaited fan-out and
  recorded after it.

### The agents

- **AgentTurn**: three pipes with room for one unit, a CLI that reads, writes and
  leaves helpers in its group, the reader of stderr, deadline, nudge, teardown, and
  stops anywhere. `slips` are cancellations that were swallowed or cut a teardown.
- **ClaudeTurn**: whether a turn creates or resumes a session and brings the system
  prompt; the stream and the figures of up to two calls; native, ollama and pty.
- **HostedRun**: a codex in a pane that never exits, a follower of its rollout,
  tmux commands that go unanswered, the plain arm that replaces the pane, a crash
  and the sweep of panes. `Strays` are runs whose codex may be at work when another's
  turn has come: it outlived its turn, did not wait, or was misread. **CodexRollouts**: how a first turn finds its file.
- **SessionMemory**: the logs of both backends, the mapping to a thread, the home its
  rollout must be in, the handoff. **Compaction**: several chats, the announcement
  that is awaited, the idle loop and its cap.
- **AccountFallback**: pool, capacity retry and nudge, nested. **CodexLogin**: daemons
  that refresh one login under two locks, and a codex run by hand that takes none. The
  endpoint takes a token, turns it down with an error status whether it is spent or not,
  is not reached, or takes it and its answer is lost. A spent token is always refused, as
  codex assumes (`docs/agent/broker.md:66` has seen one accepted).
- **BrokeredCommand**: one child of the command broker, its pipes, its cap and its
  deadline. **Egress**: a proxy per session, its verdicts, look-ups and tunnels.
- **DaemonStart**: the settings pinned at the start, the services, the self-test, the
  spawn that reads the mode again. **JailMounts**: a small tree of paths and the
  mount list computed over it; the deepest mount decides.
- **OrphanLedger**: append, rewrite and sweep over a worker's lives and recycled pids.
  **Supervision**: daemons and two supervisors over a lock, a heartbeat and a pid file.

## 3. The runs

| Run | Instance | Question |
|---|---|---|
| `jobs_safety` | 2 jobs, 2 slots, 2 worker lives, clock to 3, faulty disk, runs and posts that raise | safety and refinement of the worker |
| `jobs_live` | 3 jobs, the first unreadable, 2 lives, delays, fairness | every job finished, every reply out |
| `jobs_origin_lost` | 1 job that may wait 3 units | finding 1 |
| `cron_cap` | 2 items, cap 1, `max_fires` 1, one kill, runs that raise | the cap and the parking |
| `cron_backoff` | 1 item, 2 fingerprints, `max_fires` 2, fairness | double enqueue, backoff, return of a moved item |
| `cron_schedule` | 1 recurring entry with 2 expressions, 1 one-shot, 2 requests, clock to 2, 2 lives, fairness | once each, nothing vanishes, what is owed runs |
| `chat_turns` | 2 turns, every fault, fairness; 2 lives with a stop or a step of the clock, or 3 lives without either; 1 turn with all of it | safety of turns, the age a first attempt is judged by, every turn settled |
| `chat_stop` | 1 turn, 1 stop, 2 lives, no faults | finding 2 |
| `conversation` | the ten components of MCConversation | messages, marks, answers, alerts |
| `agents` | the fourteen components of MCAgents | processes, sessions, accounts, confinement, daemons |
| `codex_rollout` | 2 first turns of CodexRollouts | finding 3 |
| `login_given_up` | 1 daemon, 2 requests, 2 tokens of CodexLogin | finding 4 |

What they show:

- `OncePerLife`: within one worker process a job runs once and is posted once.
  `MarkedWasPosted`, `AnsweredNeverReruns`: the marker never precedes the post,
  and an answered job is never worked on again. `PromptReplyKeepsItsOrigin`: if a
  job finished within `Retention - RetryWindow` of being enqueued, the sweep
  leaves its origin alone while its reply is owed. `KeepsPromise`: all of it
  implements JobPromise, even with a faulty disk. `EveryJobIsAnswered`: in the
  end, across a kill or a stop, behind a file that does not parse.
- `OneJobUnlessTorn`, `CapUnlessTorn`, `ParkedUnlessRaced`,
  `BacksOffUnlessRaced`: the gates of admission hold in every interleaving that
  has none of the named races. `MovedItemIsFired`: no gate is for ever.
- `FiresOnceUnlessCut`, `NothingOwedVanishes`, `WhatIsOwedRuns`: a scheduled time
  fires once, everything the record has moved past was attempted or is in a log
  line, requests and one-shots run in the end.
- `NothingOwedIsForgottenUnlessMuted`: a record goes because the turn was
  answered, told of, stopped or parked. `NothingIsLeftBehind`: what a turn holds
  goes with it, and a record that stays has somebody working towards it.
  `SettledNeverRerun`: what is over stays over. `OldestFirst`: no live message
  overtakes a resumed turn. `RunsBounded`: `MAX_REPLAYS` holds over kills.
  `FirstAttemptIsMeasured`: the TTL of a first attempt runs from its dispatch.
  `EveryTurnIsSettled`: no accepted turn waits for ever.
- `MessagesAreHandled`: a Slack event is handled at most once unless the bounded
  ledger let it go, and one the bot must handle is handled, held or ahead of its
  position (SlackIngress); it takes effect as allowed, in one workspace, knowing
  its thread (SlackDispatch).
- `GatedIsKept`: what the limit holds back is in a list, a handler or a press, its
  sender is told within a bound, and no thread runs past its limit but for handlers
  that overlapped. `TurnIsShown`: reactions and withheld replies are those of the
  turn, the narration is told once, in order, above the reply, and never the answer.
- `AnswersCount`: a call goes ahead only by a click that is still good, a key is
  asked about once at a time, a key reaches the dialog it was read from, no dialog
  is stranded; and a chat runs on what it was pinned to, on its account, over its own
  channel's row. `AlertsAsTold`, `TelegramKeeps`: one full alert a window and sink;
  a chat stays in the session of its last `/new`, albums are whole, a menu sends once.
- `TurnsAreTheirOwn`: pipes never deadlock, a stopped turn is silent, nothing outlives a
  turn (AgentTurn); figures, prompts and evidence of a claude turn are its own
  (ClaudeTurn); a prompt is carried out by one codex, answered with what was
  asked, and complete work is delivered (HostedRun).
- `ServedWithinBounds`, `AccountsServe`, `ThreadsAreKept`, `CompactsAsDue`: timeouts are
  the command's own and output is whole, tunnels end with their session; a request is
  sent again only while no tool ran; a login is refreshed by one daemon at a time, no
  spent token is tried and the file keeps the good one unless something is `Broken` (an
  outside refresh, an answer not written or not received), and only a token that the
  endpoint turned down is given up; a chat resumes what is there and knows what was
  said; a reading buys one compaction.
- `RunsAsConfigured`: a daemon serves only on a proven jail and its turns run as it
  was started; what the jail promises to hide is hidden, what a session needs is
  writable. `EveryDaemonsOwn`: no sweep kills a stranger, no stop another daemon's agents.

Each `Unless` is a statement in two halves: the weakened property says exactly
through which gap the ideal one fails, and that there is no other.

Every property has a mutant, named beside the definition it alters: the plausible
bug (a guard dropped, a count not kept, a step left out) that makes TLC refute
the property in the same run. A property that joins two components has one in
one of them; most modules carry further mutated forms beside what they mutate.

### Bounds

The counters that would grow without bound are capped in a guard by a constant
the module names: clocks (`MaxClock`, `MaxTime`, `MaxHour`), processes (`MaxLives`,
`DaemonLives`, `MaxCrashes`), stops, presses, edits, faults and messages. They are
small because the hazards are: an interruption matters by the step it falls into,
and a second life is enough to show what the first one left behind; three lives
allow a recovery that is itself interrupted. Two jobs, items or turns are needed
for order, slots and the cap, and no property relates three, but for Approvals
(an asker, one who joins, one who comes later), the pool of accounts (first, next,
last) and Compaction (two rooms with up to four messages). Queues and stores are
of one or two places so that they overflow; windows are one or two units of a
clock that runs past them (`Ttl = 0` in `chat_turns`: any tick makes an attempt
stale). There, two turns, three lives, a stop and a tick are too many together, so
`WithinShape` of MCChatTurns bounds a behaviour in one of two ways: two lives with a
stop or a tick, or three lives, with both for one turn and with neither for two. The
theorems have no such bound. In `CronSchedule` the clock's last
minute stands for all later ones, so its loop keeps turning in it. The tree of
JailMounts is the part of a host that the mount rules name. A choice another
component makes at its start is fixed in `PartsInit`, which only avoids a product
of start states. Deadlock checking is off in every run: when the last process has
nothing left to do and the clock is at its bound, the instance rests.

### Fairness

Weak fairness only, and only of what the program or the machine makes happen.
The supervisor starts a dead daemon again (`Start`, `Boot`, `StartWorker`); an
event loop runs a ready task (`Step`, `Drain`, `DaemonStep`); an agent run ends,
because it has a timeout; a frontend call returns or raises; time passes (`Tick`,
`Elapse`). Nothing makes anybody write, stop, edit, ask or kill, and no choice
between outcomes is fair: that a run succeeds or a post works is never assumed
(`jobs_live` does assume a notifier that does not raise, since a job whose every
post raises is never answered, and a runner that does not raise in the last
life, which nothing would recover). The last life of each instance is not killed,
which is the usual reading of "killed finitely often". The components of
`conversation` and `agents` are checked for safety; where one of them must not
wait for ever, that is stated of states (`BothSidesMove`, `HeldBackIsTold`,
`NoDialogIsStranded`, `Hangs` in ClaudeTurn).

## 4. What the code does against what it says

Four runs are expected to end in a violation, each of one documented statement:

1. `jobs_origin_lost`: a job that waited long is swept from the archive by its
   enqueue time while its reply is still owed (`file_queue.py:258`), although a
   result without a marker is "a reply somebody is still waiting for"
   (`docs/agent/jobs.md:75`).
2. `chat_stop`: a `$stop` that lands in `notify_start` or in the config notice
   cancels the turn and leaves its record (`orchestrator.py:747`), so the next
   start runs it; `docs/agent/frontend.md:256` says the record is dropped.
3. `codex_rollout`: a first codex turn in a pane, stopped before its rollout exists,
   opens the gate while its codex lives on (`codex.py:883`); the next first turn
   of the directory may read that rollout, the race the gate is there to stop.
4. `login_given_up`: every error status of the token endpoint becomes a
   `RefreshRejected` (`codex_auth.py:200`), and `_rejected` gives the login up without
   looking at the status (334). A 429 or 503 on a refresh token that is still good
   stops all refreshes until the file changes, although `_failed_token` is said to hold
   "the refresh token a permanent failure was for" (227).

Three ideals are stated in their modules and checked by no run, because the code
does not keep them: `CapLeavesForNextScan` (SlackIngress: a live message moves a
position past what a capped scan left, against `slack.py:3317`),
`TimeoutAlwaysItsOwn` (BrokeredCommand: a child that does not read its input while
its output fills up times out without having been slow) and `ModeIsKept`
(DaemonStart: the jobs worker has no baseline of the settings, nor has a chat
daemon that started on an unusable file). `EditKeepsTheAnswer` (Approvals) is
another: a click whose card is edited too slowly is counted as a timeout. So is
`TriesAgainWithAGoodToken` (CodexLogin): a time-out or a malformed answer counts as
transient, "and the next one tries again" (`codex_auth.py:321`), although the endpoint may
have taken the token. The new one is then nowhere, the next try posts the spent one, and the
login is given up, while of an answer that cannot be written the code says that "dropping
the answer would lose the login" (368), and keeps it. One daemon and one request are enough
for it.

Found by reading and by the models, and visible as named gaps:

- *Cron and turns*: the double enqueue behind *torn*, the extra fire behind
  *unrecorded*, the second fire behind *skew* and *mark* (`cron.py:216` says a
  restart cannot run a one-shot twice), a request lost behind *replaced*
  (`docs/agent/cron.md:265`), the turn forgotten although its notice was cut behind
  *muted*, the replay of a parked turn behind *split*, the message that waits behind a
  cancelled task behind *stranded*; a replayed turn keeps the clock of its first
  dispatch (`turns.py:288`), although `recorded_at` is said to measure "this attempt".
- *Slack*: the session a command, an empty or a raised event leaves behind makes the
  next message of the thread an old one, so the thread is never fetched; a session
  evicted while it is handled, and two look-ups that disagree, split a workspace.
- *Telegram*: a tap whose toast fails spends the menu and sends nothing; a time limit
  that runs out inside the post of a card leaves its nonce behind.
- *Agents*: an empty claude session file never recovers (`claude.py:459`, where a
  comment says so too); `_merge_cli_output` drops the cache writes of the second
  call and a nudge in pty mode the cost of the first; `/compact` typed as text in
  pty mode hangs until it is stopped. In a pane: an aborted codex turn is waited out to the
  deadline; two unanswered probes give up a live pane; a stop inside `new-session`
  leaves a pane behind, and what it writes may answer the next turn.
- *Confinement*: `_tunnel` says it relays "until either side closes" and waits for
  both; `_start_sandbox` of a chat daemon leaves brokers running after a failed start.
- *Models and accounts*: while the operator's file cannot be parsed a conversation is
  said to run on the global configuration (`docs/reference/config-yaml.md`), but the
  routes of the accounts cannot be read then and a session that has no account yet
  cannot run; `$model default high` checks the effort against the pin that it removes
  (`model_command.py:133`); a `$model` during a turn drops the context reading and
  the end of the turn brings back that of the old model; a reading taken
  natively survives the move of a turn to an ollama account.

## 5. What is proved

TLAPS proves the theorems below for every value of the constants that the named
assumptions allow; TLC evaluates the assumptions in every run of the module. The
proofs of a component have one shape: an inductive invariant of named parts, a lemma for
the initial states, one for each action, one that the parts give the property, and
the theorem, whose last step is temporal. A property of `conversation` or `agents` that
joins components is a theorem of `PartsSpec`, from those of the components: `PartsNext`
steps one component and leaves the others where they began.

**JobsWorkerProofs** (assumptions `QueueAssumption`, `WorkerAssumption`: the sets and
bounds have their kinds, nothing about their size).

- `TypeCorrect`, `MarkedIsPosted`, `AnsweredIsFinal`: `TypeOK`, `MarkedWasPosted` and
  `AnsweredNeverReruns` from one inductive invariant `IInv`. `MarkedWasPosted` is not
  inductive: a marker is written by a task that has posted, so the invariant says where
  the file of a job is for each step of its task (`TaskMatchesFile`) and which facts
  about a reply need a finished job (`ReplyMatchesFile`).
- `OnceEachLife`: `OncePerLife`, with `LifeAllows` added: a file in `new/` was not run
  in this life, a reply still to be posted was not posted in it.
- `WorkerKeepsPromise`: the worker over the file queue implements JobPromise, with
  every fault of the model, crashes included. `VerdictMatchesFile` carries it: the
  verdict in hand, the one on file and the one promised are the same.
- `PromptReplyIsKept`: `PromptReplyKeepsItsOrigin`, for any two windows. The sweep goes
  by the time of the enqueue and the redelivery by that of the result; `SweptIsOld` says
  of a swept file that it is older than the retention window, and stays so.

**ChatTurnsProofs** (assumptions `JournalAssumption`, `ChatAssumption`: turn ids are positive
numbers, the bounds and the times are numbers).

- `ChatTypeCorrect`, `RunsAreBounded`, `NothingOwedForgotten`, `NothingLeftBehind`,
  `TakenInOrder`, `SettledIsFinal` and `FirstAttemptMeasured` state all the safety
  properties of `chat_turns`, with one inductive invariant `IInv` in two layers.
- Its `Shape` relates the variables: what waits is ordered by acceptance, and the turn
  in hand comes before it (`InOrder`); `_in_flight` names the turn from the agent's
  start to the turn's finally (`InFlightNamed`); a turn that waits has run no more often
  than its record counts replays (`RunsCounted`). Without the last, a record written
  back at boot could stand for more runs than it counts.
- The other parts say for each point of the way through `_drain` who answers for a
  turn: `RecordsInHand` for its record, `HeldInHand` for its pane, `ReasonKnown` for why
  a record may go, `OverIsForgotten` for what must not run again. They are proved
  action by action from lemmas on what each kind of step touches (`StepKinds`).

**CronAdmissionProofs** (assumption `AdmissionAssumption`: a cap and a concurrency of at
least one, as the config demands, and numbers).

- `OneJobEach`, `ParkedInTime`, `BacksOffInTime`: from `IInv`, whose `Unraced` says what the
  file of records is worth until a race has happened: the copy a process is about to write
  back is still what the file says, and the file holds the fires and the wait of the item
  as it last was.
- `AdmissionTypeCorrect`, `WithinTheCap`: from a second invariant, `CInv`. The count of a
  poll is taken from two directories at two moments; `Reckoned` bounds what is there by
  what was counted at each point of the poll, which holds because only the daemon adds
  jobs and a claim moves one from the directory counted first to the one counted next.
  Between the fire and its record the local count is one short, and only there.

**CronScheduleProofs** (assumption `ScheduleAssumption`: recurring entries and one-shots are
apart, periods are positive, times are numbers).

- `ScheduleTypeCorrect`, `FiresAtMostOnce`, `NothingDueVanishes`: from one invariant about
  where an entry's record stands against its next fire. What has fired is at or before
  both (`Once`); no due time lies between them once the start has caught up (`Told`). The
  properties alone say nothing of the next fire, and a step of the loop moves it.

**DeliveryProofs** (assumptions `AlertsAssumption`: one sink, hour and life at least;
`MarksAssumption` and `ProgressAssumption`: bounds are numbers, a digest and a queue hold
one block or chunk at least).

- Two recursive functions walk lists of any length: `Picked`, what a comprehension keeps
  (of the pending lists, after a restart), and `EmittedAll`, the blocks of a narration one
  after the other. What they do needs induction, and the library's induction theorems take
  an operator as a parameter; `GoesOnForever` states induction of a set instead, from the
  well-foundedness of the naturals and the minimum it gives (`WFMin`). `PickedAre`,
  `PickedClimbs` and `EmittedKeeps` rest on it.
- `MarksFollow`: `FollowsTheTurns` of SlackMarks. While no list has shifted, the lists are
  those of the turns in front of the line, all with a message, and the turns behind them
  have none (`Lined`); what `notify_start` takes is therefore its own (`InHand`), and a
  reaction stands on a message that is listed, in hand or in flight (`MarksFit`).
- `TurnsAreTold`: `TurnIsToldWell` of TurnProgress. Blocks are numbered as they are said.
  `Keeps` says of the recorder that what it holds and queues climbs, chunk by chunk, and is
  among the last of what was proved; `Out` collects every place a block has been handed to
  (the thread, the newest message as the frontend remembers it, the call under way, one
  that was cut off), and `Follows` puts what the recorder still has behind all of it.
  `Linked` ties what is remembered of the newest message to what the thread shows, since
  an edit writes the whole message again; `NothingGoesMissing` follows the last blocks from
  the recorder over the call to the thread, which is what a failed turn owes.
- `AlertsAreAsTold`: `AlertsAsTold`. The property compares alerts pair by pair, and the
  state does not keep which of two came first; `Crossings` and `OneIsFull` recover it: of
  two that did not cross, either the first was over when the second began, so the
  second read its window, or no sink had taken it.

**ConversationProofs** (`GateAssumption`: a limit and a backlog of at least one, delays that
are numbers, as `_positive_int` and `_non_negative_float` make them;
`TelegramAssumption`: bounds and caps are numbers; `ApprovalsAssumption`: times are numbers,
and no call is called `none`; `DialogAssumption`: bounds are numbers; `PinAssumption`: a
bound that is a number, no account called `unset`, routes to registered accounts, and
channel rows only where the file parses).

- `TheGateKeeps`: `GatedIsKept` of SlackGate. `Safe` says on which list an owed message is
  for each step of its handler: one that is being locked must be on a list a button still
  reads, or a `$continue` at that moment would lose it unnamed. `NoticeClock` ties the
  delay of the notice to its ceiling, and `Charged` the count to the turns.
- `TelegramIsAsTold`: `TelegramKeeps`. `Pending` says that the turns a restart has still to
  queue are the last of those pending, `KeptForward` that pending turns stand in the order
  of their sessions and the chat is in none earlier than those of the turns already
  queued: so a replay that puts an old token back never does it to a newer turn. `MenuInv`
  follows a menu from its post over its labels to the tap that took them; without
  duplicates in the labels and with menus numbered afresh, one that has sent a label
  cannot be ready again.
- `AnswersDecide`: `AnswerDecides`, the part of `AnswersCount` that is about Approvals.
  `Stands` makes `inFlight` and the call that asks name each other, which is why a second
  question cannot be open and a joined call is never forgotten. That a "no" is remembered
  needs two facts the property does not mention: the refusal stands for the cooldown after
  the click (`Cools`), and whoever asks was the last to ask (`AsksLast`), so nobody has
  asked between the click and its return. A grant is traced to the click behind it by
  `KeyStands`; `Timely` bounds how old the click may be by then, since the limit is on
  post, wait and edit together. `SettleKept` is the one lemma on the end of a question,
  whichever of its four ways it ends.
- `DialogsAnswered`: `DialogsAreAnswered`. `TakeTurns` says for what the pane shows who is to
  answer it: nobody while claude works, the relay that says why after a refusal, and for a
  dialog its hook that has not posted, or one relay that has read no other. The keys a
  relay types reach the dialog it read because no other relay is at work between.
- `PinsAreHeld`: `PinsHold`. A turn that no edit and no command has touched runs on what holds
  now (`TurnStands`), and a session is told of the account it keeps (`AccountStands`). Laying
  a pin over an account over a row is proved once, for any registry, as `LaidOn`.
- `PeoplesAnswersCount`: `AnswersCount`, as `conversation` checks it, from the last three;
  `TurnsAreShown`: `TurnIsShown`, from `MarksFollow` and `TurnsAreTold`.

The proof of `TurnsAreTold` found a step of the model that lost a call: when the drain was
given up and then the turn was stopped, the second cancellation forgot what the first one
had left with Slack. `CutInterim` now keeps it, and it may still land.

Two attempts failed for a good reason. `EffortFits` once spoke of every effort accepted
together with a model. An ollama turn's `$model` is checked against the ollama lists,
though, and a restart after a store that was not written brings back an older pin; one
step more than the run allows (`MaxHappens = 4`) refutes it. The property is now about
a model that was checked against claude's catalogue, and that pin. `StaysInSession`
once excused turns that ran in an earlier session only while the token file was
unsaved. With one more action than the run allowed (`MaxActs = 5`) that is false: a
`/new` is saved, the next one is not, a text is journaled, the daemon is killed; the
restart loads the first token, the text runs in it, and then a third `/new` is saved
and ends the excuse. The property now tells the two apart (`Unsaved`): the session the
chat is in is excused until the file is good again, the turns that ran for good. At
`MaxActs = 7` TLC finds no violation in 5.0 million states, and the theorem holds for
every bound.

**AgentRunsProofs** and **AgentsProofs** prove all fourteen components of `agents`, for every
value of the constants. The assumptions are those of the modules: bounds are numbers
(`LedgerAssumption`, `MemoryAssumption`, `AgentAssumption`, `StartAssumption`,
`JailAssumption`), chats
are finitely many (`CompactAssumption`), pipes, caps, pools, sessions and turns are at least
one (`CommandAssumption`, `EgressAssumption`, `FallbackAssumption`, `ClaudeTurnAssumption`,
`HostedAssumption`), and no turn, request, daemon or supervisor bears the name that stands
for none (`RolloutAssumption`, `LoginAssumption`, `SupervisionAssumption`). The runs of an
agent, in AgentRunsProofs:

- `TurnsEndWell`: `TurnEndsWell` of AgentTurn. `NoneOutsideTheRun` has no process outside the
  run and both streams read while there is one; `StopIsUnderWay` follows a stop to the end
  of the teardown.
- `ClaudeTurnsKeep`: `ClaudeKeeps` of ClaudeTurn. `SumsFit` makes the figures of the turn those
  of its calls and of what the session logged past the offset, `StageFits` says which call
  has which tally, `WaysFit` that whatever resumes finds content and whatever creates has
  its prompt staged until the first call has read it.
- `HostedRunsKeep`: `HostedKeeps` of HostedRun. `GivenOnce` follows the prompt, `WorkIsAccounted`
  the pane at work, `RecordsAreAccounted` who wrote what is read of the rollout.
  With the two above it gives `TurnsEndAsTheirOwn`: `TurnsAreTheirOwn`.
- `RolloutsAreFound`: `FindsItsRollout` of CodexRollouts. `TurnAtGate` ties a gate to a turn that
  has found no file, `OthersAtGate` says that whoever else may show a new file to that turn
  was abandoned or strayed itself.
- `MemoryStays`: `MemoryIsKept` of SessionMemory. `LogsTell`: a backend's log tells of all that
  was answered up to its own last answer, and the run under way has been told of all of
  it, until a gap. With `RolloutsAreFound` it gives `ThreadsGoOn`: `ThreadsAreKept`.
- `JailIsKept`: `JailKeeps` of JailMounts. `Above`, the walk from a path up to the root, is a
  recursive function; that it has its fixed point is shown level by level, down the five
  levels of the tree. `TopMount` says that of any mounts over a path one lies over all
  others, so the choice in `FateUnder` is determined; `GrantsAre` says what each kind is
  mounted on for given settings, and `HiddenFates`, `OpenFates` and `KeptFates` what that
  makes of each path. `FatesHold` is the invariant: what the mounts made of a path when the
  turn was wrapped is not undone by what is made beside it.
- `CompactionIsDue`: `CompactsAsDue`. The invariant is about one chat at a time, and a step
  leaves the others still. `Paid` says that a large reading nobody has acted on is paid
  for already; `QuietFirst` and `QuietIs` tie `_background` to a compaction that is in hand
  or first in the line, which is what the cap counts; `InOrder` places the message held
  during an announcement behind what ran and what waits.

What serves them, and the properties that join components, in AgentsProofs:

- `SweptClean`: `SweepsItsOwn`. `SomebodyKnows` says for each phase who still knows of a
  running agent: the file, the sweep that has read it, the worker itself, or the rewrite
  under way. Without it the sweep could miss an agent that only the rewrite remembers.
- `DaemonsKnown`: `DaemonsAreKnown`. `LockFits` and `HeartFits` tie lock and heartbeat to a
  daemon, `SupersFit` says that a supervisor which sweeps has seen its daemon dead, and
  `OverlapFits` that every daemon at work but the one a stop is after is a named overlap.
  With `SweptClean` it gives `DaemonsKeepTheirOwn`: `EveryDaemonsOwn`, as the run states it.
- `FallbackIsSafe`: `FallsBackSafely` of AccountFallback. `EvidenceHolds` says what the evidence
  of the earlier runs stands for while one is under way, `PromptFits` which prompt may go
  out on it, `TriedInOrder` that the pool is used from the front and nothing twice.
- `LoginsAreShared`: `LoginIsShared` of CodexLogin. `LocksFit` and `FileFits` say who holds the two
  locks and what those about to write the file know; `LoginFits`, while the login is not
  `Broken`, that the token in hand is the live one. What is given up is a token that was
  turned down, which need not be a spent one: that is finding 4, and
  `GivenUpIsSpent` is no theorem. With `FallbackIsSafe` it gives `AccountsAreServed`:
  `AccountsServe`.
- `CommandsEnd`: `CommandEndsWell` of BrokeredCommand. `StreamsFit` adds up what was written, read
  and still in the pipe, `RequestFits` says by the stage of a request what became of its
  child. `EgressIsKept`: `EgressKeeps` of Egress. `TunnelFits` says for each stage of a
  connection what was judged and asked by then. The two give `SessionsAreServed`:
  `ServedWithinBounds`.
- `DaemonsComeUp`: `StartKeeps` of DaemonStart.
  `TrialsHeld` says what each trial has ruled out once the daemon is past it, `ServicesFit`
  what runs at each stage and for which settings, `TurnFitsSoFar` what a turn has been
  given; all three speak of the settings of the start, which `StartIsKept` holds on to.
  With `JailIsKept` it gives `RunsConfined`: `RunsAsConfigured`.
- `AgentPartsTyped`: `PartsTypeOK` of MCAgents; each part's type invariant is in its
  inductive invariant.

Two of these properties were false as they had been stated, beyond the bounds of the run.
`ReadsItsOwnUnlessAbandoned` said that a turn reads its own rollout or an abandoned one's;
with three turns the second may read the abandoned one's and the third then the second's.
`OneAtATime` of HostedRun excused a pane that an unanswered tmux had left, and no other;
with three runs, what such a pane writes can be read as the end of the next run, whose
own pane is then left at work when its kill goes unanswered too, and a retry's child
works beside it. The ghost `misread` names it. At `MaxPaneRuns = 3`, `BusyRetries = 1`,
`MaxMishaps = 4` TLC finds no violation in 13.0 million states.

Only model-checked:

- the liveness properties `EveryJobIsAnswered`, `MovedItemIsFired`, `WhatIsOwedRuns` and
  `EveryTurnIsSettled`, with the fairness they need, since liveness and ENABLED are out of
  the prover's reach;
- `MessagesAreHandled` (SlackIngress, SlackDispatch): where a message is goes through scans,
  stores and positions that are sequences of sequences, and no inductive invariant of
  them is proved yet;
- `PartsTypeOK` of MCConversation, which has the types of these two modules among its parts.
  The type invariants of the modules that are proved are parts of their inductive invariants.

The four violated properties of section 4 are counterexamples and have nothing to prove.

## 6. What is left out, and the plan

Left out of the modelled parts: the queue's views for the dashboard; cron entries
that appear or vanish and command entries run as side effects; a second writer of
the run-now file; journal writes that fail; more than one chat in ChatTurns (chats
share nothing but the journal file, which one process writes without an await);
downloads and uploads of attachments; the routes and policies of the credential and
command brokers; the macOS profile; the preparation of an account's home and the
write of claude's workspace trust; the prompts of jobs and the sweep of their workspaces.
The dashboard, checks, migration, audit, logs, prices and upgrade have no state that
two actors share. Markdown and layout are data.

The components of MCConversation and MCAgents are not composed with one another.
Each abstracts its neighbours to every outcome the code handles (a turn answers,
fails or is stopped; Slack takes, refuses or loses a call), so what is shown of one
holds whatever the others do; what needs two of them at once is not shown. The
order from here: the composition of ChatTurns with AgentTurn's teardown and with
SlackMarks' pending lists; proofs about the positions and ledgers of SlackIngress; liveness of BrokeredCommand and AgentTurn under the
deadline.
