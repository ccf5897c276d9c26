# tmex: specifications

tmex shows the panes of tmux sessions in a browser. A *gateway* (Bun, TypeScript)
holds one runtime per device, local or over ssh, that drives tmux in control mode;
browsers talk to the gateway over one WebSocket each. This directory models the
parts of that system whose correctness depends on the order of things: TLA+
modules, TLC configurations for small instances, and proofs for TLAPS.

    tlc -config barrier.cfg MCSwitchBarrier      # a run of the gateway's half
    tlc -config paneswitch.cfg MCPaneSwitch      # a run of the switch end to end
    tlc -config agent.cfg MCAgentSession         # a run of an agent session
    tlapm SwitchBarrierProofs.tla                # a module's proofs, under a minute
    tlapm PaneSwitchProofs.tla                   # the longest, a quarter of an hour

Paths below are relative to the repository's root; `ws/` is
`apps/gateway/src/ws/`, `tmux-client/` is `apps/gateway/src/tmux-client/`, and
`fe/` is `apps/fe/src/`.

## 1. The system

| part | state it keeps | operations | interacts with | hard because |
|---|---|---|---|---|
| pane-switch barrier (`ws/borsh/switch-barrier.ts`, `session-state.ts`) | per (socket, device): pending transaction, select state, armed timers, output gate and its buffer | start, ack, history, live resume, timeout, cancel | called by the WebSocket server; sends frames | timers race histories and re-selects; output must be held and released in order |
| WebSocket server (`ws/index.ts`) | device entries (sockets, runtime, snapshot, retry timer), per socket: selected and subscribed panes, pending fetches | one handler per message kind, broadcasts of runtime events, retry | barrier, registry, agent hub | awaits inside handlers; entry shared by sockets; runtime loss at any moment |
| runtime registry (`tmux-client/runtime-registry.ts`, `device-session-runtime.ts`) | reference count and promise per device, orphaned entries | acquire, release, shutdown | server, push, watch and agent hold runtimes | release and acquire cross awaits; a double release takes another's count |
| tmux connection (`tmux-client/local-external-connection.ts`, the ssh twin) | control client, heartbeat, restart budget, command queues | connect, disconnect, commands, captures, exit handling | runtime | disconnect during connect; exit, heartbeat and restart overlap |
| browser select machine (`fe/ws-borsh/state-machine.ts`) | per device: transaction, gate, deferred history, timer | select start, ack, history, resume, output, timeout | store, pane sinks | its timers are not the gateway's; frames of replaced switches |
| browser store, client, sinks (`fe/stores/tmux.ts`, `fe/ws-borsh/client.ts`, `pane-sink-registry.ts`) | connection, queue, selected panes, per-pane history gates | reconnect, reselect, focus, fetch | gateway | what is lost with an old socket and what is sent again |
| agent sessions (`apps/gateway/src/agent/`) | run per session, queued messages, confirmations in SQLite | submit, steer, stop, confirm, recover | LLM, hub | a run winding down while a message or a decision arrives; crash recovery |
| watch rules (`watch/service.ts`) | rule timers, device entries with a runtime | add, remove, tick | registry, agent | teardown against connect and tick |
| push supervisor (`push/supervisor.ts`) | entry per device with generation and reconnect timer | upsert, remove, reconnect | registry | awaits between check and use |
| browser agent view (`fe/stores/agent.ts`, `apps/gateway/src/agent/ws-hub.ts`) | messages, streamed segments, delta buffer, fetch under way; the hub's subscribers | subscribe, SYNC, events, load history, send | run, socket, HTTP | two channels without a common order; what is lost with a socket |
| chunked frames (`packages/shared/src/ws-borsh/chunk.ts`) | partial streams | add chunk, expire | both ends | limits of count, size and age |
| file transfer, notifications, upgrade, API, database, parsers, installer | see `PROJECT.json` | | | mostly I/O and text |

What makes each correct:

* *barrier*: never stuck, never leaks a focused pane's output into an open switch,
  gives a switch at most one history and then, at LIVE_RESUME, everything it held
  back, once and in order; a replaced switch is never heard of again.
* *server*: a device entry lives exactly while a socket wants it; a socket that is
  gone is in no entry; after a retry the sockets that were there are there.
* *registry*: the count is the number of holders; no runtime is shut down under a
  holder; one that nobody holds is shut down.
* *connection*: at most one control client; none after disconnect.
* *browser*: whatever the gateway sends, the terminal shows one history followed by
  the output after it; the machine comes to rest; after a reconnect the visible
  pane is heard again.
* *agent*: at most one run per session; every queued message is eventually part of
  one; every confirmation decided once, also across a restart.
* *watch, push*: every acquired runtime is released once; an enabled rule is sampled,
  one sample at a time, and fires as often as it should.
* *agent view*: at rest it shows every message, and each piece of text once.

`PROJECT.json` lists every component with its files, and under `hazards` the places
where these can go wrong, with the properties that watch them.

## 2. The switch protocol, and what is modelled

A browser selects a pane under a fresh random token (TMUX_SELECT). The gateway
answers SWITCH_ACK, closes the output gate, asks tmux for the pane's history, sends
it as TERM_HISTORY when it comes, and 450 ms later sends LIVE_RESUME followed by
the output the gate has held back. Without a history within 1500 ms it resumes
without. Beside this a browser may move its focus (TMUX_FOCUS_PANE), declare a set
of panes whose output it wants as well (TMUX_SUBSCRIBE_PANES), and fetch the history
of a pane outside a switch (TMUX_FETCH_PANE_HISTORY).

### SwitchPromise

The abstract protocol, for one socket: at most one open switch, announced by
SWITCH_ACK, filled at most once, closed by LIVE_RESUME and then at once the
held-back output under the switch's pane; live output of the focused pane only
while no switch is open; after a switch is replaced, nothing is sent for it. It
knows no timers, captures, buffers or devices. `Next` lets all sockets step
together because one broadcast reaches many.

### SwitchBarrier

| variables | code |
|---|---|
| `open` | sockets with a session state, from `handleOpen` to `handleClose` |
| `attached`, `up`, `known` | the device's entry: its sockets (no entry iff none), whether its runtime is alive, the panes of its last snapshot |
| `selected`, `subscribed`, `fetches` | `borshState.selectedPanes`, `subscribedPanes`, `pendingHistoryFetches` |
| `pending`, `timers` | `SwitchBarrier.pendingTransactions` with the timers of each, in order |
| `sst`, `gate`, `buffer` | the select transaction and output gate of `SessionStateStore` |
| `captures` | `capture-pane` commands under way, each with who asked, under which token, and, once taken, how many outputs it contains |
| `emitted`, `wire`, `nextTok` | the outside: pane output, frames not yet read, tokens drawn |
| `base`, `mixed` | history variables, read by properties only |

There is one action per handler (`HandleOpen`, `HandleClose`, `HandleDeviceConnect`,
`HandleDeviceDisconnect`, `HandleTmuxSelect`, `HandleFocusPane`,
`HandleSubscribePanes`, `HandleFetchPaneHistory`), per broadcast of the runtime
(`BroadcastTerminalOutput`, `BroadcastTerminalHistory`, `BroadcastStateSnapshot`,
`HandleConnectionClose`, `GiveUpConnection`, `RetryConnection`) and per timer
(`LiveTimerFires`, `HistoryTimerFires`). JavaScript runs each to its end, so each
is one step. A capture is three: asked for (in the handler), taken by tmux
(`TakeCapture`), and delivered or lost (`BroadcastTerminalHistory`, `DropCapture`).
All of this state is keyed by socket and device, so one device is enough; sockets
share its output and its captures.

Abstractions:

* The n-th output of a pane is the pair (pane, n); a history is the number of
  outputs it contains. A capture is never behind the output the gateway has heard.
* Frames carry, besides what is sent, the pane the bytes come from and the select
  a history was captured for, so that properties can compare them.
* The wait for the ACK cannot be seen: `handleTmuxSelect` arms and clears its timer
  in one run, so `SELECTING`, `SELECT_FAILED` and that timer do not appear, and
  neither does `LIVE`, which `sendLiveResume` passes through.
* A timer may fire at any time after it is armed; the durations are not modelled.
* STATE_SNAPSHOT frames, errors, bells, notifications, clipboard, resizes and window
  commands have no influence on switches and are left out. Chunking a large frame
  keeps the order of frames and is left out.
* Two awaits are one step here: `handleDeviceConnect` waiting for a runtime and the
  retry waiting for one. What goes wrong inside them is about entries and
  runtimes, not about switches: RuntimeHolders has them.
* When an entry goes away the captures of its runtime answer nobody, because its
  subscription is detached first; the model drops them.

### SelectStateMachine

The browser's half, as operators over its own variables, one per handler.

| variables | code (`fe/ws-borsh/`) |
|---|---|
| `tx`, `timer` | `SelectStateMachine.transactions`, `timers` |
| `held` | `outputGates`: whether there is one, and its buffer |
| `historyGates` | `historyGates` of `pane-sink-registry.ts`, each with the token of its fetch |
| `screen` | what has been written to each terminal since its last reset |

`TermHistory` is the store's handler of TERM_HISTORY: the pane's history gate is
asked first, then the machine. What `LiveResume` flushes passes the pane's history
gate again, as in the code (`dispatchPaneOutput`).

### PaneSwitch

EXTENDS SwitchBarrier and instantiates SelectStateMachine: browsers with their
store, their sockets in both directions, and the gateway.

| variables | code |
|---|---|
| `want`, `joined`, `connected` | `selectedPanes`, `connectedDevices`, `deviceConnected` of `fe/stores/tmux.ts` |
| `requests` | bytes on their way to the gateway; while the socket is down, `pendingMessages` of `fe/ws-borsh/client.ts` |
| `wire` | of SwitchBarrier: frames on their way to the browser, which `Read` takes from the head |
| `missed`, `gap`, `blurred` | history variables, read by properties only |

The user and the pages' effects start `ConnectDevice`, `DisconnectDevice`,
`SelectPane`, `FocusPane`, `SubscribePanes` and `FetchPaneHistory`; their guards are
the conditions of the pages (`connectedDevices.has`, `deviceConnected`, not the
focused pane). `Serve` is the gateway reading the next request: it runs the handler
of SwitchBarrier, or drops a select or focus of a pane that is not in the snapshot
(`Ignores`). `Read` is the browser reading the next frame, with the reselect that
DEVICE_CONNECTED and "reconnected" cause. `LoseSocket` loses both directions at
once and keeps the browser's machine and store; `OpenSocket` is READY: the store's
handler sends DEVICE_CONNECT before the client flushes its queue.

Abstractions, beside those above:

* Terminals are always mounted. The registry keeps the writes for one that is not
  and replays them, so it shows the same.
* The fallback of the machine without callbacks (`deferred...`) is unreachable: the
  store sets all callbacks once, before the first frame.
* The 500 ms in which a second connect is skipped, the bound of the queue (100) and
  the hello negotiation are left out.
* Both gates of the browser hold 1000 in the code and `MaxBuffer` here, as the
  gateway's does.

## 3. Runtimes, connections, rules and agents

Each of these modules follows one device or one session, and names in `slips` the
places where the code as it is breaks what the module promises; a property that
needs it says "unless this slip has happened", so that everything else is checked,
also beside a slip.

### RuntimeRegistry and RuntimeHolders

`RuntimeRegistry` is the registry of one device as functions of its value: `Acquire`,
`Release`, what becomes of a runtime (`Connect`, `Settle`, `Lose`, `Shutdown`), and what
they do to the current entry, the orphans, the reference counts and the life of each
runtime. `RuntimeHolders` and `WatchRules` EXTEND it.
`RuntimeHolders` composes it with the WebSocket server's device entries
(`handleDeviceConnect`, `handleDeviceDisconnect`, `handleClose`, the retry), the push
supervisor and borrowers. Every await of a runtime is a step of its own: requests,
closes and ends come in between. A callback that is due goes first (`Quiet`).

| variables | code |
|---|---|
| `reg` | `tmux-client/runtime-registry.ts`: entries, orphaned, referenceCount, and the runtimes |
| `open`, `told` | sockets; what each was last told of the device |
| `conns`, `ent`, `create` | `connections`, the entries themselves, `pendingConnectionEntries` |
| `retries` | reconnect callbacks after their timer, waiting for the new runtime |
| `push`, `pushJobs` | the entry of `push/supervisor.ts` and its async functions under way |
| `lent` | an agent run or a request, and the runtime it has |
| `lost`, `strays` | history: references whose holder has been forgotten: a listening entry replaced in `connections`, a runtime the supervisor no longer knows. Nobody releases them |
| `silenced` | history: an older connect has cleared the newer runtime of the supervisor's entry |

Slips: "misled" (a socket joins an entry whose runtime is gone and is told it is
connected), "dropped" (an entry in `connections` is replaced behind a retry),
"stolen" (`push/supervisor.ts:277` releases a runtime that the teardown of its entry
has released, so that it takes another holder's reference: a socket that waits for
the same runtime then finds it shut down, `docs/terminal/2026041400-tmux-external-cli-architecture.md:22`
notwithstanding). Beside the slips, `silenced` marks how the supervisor may fall asleep
with nothing shut: section 5, last paragraph.

### TmuxConnection

The control client of a local or an ssh device: `connect` with each of its waits, the
restarts after an exit with their budget and back-off, heartbeats, `disconnect`, the
end of the tmux server and of the ssh connection. A *start* is one attempt to have a
client; several may be under way, which is what makes it hard. The two classes are one
module with `kind`, because their restart, heartbeat and shutdown code is the same;
the ssh one also has a command channel (`line`) whose commands may time out.

Slips: "dropped" (a restart that throws is only logged, in the belief that an exit
will follow, `tmux-client/local-external-connection.ts:974-978`; no client was
there to exit), "leaked" (a client or an ssh connection that `connect` opened behind
a `disconnect` or a failure stays open).

### WatchRules

`watch/service.ts` for the rules of one device: the schedule, the device entry with its
runtime, samples with every wait, refreshes, and the judgement of a sample (unchanged
for a time, a match, or the model; once or each time; cooldown; errors that disable).
`ticks` are samples under way, `jobs` the connects of this device entry and of former
ones. A clock of minutes decides what "unchanged" and the cooldown see.

Slips: "overlap" (a rule is scheduled again while an earlier sample of it is under
way), "unrecorded" (a rule is changed while its alarm is being sent).

### AgentSession

`AgentSupervisor` and `AgentRun` for one session, with the rows that outlive the
process. A run is at one of its waits (runtime, stream, retry, title, giving back the
runtime); messages, steering, decisions, a stop, a shutdown and a crash come in at
any of them, and a crash also between two writes. The gateway restarts inside its
process with the same supervisor, so a run may outlive `stop` (its five seconds) and
go on beside the recovered one: `runs["orphan"]`. Requests are served while it stops.
Recovery answers open requests only if it has cancelled some (`supervisor.ts:171-174`).

Slips: "torn" (a crash while the queue is drained loses what was deleted and not yet
appended), "cut" (a request or its answer stays where the model does not find it),
"early" (a request is decided while its run is ending), "outlived" (a run went on after
its supervisor had stopped). `late` are the messages queued after their run had looked at
the queue for the last time. A run's `left` says that `textBuffer` may hold text, which
the next iteration clears only when it calls the model (`run.ts:446`), and `fatal` stays
through retries and drains. An interrupted stream may end or throw, and the watchdog or
a second tool failure may still come before it has.

### AgentView

The other end of such a session: what the run and the hub broadcast, one browser's
store, and HTTP between. The run is the writing half of AgentSession; a step's messages
are one, and a retry, which repeats a step, is left out.

| variables | code |
|---|---|
| `msgs`, `run`, `queued` | `agent_messages`, `AgentRun`'s textBuffer and pending deltas, the queue |
| `subs`, `down`, `up` | `AgentWsHub.subscriptions`, frames and requests on the socket |
| `shown`, `loaded`, `live`, `buffer` | `messages`, `historyLoaded`, `inProgress.texts`, `deltaBuffer` of `fe/stores/agent.ts` |
| `timer`, `fetch`, `again` | `historyFetchTimers`, the loadHistory under way, `historyReloadPending` |
| `post` | the sendMessage under way |

`subscribe` awaits its SYNC, but what it awaits is resolved at once and the handler
runs from the socket's own event, so nothing comes in between: one step. The text of
each step has an id of its own; this is the model provider's doing and is assumed.
Slips: `unfetched` (a loadHistory that fails is not repeated), `skipped` (the answer to
a sent message is merged behind a gap, and the next fetch asks only for what is after
it; or a fetch without `afterSeq` that was answered earlier replaces the list), and
`excused`, pieces of text that come twice or in vain: those in a SYNC whose deltas are
still held back, those held back while MESSAGE_PERSISTED goes out
(`onStepFinish` broadcasts it before `flushDeltas`), and those a steered step throws away.

## 4. Runs

| run | instance | checks |
|---|---|---|
| `barrier` | 1 socket, 1 pane, gate of 2, 2 tokens, 3 outputs, with fairness | `TypeOK`, `GateHasTimer`, `HeldBackIsComplete`, `OutputInOrder`, `KeepsPromise`, `SwitchEnds` |
| `paneswitch` | end to end: 1 browser, 1 pane, 2 tokens, 2 outputs, at most 3 of both, 1 unread frame besides output, 1 unread request besides DEVICE_CONNECT | `AllTypeOK`, `MachineNeverSticks`, `WaitsForSomething`, `ShownInOrder`, `ScreenIsWhole` |
| `paneswitch_panes` | 2 panes, 2 tokens, 2 unread requests; selects and focuses only, nothing is lost | `FocusAgrees`, `TerminalsKeepApart`, `NoFrameRefused` |
| `holders` | 2 sockets, push, 1 borrower, 2 entries, 2 retries, 2 runtimes | `HoldersTypeOK`, `OneRuntime`, `CountsAreHolders`, `ShutWhenUnheldOrStolen`, `ToldIsTrue`, `PushNeverSleeps` |
| `connection` | local and ssh, 3 restarts, 5 failures | `ConnTypeOK`, `OneClient`, `KillsItsOwn`, `Recovers` |
| `watch` | 2 rules, 2 samples under way, 2 changes, 2 runtimes, 1 minute | `WatchTypeOK`, `WatchCounts`, `ScheduleAgrees`, `OneSampleAtATime`, `AlarmsOnce` |
| `agent` | 3 messages, 2 requests, together 3, 1 retry, 2 restarts | `AgentTypeOK`, `NothingLost`, `IdleHasHeardAll`, `RestingStatus`, `Answerable`, `AnsweredOnce`, `RunEnds` |
| `view` | 2 messages, 1 piece of text, 3 frames, 1 upset | `ViewTypeOK`, `HistoryAgrees`, `TextAgrees`, `CatchesUp` |
| `focus_misattribution` | 2 panes, 1 token | `OutputKeepsItsPane`: violated |
| `stale_history` | 1 pane, 2 tokens | `OldHistoryIsDropped`: violated |
| `focus_lost` | end to end, 1 pane, sockets are lost | `FocusSurvivesReconnect`: violated |
| `unwatched_rule` | 1 rule, 2 changes | `ScheduledIsWatched`: violated |

*Bounds.* `MaxToken = 2` lets a switch be replaced while a capture and a timer of
the first are pending, and a fetch run beside a switch. Three outputs against a
gate of two overflow it. Two panes are needed only where panes could be confused.
`MaxWire` bounds, as a state constraint, how many frames may be unread: the gateway
never looks at `wire`, so it only limits how far apart two frames can be when they
are compared; states at the bound are still checked. Sockets do not see one another
except through shared captures, and the proofs cover any number of them.
End to end, `ShortQueues` bounds the unread frames and requests likewise; an unread
frame besides output is an ACK, history, resume or status, so two let a switch's
resume catch up with its history. Two tokens make a select replace another, or meet
a fetch, or be followed by the reselect of a reconnect; the loss of the socket, of
the device and of a capture are not bounded. Ignoring and losing requests is what
`paneswitch` is about and two panes are what `paneswitch_panes` is about, so the
second leaves losses out.
Deadlock is not checked where bounds make the model stop; `holders` checks it.

*Bounds of the other runs.* Two runtimes are an old one and its successor; a third
would repeat the second's part. Two sockets share an entry, and one may leave while
the other joins; the retry budget of two makes a retry fail with attempts left and
without. Three restarts and five failures exhaust the budget, reset it by a stable
client, and let a start overlap the next. Two changes and two samples make a refresh
wait for a sample and the second overtake it. Two requests are decided in both orders
and three events let a message meet a request and its decision; once a run has
outlived a shutdown, one event more is allowed (`MaxOutlived`), because two runs side
by side multiply. In `view`, an upset is a lost socket, a lost response or a change
of session; two messages are one the browser has and one it misses.

Larger instances were run by hand with the same results: `paneswitch` with 2 tokens
and 2 outputs unrestricted (1.2 million states), `watch` with 3 changes (4.0 million),
`agent` with 2 messages and 2 requests, together 4 (1.4 million), and with `MaxOutlived` 2
(448 thousand), `view` with 2 pieces and 4 frames (3.6 million) and with 2 upsets (3.2 million).

*Fairness.* `barrier`: an armed timer fires and a socket reads. Both are the runtime's
doing (`setTimeout`, TCP). Nothing is assumed of users, tmux or the device:
`SwitchEnds` holds if captures never come and the device never returns. `agent`: the
active run goes on when it can; its waits for the model and the runtime have ends of
their own (the watchdog of the stream, the time-out of the connection, the retry
timer), the title's call alone has none and is taken to return. `connection`: waits
and timers end, a killed client exits, the heartbeat beats. `view`: the browser reads
its frames, its timers fire, and the gateway serves the socket's requests and answers
a fetch; one weak fairness for them together is enough, because none of them can go on
for ever without new events, and those are bounded.

*What the properties say.* `GateHasTimer`: the gate is closed iff a switch is open,
and then exactly one timer, of that switch, is armed and can resume it; the code
shifts "the first timer" in three places and this is why that is right.
`HeldBackIsComplete`: the buffer is the latest outputs since the switch began; a
socket that left the device, lost it or moved its focus in between is excepted by
`base`. `OutputInOrder`: on the wire and in the gate, a pane's outputs are in order
and under its name; a focus moved in mid-switch is excepted by `mixed`, and the next
section says why it must be. `KeepsPromise`: refinement of SwitchPromise.

End to end: `MachineNeverSticks`: the browser's gate is on iff a transaction is open,
and then the timer of its stage is armed. `NoFrameRefused`: the machine's silent early
returns are never taken for a frame of the open transaction, so the two machines agree
on the order. `WaitsForSomething`: without a lost or ignored request, what the
transaction waits for is under way; its time-out is only ever needed after a loss (or
for slowness). `FocusAgrees`: at rest both ends have the same pane, unless a request
was lost or ignored since the last select. `TerminalsKeepApart` and `ShownInOrder`:
no terminal shows another pane's output or its own out of order, through three gates
in a row; a focus moved in mid-switch is excepted (`blurred`), see the next section.
`ScreenIsWhole`: after a switch that nothing cut short, every output of the pane is on
the screen, in the history or after it; `gap` lists what may cut it short: a time-out
in the browser or of the history, a lost or ignored select, a lost runtime or capture, the capture
of an older switch (`stale_history`), a light focus change, which brings no history, and a
select heeded for a socket that is not in the device's entry, or whose runtime is lost.
The rest: `CountsAreHolders`: the registry's count is the number of those who hold a
reference, forgotten ones (`lost`, `strays`), which nobody will release, included,
across late, double and missing releases; a leak is counted, not refused. `ToldIsTrue`: a socket told
"connected" is served by a live runtime, one told "reconnecting" has a retry ahead.
`PushNeverSleeps`: the supervisor's entry listens, connects, alerts, or waits for its
timer, with two exceptions: a runtime shut by a double release ("stolen"), and a newer
runtime cleared by an older connect (`silenced`). In both the code does sleep.
`OneClient`, `KillsItsOwn`: however starts overlap, one client runs, and a heartbeat's
time-out kills only the client it asked. `Recovers`: a lost or silent client is
replaced or the connection ends. `ScheduleAgrees`: an enabled rule is in the schedule
or somebody will put it there, and its samples find its device. `AlarmsOnce`: once per
value or per enabling. `NothingLost`: each message is in the queue or the log, once.
`IdleHasHeardAll`: a session that has come to rest as idle has heard each message queued
before its run's last look at the queue; one queued after it stays there until the user
writes again, and after a run has outlived a shutdown nothing is claimed.
`Answerable`: the model is never called with a request that has neither a result nor an
answer. `HistoryAgrees`, `TextAgrees`: when nothing is under way, the screen has every
message, and each piece of text in a message or in the text under way, once.
That no output is shown while a transaction is open is not claimed: a history gate
of the same pane that times out, or is replaced, writes what it holds at any time.

## 5. Where code and documentation differ

* `focus_misattribution`. `handleFocusPane` (`ws/index.ts:1025`) moves the focus
  without telling the barrier. If a switch is open, the newly focused pane's output
  goes into the gate and is flushed under the pane of the switch, which is what the
  comment at `ws/index.ts:1257` sets out to prevent.
* `stale_history`. `sendTermHistory` (`ws/borsh/switch-barrier.ts:224`) matches a
  capture to the open switch by pane alone. Two selects of one pane in a row give
  the second the first one's capture under the second one's token; the design note
  `docs/terminal/2026021404-terminal-switch-barrier-design.md:115` says the old one's
  history is dropped. What the pane printed between that capture and the second
  select is then in no history, and the gate's buffer was dropped with the first
  switch.

* `focus_lost`. Line 128 of the same note wants the token state cleared and the pane
  selected again when the connection is lost and comes back. Losing the socket clears
  nothing in the browser, and `maybeReselectCurrentPane` (`fe/stores/tmux.ts:197`)
  returns while a transaction is open. If none is open, the reselect comes right after
  DEVICE_CONNECTED, when the entry made for the returning socket has no snapshot
  (`ws/index.ts:1100`), and `canSelectWindow` drops it without an answer. Both end with
  the browser's time-out, after which nobody selects.
* `unwatched_rule`. The comment at `watch/service.ts:227` promises that a changed rule has
  its timer and device group rebuilt. A second change during a sample leaves the rule
  with a timer and without a device entry, so that each tick returns at once.

No run, but seen while modelling: the note wants no repeated output (line 5), while the
gate starts before the capture is taken and is flushed whole after it, so what is put out
in between is shown twice. A `sendMessage` whose answer arrives late sets the session
shown to "running" although the turn has finished (`fe/stores/agent.ts:982`), until the
next STATUS, SYNC or refresh. When a device entry's creation fails, the other sockets
that wait for it are not told (`ws/index.ts:1112`).

The push supervisor may sleep for good. A failed connect whose close is seen as well has
two alerts under way, and each of them schedules a reconnect
(`push/supervisor.ts:296-300`, `359-363`); the second may come while the first one's
connect is under way. The older connect then comes back, finds the generation changed and
clears `entry.runtime`, which is the newer connect's (273-277). The newer connect ends as
the current one, with no runtime in the entry and no timer, and `handleClose` (349)
ignores every later close. `prompt-archives/2026021119-terminal-bell-push-supervisor/plan-00-result.md:14`
says that both kinds of connection reconnect, in a slow loop if need be
(本地与 SSH 连接都具备断线重连机制（超出快重试后进入慢重试循环）).
TLC gives this trace when `silenced` is taken out of `PushNeverSleeps`; with it, the run and the proof show that
there is no third way to sleep.

## 6. Proofs

For any sets of sockets, panes, entries, borrowers, rules and values, any capacity of
the gate and any bounds, the modules' theorems say what the runs check on small
instances. Each rests on an invariant that the steps keep, in the module named; most of
the work is in finding it, and TLC has checked most on the run's instance first.

| theorem | property | argument |
|---|---|---|
| **SwitchBarrierProofs** | | |
| `TypeCorrect`, `GateNeverSticks` | `TypeOK`, `GateHasTimer` | `IInv` is both at once. Neither is inductive alone: the typing of `Tail(timers)` needs a timer to be there, and the gate's invariant needs the types |
| `HeldBackComplete` | `HeldBackIsComplete` | `Listening`: a socket with `base # -1` and an open switch is attached, its focus is the switch's pane and the runtime is up, so every output of that pane passes the gate; `PushHoldsLatest` shows that a full and a partial buffer both keep the latest |
| `OutputsInOrder` | `OutputInOrder` | `Ordered`: besides the order on the wire and in the gate, nothing on its way is newer than what its pane has put out (so the next output may join), what the gate holds comes after what is on the wire (so it may be let out), and without a switch the gate is empty |
| `BarrierKeepsPromise` | `KeepsPromise` | refinement: each action is mapped to a step of SwitchPromise for each socket. `FreshTokens` is what it needs beyond `IInv`: no token in use has been drawn in the future, so a fetch's reply never carries the open switch's token |
| **PaneSwitchProofs** | | |
| `AllTypeCorrect`, `MachineIsTimed` | `AllTypeOK`, `MachineNeverSticks` | `AInv`: the types, the gateway's gate, the browser's gate and timer, and the form of what is queued (a select has a pane and a token, the pane of a frame is one that exists). The gateway's half is taken from SwitchBarrierProofs by `NextIsBesideNext`: a step of the whole is for the gateway one of its own, with a token from outside |
| `FocusIsAgreed` | `FocusAgrees` | `FocusInv`: the last request that moves the focus asks for the pane the browser wants, or none is under way and the gateway has it, unless the device is being left |
| `FramesAreExpected`, `WaitIsAnswered` | `NoFrameRefused`, `WaitsForSomething` | `TokenInv` follows the open transaction's token from the request through the gateway's switch to the frames: it is in one of these, the frames under it are in turn and beyond the browser's stage but not beyond the gateway's, and no later select is queued |
| `TerminalsStayApart` | `TerminalsKeepApart` | `ApartInv`: what either of the browser's gates holds for a terminal is of its pane. It rests on `Ordered`, for what the gateway's gate lets out |
| `ScreensAreInOrder` | `ShownInOrder` | `OrderInv`: three places in the sequence of a pane's outputs, in order: the screen is behind the first, the history gate between it and the second, the machine's gate up to the third, and the wire and the gateway's gate after that |
| `ScreensAreWhole` | `ScreenIsWhole` | `WholeInv`: while nothing has cut it short, the switch is *asked* for (a queued select, and no later focus), *begun* (the gate holds back all since `base`, the history asked for is not older), *coming* (history, resume and all outputs since are on the wire, in this order) or *done* (what the screen and its history gate miss is on the wire, without a hole) |
| `PromiseHoldsEndToEnd` | `KeepsPromise` | with tokens that browsers draw, queue and lose, `FreshTokens` is not there to be had; `PromiseInv`: no two of the queued requests, the open switch and the fetches bear one token |
| `GateHoldsEndToEnd` | `GateHasTimer`, `HeldBackIsComplete`, `OutputInOrder` | SwitchBarrier's invariants are kept by `BesideNext`, so by every step of the whole |
| **RuntimeHoldersProofs** | | |
| `OneRuntimeAlways` | `OneRuntime` | `RegistryOK`, that no runtime but the registry's current one is alive, holds whatever the callers do: RegistryProofs says what `Acquire`, `Connect`, `Release`, `Settle`, `Lose` and `Shutdown` do to it, and each action is some of these in a row |
| `HoldersTypes` | `HoldersTypeOK` | `TypeInv`, with what a listener and a reconnect timer exclude |
| `RefsAreHolders`, `OnlyTheUnheldAreShut`, `PushStaysAwake` | `CountsAreHolders`, `ShutWhenUnheldOrStolen`, `PushNeverSleeps` | `LifeInv` and `SoundInv`. Counting alone is not inductive: whoever waits for a `connect()` must find what became of it (`AwaitedOK`), a connect of the supervisor must be of the runtime its entry holds or of one that was disowned (`JobsOK`), an entry that listens no more must have lost its runtime (`DetachedOK`), and notices of an end are about no runtime that lives (`LifeInv`). Only then does a release take back exactly one reference. `AwakeOK` follows the supervisor's entry: it has an own job, a timer or a live runtime, or has been `silenced` or robbed of its runtime ("stolen"), the two exceptions of `PushNeverSleeps` |
| `TidingsAreTrue` | `ToldIsTrue` | `ToldInv`: a socket told "connected" is in the entry in use and the entry listens, one told "reconnecting" has its retry ahead; an entry that listens has heard its `connect()` come back well, and if its runtime is lost the notice goes before anything else (`Listening`) |
| **TmuxConnectionProofs** | | |
| `ConnectionTypes`, `OneClientRuns`, `HeartbeatKillsItsOwn` | `ConnTypeOK`, `OneClient`, `KillsItsOwn` | `IInv`: at most one start has yet to make its client, and while it does no client is the current one (`WaitingInv`); a live client is the current one and hangs on an open line (`ClientInv`, `LineInv`); a heartbeat asked the current client (`BeatInv`), which holds because a start clears it before it makes another. `BudgetInv` ties each start to a failure of its own, so that starts have distinct names |
| **WatchRulesProofs** | | |
| `WatchTypes`, `ReferencesAreCounted` | `WatchTypeOK`, `WatchCounts` | `ServiceOK`: the references to a live runtime are the device entry's own and those of connects under way, whether or not their entry is still there (RegistryProofs again) |
| `RulesComeBack` | `ScheduleAgrees` | `Awaited`: for each enabled rule that is not scheduled a refresh waits for a sample, or a connect has it on its list; `Calm`: without an overlap a scheduled rule is one of its device |
| `SamplesAreAlone` | `OneSampleAtATime` | `Calm`: a sample that was let go has its rule out of the schedule, so that no other can start |
| `AlarmsRingOnce` | `AlarmsOnce` | `AlarmInv`: a rule that was alarmed has that in its state (or is disabled), or is just being alarmed, and a value that was alarmed is never taken for new |
| **AgentSessionProofs** | | |
| `SessionTypes` | `AgentTypeOK` | `TypeInv`, and `PlaceInv`: which runs a process may have |
| `MessagesAreKept` | `NothingLost` | `MessagesInv`: no message is in two places and none is newer than those sent; a drain has put the first part of what it took out into the conversation |
| `StatusAtRest`, `HeardBeforeIdle` | `RestingStatus`, `IdleHasHeardAll` | `StatusInv` relates the status to the process, to where the run is and to pending confirmations in every state, not only at rest; after a run has outlived a shutdown it says nothing, and the properties neither. `Heard`: once the run has taken its last look, only messages of `late` are in the queue |
| `RequestsAnsweredOnce` | `AnsweredOnce` | `RequestsInv`: requests are made once and in order, an answer comes after its request and is what was decided, a result after an answer or a cancellation; what a run owes or asks is not in the rows yet |
| `CallsAreAnswerable` | `Answerable` | `AnswerInv`: what is open has an answer that the next call takes up, or the last message of the assistant waits for it |
| **AgentViewProofs** | | |
| `ViewTypes` | `ViewTypeOK` | `TypeInv`, with: a fetch that does not start over starts at a message that is shown, and stale text has a fetch ahead |
| `HistoryIsWhole` | `HistoryAgrees` | `NoneForgotten`: while the browser is subscribed, every message of the database is shown, jumped over, or *due*: news of it is on the socket, the fetch under way brings it, or a fetch is to come that asks for all there is. That needs `Gapless` (what is before a shown message is shown or was jumped over, so a fetch after the last one leaves nothing out) and `Subscribed` (the last request on the socket is a subscribe, or it was served) |
| `TextIsShownOnce` | `TextAgrees` | `TextInv` says of each piece where it is, not of the texts as wholes. `Written`: in the run's text or in one message. `Streamed`: not broadcast and nowhere in the browser; or of the run's text and *coming*, that is, a SYNC or a delta on the socket brings it to a screen that has not got it, or the screen has it and nothing on the socket ends it; or of a message and *going*: what has it is marked stale or ended by a frame on the socket. `Steps`: a step's deltas come after the end of the step before, so that the end of one takes no piece of the next |

Assumptions on constants are those the modules name: `NoPane` is no pane, the gate's
capacity is positive, there is a runtime to name, bounds are numbers; WatchRules has a
rule at least, as a service without rules does nothing. None of the sets need be finite.
A property that excepts a slip is proved with the same exception, and the invariant says
what happens beside it: nothing was weakened for a proof. Three definitions were restated
for the prover without changing what they say: what a browser's buffer and segments
become when a frame is read (AgentView), the row that leaves the queue
(`WithdrawQueuedMessage`, AgentSession), and `ShownInOrder` (PaneSwitch), which compares
places of a terminal instead of a filtered sequence.

PaneSwitch's state is the product of both ends and of the two queues between them, and an
invariant that follows a token or an output through all of it has to be looked at for
each of some thirty steps. PaneSwitchProofs therefore first says what a step may be *for
one browser* (`Effect`: it stays, asks, times out, reads, is served, loses its socket, or
the gateway acts for it), each with the few variables that change, and proves once that
`AllNext` is that for every browser (`EveryEffect`). The invariants are then kept by
the effects, and other browsers do not appear.

What the proofs found in the models:

* `ScreenIsWhole` was false with two browsers, which no run has: `handleTmuxSelect`
  (`ws/index.ts:683`) asks whether the device has an entry, not whether the socket is in
  it. A select of a socket that is in no entry is heeded while another socket keeps the
  entry, and then the device's output passes that socket by. This is what the code does;
  the select is now among what `gap` lists (`HeedsDeaf`).
* In AgentView, `TextInv` was checked on the run `view` (811,044 states) and on a larger
  instance (40 million states) before it was proved.

Only model-checked: the liveness properties `SwitchEnds`, `RunEnds`, `Recovers` and
`CatchesUp`, which the prover does not do, and what the four runs that expect a violation
show. Every safety property that a run checks is a theorem.

## 7. Plan

Done: the switch, end to end; the registry and its holders; the control client; watch
rules; agent sessions and the browser's view of them; proofs of the safety properties of
all of these. Left:

1. The browser's WebSocket client (`fe/ws-borsh/client.ts`): back-off, pong time-out, and
   a `connect` while the old socket is still closing, whose `onclose` then acts on the new.
2. Chunk reassembly (`packages/shared/src/ws-borsh/chunk.ts`): limits of count, size and
   age; partial streams dropped whole, never joined with another's chunks.
3. The command queue of the ssh connection; statuses, tool calls and confirmations of
   the agent view; the life cycle of the page's effects (subscriptions that are not sent
   again after a reconnect, `SplitTerminalArea.tsx:152`), the connect window of 500 ms
   (`fe/stores/tmux.ts:127`), the fetch whose failure drops a newer fetch's token
   (`ws/index.ts:945`).

## 8. Not modelled

Byte-level parsers (control mode, escape sequences, layouts), the terminal emulator, the
HTTP handlers' validation, the database schema, notifications and chat services, file
transfer, self-upgrade, the installer and the command line: their correctness is about
text and external systems, or they are sequential. Pages and components are modelled
only by what they make the stores do.
